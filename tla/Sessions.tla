------------------------------ MODULE Sessions ------------------------------
(***************************************************************************)
(* Accounts, refresh-token rotation and bans: internal/handlers/auth.go,   *)
(* internal/middleware/auth.go and the user actions of                     *)
(* internal/handlers/admin.go.                                             *)
(*                                                                         *)
(* Every HTTP request runs in a fiber worker of its own; the workers share *)
(* two PostgreSQL tables, users and refresh_tokens.  A handler is a        *)
(* sequence of separate SQL statements, and each statement (or the         *)
(* transaction of Refresh, from the row lock to the commit) is one action. *)
(* Handlers of different workers interleave between any two statements.    *)
(*                                                                         *)
(* The database runs at READ COMMITTED: a SELECT or UPDATE sees what was   *)
(* committed when it started; an UPDATE or SELECT FOR UPDATE that meets a  *)
(* locked row waits, then evaluates its WHERE again on the new version.    *)
(***************************************************************************)
EXTENDS Integers, FiniteSets

CONSTANTS
    User,        \* rows of users, registered or still free
    Token,       \* rows of refresh_tokens, in use or still free
    Worker,      \* requests that can be in progress at once
    Role,        \* roles a user can have; AdminChangeUserRole's and owner
    NoToken,     \* NULL in replaced_by_id, no row in a request
    NoUser,      \* the owner of a row not yet inserted
    NoRole,      \* the role of a user not yet registered
    AccessTTL,   \* accessTokenTTL, in units of the clock
    RefreshTTL,  \* refreshTokenTTL, in the same units
    Latency,     \* bound: the longest time a request stays in progress
    MaxTime      \* bound: the clock stops here

ASSUME SessionsAssumption ==
    /\ NoToken \notin Token
    /\ NoUser \notin User
    /\ NoRole \notin Role
    /\ {"user", "owner"} \subseteq Role
    /\ IsFiniteSet(Worker)
    /\ AccessTTL \in Nat /\ RefreshTTL \in Nat
    /\ Latency \in Nat /\ MaxTime \in Nat

VARIABLES
    now,         \* the clock
    role,        \* users.role
    banned,      \* users.is_banned
    bannedAt,    \* users.banned_at
    banExp,      \* users.ban_expires_at
    owner,       \* refresh_tokens.user_id
    revoked,     \* refresh_tokens.revoked_at IS NOT NULL
    replacedBy,  \* refresh_tokens.replaced_by_id
    expires,     \* refresh_tokens.expires_at
    access,      \* the latest expiry of an access token of a user and role
    req,         \* what each worker is doing
    session,     \* history: the login whose rotation chain a row is on
    leftRole,    \* history: when a user last stopped having a role
    issued       \* history: rows inserted for a user since the last ban

users == <<role, banned, bannedAt, banExp>>
rows  == <<owner, revoked, replacedBy, expires>>
hist  == <<session, leftRole, issued>>
vars  == <<now, users, rows, access, req, hist>>

NoTime == -1
Time   == 0 .. MaxTime

(***************************************************************************)
(* A request in progress.  stage says which statement comes next:          *)
(*   issue  create the first row of a session (Register, Login)            *)
(*   user   read the user of a refresh token that was just read (Refresh)  *)
(*   unban  lift a ban the handler read as expired (ensureNotBanned)       *)
(*   lock   SELECT ... FOR UPDATE of the refresh token (Refresh)           *)
(*   tx     insert the successor, revoke the old row, commit (Refresh)     *)
(*   reply  sign the access token of a committed rotation (Refresh)        *)
(*   sweep  UPDATE the rows its snapshot selected (LogoutAll)              *)
(***************************************************************************)
Stage == {"idle", "issue", "user", "unban", "lock", "tx", "reply", "sweep"}

Request == [stage : Stage, user : User \cup {NoUser}, tok : Token \cup {NoToken},
            role : Role \cup {NoRole}, since : Time, seen : SUBSET Token]

Idle == [stage |-> "idle", user |-> NoUser, tok |-> NoToken,
         role |-> NoRole, since |-> 0, seen |-> {}]

Goto(w, s) == req' = [req EXCEPT ![w].stage = s]
Finish(w)  == req' = [req EXCEPT ![w] = Idle]

-----------------------------------------------------------------------------
Registered(u) == role[u] # NoRole
Inserted(t)   == owner[t] # NoUser
Live(t)       == Inserted(t) /\ ~revoked[t]

BanExpired(u) == banExp[u] # NoTime /\ now > banExp[u]
BanInForce(u) == banned[u] /\ ~BanExpired(u)

\* RequireAuth accepts an access token of the user: it parses and is not expired.
Authorised(u) == \E r \in Role : now < access[u][r]

\* Mutant: the transaction selects the row without FOR UPDATE.
LockedByOther_NoLock(w, t) == FALSE

\* Another worker's transaction holds the row lock.
LockedByOther(w, t) == \E v \in Worker \ {w} : req[v].stage = "tx" /\ req[v].tok = t
Unlocked(t) == \A v \in Worker : ~(req[v].stage = "tx" /\ req[v].tok = t)

\* Mutant: the access token gets the refresh token's lifetime.
Sign_RefreshTTL(u, r) == access' = [access EXCEPT ![u][r] = now + RefreshTTL]

\* An access token for user u and role r, signed now.
Sign(u, r) == access' = [access EXCEPT ![u][r] = now + AccessTTL]

Init ==
    /\ now = 0
    /\ role \in [User -> {NoRole, "user", "owner"}]
    /\ banned = [u \in User |-> FALSE]
    /\ bannedAt = [u \in User |-> NoTime]
    /\ banExp = [u \in User |-> NoTime]
    /\ owner = [t \in Token |-> NoUser]
    /\ revoked = [t \in Token |-> FALSE]
    /\ replacedBy = [t \in Token |-> NoToken]
    /\ expires = [t \in Token |-> 0]
    /\ access = [u \in User |-> [r \in Role |-> 0]]
    /\ req = [w \in Worker |-> Idle]
    /\ session = [t \in Token |-> NoToken]
    /\ leftRole = [u \in User |-> [r \in Role |-> NoTime]]
    /\ issued = [u \in User |-> 0]

-----------------------------------------------------------------------------
(***************************************************************************)
(* Register and Login.                                                     *)
(***************************************************************************)

\* The users row is created with the role "user"; issueTokens follows.
Register(w, u) ==
    /\ req[w].stage = "idle"
    /\ ~Registered(u)
    /\ role' = [role EXCEPT ![u] = "user"]
    /\ req' = [req EXCEPT ![w] = [Idle EXCEPT !.stage = "issue", !.user = u,
                                              !.role = "user", !.since = now]]
    /\ UNCHANGED <<now, banned, bannedAt, banExp, rows, access, hist>>

\* Mutant: any ban is taken for an expired one.
Login_NoBanCheck(w, u) ==
    /\ req[w].stage = "idle"
    /\ Registered(u)
    /\ req' = [req EXCEPT ![w] =
                 [Idle EXCEPT !.stage = IF banned[u] THEN "unban" ELSE "issue",
                              !.user = u, !.role = role[u], !.since = now]]
    /\ UNCHANGED <<now, users, rows, access, hist>>

\* Login reads the user; a ban in force ends the request with 403.  The password
\* is right: a wrong one ends the request and changes no table.
Login(w, u) ==
    /\ req[w].stage = "idle"
    /\ Registered(u)
    /\ ~BanInForce(u)
    /\ req' = [req EXCEPT ![w] =
                 [Idle EXCEPT !.stage = IF banned[u] THEN "unban" ELSE "issue",
                              !.user = u, !.role = role[u], !.since = now]]
    /\ UNCHANGED <<now, users, rows, access, hist>>

InsertRow(t, u, exp, chain) ==
    /\ owner' = [owner EXCEPT ![t] = u]
    /\ expires' = [expires EXCEPT ![t] = exp]
    /\ session' = [session EXCEPT ![t] = chain]
    /\ issued' = [issued EXCEPT ![u] = @ + IF BanInForce(u) THEN 1 ELSE 0]

\* issueTokens: the first row of a new session, and an access token with the
\* role that was read when the request started.
IssueTokens(w) ==
    /\ req[w].stage = "issue"
    /\ \E t \in Token :
          /\ ~Inserted(t)
          /\ InsertRow(t, req[w].user, now + RefreshTTL, t)
    /\ Sign(req[w].user, req[w].role)
    /\ Finish(w)
    /\ UNCHANGED <<now, users, revoked, replacedBy, leftRole>>

\* ensureNotBanned on a user read with an expired ban: the UPDATE does not look
\* at the row again, its error is ignored, and the handler goes on.
AutoUnban(w) ==
    /\ req[w].stage = "unban"
    /\ \/ /\ banned' = [banned EXCEPT ![req[w].user] = FALSE]
          /\ bannedAt' = [bannedAt EXCEPT ![req[w].user] = NoTime]
          /\ banExp' = [banExp EXCEPT ![req[w].user] = NoTime]
          /\ issued' = [issued EXCEPT ![req[w].user] = 0]
       \/ UNCHANGED <<banned, bannedAt, banExp, issued>>
    /\ Goto(w, IF req[w].tok = NoToken THEN "issue" ELSE "lock")
    /\ UNCHANGED <<now, role, rows, access, session, leftRole>>

-----------------------------------------------------------------------------
(***************************************************************************)
(* Refresh.                                                                *)
(***************************************************************************)

RefreshRead(w, t) ==
    /\ req[w].stage = "idle"
    /\ Live(t)
    /\ expires[t] > now
    /\ req' = [req EXCEPT ![w] = [Idle EXCEPT !.stage = "user", !.tok = t,
                                              !.user = owner[t], !.since = now]]
    /\ UNCHANGED <<now, users, rows, access, hist>>

\* Mutant: the handler refreshes without reading the user's ban.
RefreshUser_NoBanCheck(w) ==
    /\ req[w].stage = "user"
    /\ req' = [req EXCEPT ![w] = [@ EXCEPT !.stage = "lock", !.role = role[req[w].user]]]
    /\ UNCHANGED <<now, users, rows, access, hist>>

\* Mutant: the role is never taken from the user's row.
RefreshUser_NoRole(w) ==
    /\ req[w].stage = "user"
    /\ \/ BanInForce(req[w].user) /\ Finish(w)
       \/ ~BanInForce(req[w].user) /\ Goto(w, "lock")
    /\ UNCHANGED <<now, users, rows, access, hist>>

RefreshUser(w) ==
    LET u == req[w].user IN
    /\ req[w].stage = "user"
    /\ \/ /\ BanInForce(u)
          /\ Finish(w)
       \/ /\ ~BanInForce(u)
          /\ req' = [req EXCEPT ![w] = [@ EXCEPT !.stage = IF banned[u] THEN "unban" ELSE "lock",
                                                 !.role = role[u]]]
    /\ UNCHANGED <<now, users, rows, access, hist>>

\* Mutant: the row is locked without looking at revoked_at again.
RefreshLock_NoRecheck(w) ==
    /\ req[w].stage = "lock"
    /\ ~LockedByOther(w, req[w].tok)
    /\ Goto(w, "tx")
    /\ UNCHANGED <<now, users, rows, access, hist>>

\* SELECT ... WHERE id = ? AND revoked_at IS NULL FOR UPDATE: waits for the lock;
\* a row revoked in the meantime is not found and the request ends with 401.
RefreshLock(w) ==
    /\ req[w].stage = "lock"
    /\ ~LockedByOther(w, req[w].tok)
    /\ \/ ~revoked[req[w].tok] /\ Goto(w, "tx")
       \/ revoked[req[w].tok] /\ Finish(w)
    /\ UNCHANGED <<now, users, rows, access, hist>>

\* Mutant: the new row expires at the request's start, the lifetime is not added.
RefreshCommit_NoTTL(w) ==
    LET old == req[w].tok IN
    /\ req[w].stage = "tx"
    /\ \E t \in Token :
          /\ ~Inserted(t)
          /\ InsertRow(t, owner[old], req[w].since, session[old])
          /\ replacedBy' = [replacedBy EXCEPT ![old] = t]
    /\ revoked' = [revoked EXCEPT ![old] = TRUE]
    /\ Goto(w, "reply")
    /\ UNCHANGED <<now, users, access, leftRole>>

\* Mutant: the transaction links the rows and does not revoke the old one.
RefreshCommit_KeepOld(w) ==
    LET old == req[w].tok IN
    /\ req[w].stage = "tx"
    /\ \E t \in Token :
          /\ ~Inserted(t)
          /\ InsertRow(t, owner[old], req[w].since + RefreshTTL, session[old])
          /\ replacedBy' = [replacedBy EXCEPT ![old] = t]
    /\ Goto(w, "reply")
    /\ UNCHANGED <<now, users, revoked, access, leftRole>>

\* The rest of the transaction becomes visible at its commit.  The new row's
\* expiry counts from the time taken when the request started.
RefreshCommit(w) ==
    LET old == req[w].tok IN
    /\ req[w].stage = "tx"
    /\ \E t \in Token :
          /\ ~Inserted(t)
          /\ InsertRow(t, owner[old], req[w].since + RefreshTTL, session[old])
          /\ replacedBy' = [replacedBy EXCEPT ![old] = t]
    /\ revoked' = [revoked EXCEPT ![old] = TRUE]
    /\ Goto(w, "reply")
    /\ UNCHANGED <<now, users, access, leftRole>>

RefreshReply(w) ==
    /\ req[w].stage = "reply"
    /\ Sign(req[w].user, req[w].role)
    /\ Finish(w)
    /\ UNCHANGED <<now, users, rows, hist>>

-----------------------------------------------------------------------------
(***************************************************************************)
(* Logout and LogoutAll.                                                   *)
(***************************************************************************)

Logout(t) ==
    /\ Live(t)
    /\ Unlocked(t)
    /\ revoked' = [revoked EXCEPT ![t] = TRUE]
    /\ UNCHANGED <<now, users, owner, replacedBy, expires, access, req, hist>>

\* One UPDATE over all rows of the user: its snapshot selects the rows ...
LogoutAll(w, u) ==
    /\ req[w].stage = "idle"
    /\ Authorised(u)
    /\ req' = [req EXCEPT ![w] =
                 [Idle EXCEPT !.stage = "sweep", !.user = u, !.since = now,
                              !.seen = {t \in Token : owner[t] = u /\ ~revoked[t]}]]
    /\ UNCHANGED <<now, users, rows, access, hist>>

\* Mutant: rows that another transaction holds are skipped, not waited for.
SweepRows_SkipLocked(w) ==
    /\ req[w].stage = "sweep"
    /\ revoked' = [t \in Token |->
                     revoked[t] \/ (t \in req[w].seen /\ ~LockedByOther(w, t))]
    /\ Finish(w)
    /\ UNCHANGED <<now, users, owner, replacedBy, expires, access, hist>>

\* ... and it writes them once no other transaction holds one of them.
SweepRows(w) ==
    /\ req[w].stage = "sweep"
    /\ \A t \in req[w].seen : ~LockedByOther(w, t)
    /\ revoked' = [t \in Token |-> revoked[t] \/ t \in req[w].seen]
    /\ Finish(w)
    /\ UNCHANGED <<now, users, owner, replacedBy, expires, access, hist>>

\* A statement fails, the client goes away or the process stops: an open
\* transaction rolls back and earlier statements stay.
Abort(w) ==
    /\ req[w].stage # "idle"
    /\ Finish(w)
    /\ UNCHANGED <<now, users, rows, access, hist>>

-----------------------------------------------------------------------------
(***************************************************************************)
(* The admin's actions on a user, and the clock.                           *)
(***************************************************************************)

\* e = NoTime: no (or no valid) expires_at in the request, and the column is
\* not among the updates.
AdminBanUser(u, e) ==
    /\ Registered(u)
    /\ banned' = [banned EXCEPT ![u] = TRUE]
    /\ bannedAt' = [bannedAt EXCEPT ![u] = now]
    /\ banExp' = [banExp EXCEPT ![u] = IF e = NoTime THEN @ ELSE e]
    /\ issued' = [issued EXCEPT ![u] = 0]
    /\ UNCHANGED <<now, role, rows, access, req, session, leftRole>>

AdminUnbanUser(u) ==
    /\ banned[u]
    /\ banned' = [banned EXCEPT ![u] = FALSE]
    /\ bannedAt' = [bannedAt EXCEPT ![u] = NoTime]
    /\ banExp' = [banExp EXCEPT ![u] = NoTime]
    /\ issued' = [issued EXCEPT ![u] = 0]
    /\ UNCHANGED <<now, role, rows, access, req, session, leftRole>>

\* Any role but owner, for any user but an owner.
AdminChangeUserRole(u, r) ==
    /\ Registered(u)
    /\ role[u] # "owner"
    /\ r # "owner"
    /\ r # role[u]
    /\ role' = [role EXCEPT ![u] = r]
    /\ leftRole' = [leftRole EXCEPT ![u][role[u]] = now]
    /\ UNCHANGED <<now, banned, bannedAt, banExp, rows, access, req, session, issued>>

Tick ==
    /\ now < MaxTime
    /\ \A w \in Worker : req[w].stage # "idle" => now < req[w].since + Latency
    /\ now' = now + 1
    /\ UNCHANGED <<users, rows, access, req, hist>>

Next ==
    \/ \E w \in Worker :
          \/ \E u \in User : Register(w, u) \/ Login(w, u) \/ LogoutAll(w, u)
          \/ \E t \in Token : RefreshRead(w, t)
          \/ IssueTokens(w) \/ AutoUnban(w)
          \/ RefreshUser(w) \/ RefreshLock(w) \/ RefreshCommit(w) \/ RefreshReply(w)
          \/ SweepRows(w)
          \/ Abort(w)
    \/ \E t \in Token : Logout(t)
    \/ \E u \in User :
          \/ \E e \in Time \cup {NoTime} : AdminBanUser(u, e)
          \/ AdminUnbanUser(u)
          \/ \E r \in Role : AdminChangeUserRole(u, r)
    \/ Tick

Spec == Init /\ [][Next]_vars

-----------------------------------------------------------------------------
(***************************************************************************)
(* Properties.                                                             *)
(***************************************************************************)

\* What each stage has in hand: later statements use the user, the role and the
\* row that earlier ones read.
RequestOK(q) ==
    /\ q \in Request
    /\ q.stage # "idle" => q.user \in User
    /\ q.stage \notin {"idle", "sweep"} => Registered(q.user)
    /\ q.stage \in {"issue", "unban", "lock", "tx", "reply"} => q.role \in Role
    /\ q.stage \in {"user", "lock", "tx", "reply"} =>
          q.tok \in Token /\ Inserted(q.tok) /\ owner[q.tok] = q.user
    /\ q.stage = "unban" /\ q.tok # NoToken => Inserted(q.tok) /\ owner[q.tok] = q.user

UsersOK ==
    /\ role \in [User -> Role \cup {NoRole}]
    /\ banned \in [User -> BOOLEAN]
    /\ bannedAt \in [User -> Time \cup {NoTime}]
    /\ banExp \in [User -> Time \cup {NoTime}]
    /\ leftRole \in [User -> [Role -> Time \cup {NoTime}]]
    /\ issued \in [User -> Nat]

RowsOK ==
    /\ owner \in [Token -> User \cup {NoUser}]
    /\ revoked \in [Token -> BOOLEAN]
    /\ replacedBy \in [Token -> Token \cup {NoToken}]
    /\ expires \in [Token -> Nat]
    /\ session \in [Token -> Token \cup {NoToken}]
    /\ \A t \in Token : Inserted(t) => Registered(owner[t]) /\ session[t] \in Token

\* The values the tables and the requests can hold; a refresh token belongs to a
\* registered user, and a request in progress has what its next statement needs
\* (the local variables of auth.go:78-306).
TypeOK ==
    /\ now \in Time
    /\ UsersOK
    /\ RowsOK
    /\ access \in [User -> [Role -> Nat]]
    /\ req \in [Worker -> Request]
    /\ \A w \in Worker : RequestOK(req[w])

\* However often a refresh cookie is replayed, by however many requests at once,
\* and whatever logouts run beside them, a login has at most one refresh token
\* that still works (auth.go:190-226: the row lock and the second look at
\* revoked_at).
OneLivePerSession ==
    \A s, t \in Token : Live(s) /\ Live(t) /\ session[s] = session[t] => s = t

\* replaced_by_id links the rows of a login into one chain: a replaced row is
\* revoked, its successor is a row of the same user and login that expires no
\* earlier, no two rows share a successor, and every row but the login's first
\* is somebody's successor (auth.go:203-223).
RotationChain ==
    /\ \A t, n \in Token : replacedBy[t] = n =>
          /\ revoked[t] /\ Inserted(n) /\ n # session[n]
          /\ owner[n] = owner[t] /\ session[n] = session[t]
          /\ expires[n] >= expires[t]
    /\ \A s, t \in Token : replacedBy[s] = replacedBy[t] /\ replacedBy[s] # NoToken => s = t
    /\ \A n \in Token : Inserted(n) /\ n # session[n] =>
          \E t \in Token : replacedBy[t] = n

SessionLive(s) == \E t \in Token : Live(t) /\ session[t] = s

\* A login that has no working refresh token any more - it was logged out, or
\* swept by a logout from all devices - never gets one again, also when a refresh
\* of it was in progress (auth.go:190-195 against 255-257 and 268-270).
DeadSessionStaysDead ==
    [][\A s \in Token : Inserted(s) /\ ~SessionLive(s) => ~SessionLive(s)']_vars

\* When a logout from all devices has run, a login it saw is over, except one
\* whose row was replaced by a refresh after the UPDATE took its snapshot
\* (auth.go:268-270): the successor is not among the rows it writes.
LogoutAllMissesOnlyRotated ==
    [][\A w \in Worker : req[w].stage = "sweep" /\ SweepRows(w) =>
          \A t \in req[w].seen :
             /\ revoked'[t]
             /\ SessionLive(session[t])' => replacedBy[t] # NoToken]_vars

\* After a ban, only requests that had passed the ban check before it can still
\* create a refresh token: at most one each, and none of the tokens they create
\* can be refreshed (auth.go:108, 183 against 119, 190).
BanBoundsIssue ==
    \A u \in User : BanInForce(u) => issued[u] <= Cardinality(Worker)

\* A banned user's access tokens run out AccessTTL after the last request that
\* had read the user before the ban has ended; RequireAuth looks at no table
\* (auth.go:230, 278; middleware/auth.go:24; README.md:71).
BanBoundsAccess ==
    \A u \in User, r \in Role :
       BanInForce(u) => access[u][r] <= bannedAt[u] + Latency + AccessTTL

\* A role that was taken away lives on in access tokens for at most AccessTTL
\* after the last request that had read it has ended (auth.go:230 signs with
\* the role read at line 180, not with the role at the commit).
StaleRoleBound ==
    \A u \in User, r \in Role :
       \/ access[u][r] = 0
       \/ role[u] = r
       \/ leftRole[u][r] # NoTime /\ access[u][r] <= leftRole[u][r] + Latency + AccessTTL

\* A ban in force is lifted by the expiry of an earlier one only in a race: it was
\* set after the request that lifts it had started (auth.go:373-380 writes by id
\* what it decided on the row read before, at line 97 or 180).
BanLiftedOnlyByRace ==
    [][\A w \in Worker : LET u == req[w].user IN
          req[w].stage = "unban" /\ req'[w] # req[w] /\ BanInForce(u) /\ ~banned'[u]
             => bannedAt[u] >= req[w].since]_vars

-----------------------------------------------------------------------------
(***************************************************************************)
(* The refinement of Logins: the rows of a login are its tokens, the live  *)
(* one is its holder.                                                      *)
(***************************************************************************)
FirstRow(s) == Inserted(s) /\ session[s] = s

HolderOf(s) ==
    IF ~FirstRow(s) THEN "unmade"
    ELSE IF SessionLive(s) THEN CHOOSE t \in Token : Live(t) /\ session[t] = s
    ELSE "over"

L == INSTANCE Logins WITH
        Unmade <- "unmade", Over <- "over",
        account <- [s \in Token |-> IF FirstRow(s) THEN owner[s] ELSE NoUser],
        holder <- [s \in Token |-> HolderOf(s)],
        handed <- {t \in Token : Inserted(t)}

\* Tables, statements and locks together keep the promise of Logins: every step
\* opens a login, passes one on to a new token, ends logins of one user, or is none
\* of the client's business (auth.go:119, 190-226, 255-257, 268-270).
ImplementsLogins == L!Spec

-----------------------------------------------------------------------------
(***************************************************************************)
(* The inductive invariants behind the properties (Sessions_proofs).       *)
(***************************************************************************)

\* A free row is blank and a login's first row is in the table.
RowsLinked ==
    \A t \in Token :
       /\ ~Inserted(t) => replacedBy[t] = NoToken
       /\ Inserted(t) => Inserted(session[t]) /\ session[session[t]] = session[t]
       /\ replacedBy[t] # NoToken => Inserted(t)

\* The row lock of Refresh: whoever is in the transaction holds a live row, alone.
LocksExclusive ==
    /\ \A w \in Worker : req[w].stage = "tx" => Live(req[w].tok)
    /\ \A v, w \in Worker :
          req[v].stage = "tx" /\ req[w].stage = "tx" /\ req[v].tok = req[w].tok => v = w

\* A row revoked without a successor was the last of its login.
EndedIsDead ==
    \A t \in Token : Inserted(t) /\ revoked[t] /\ replacedBy[t] = NoToken
                        => ~SessionLive(session[t])

\* What a sweep has selected are rows of the table.
SeenInserted == \A w \in Worker : \A t \in req[w].seen : Inserted(t)

SessionInv ==
    /\ TypeOK
    /\ RowsLinked
    /\ LocksExclusive
    /\ OneLivePerSession
    /\ EndedIsDead
    /\ SeenInserted

\* A row enters the table unrevoked, a login has one owner, and a sweep has
\* selected rows of its own user.
FreshRows == \A t \in Token : ~Inserted(t) => ~revoked[t]
LoginsOwned == \A t \in Token : Inserted(t) => owner[session[t]] = owner[t]
SweepsOwned ==
    \A w \in Worker : req[w].stage = "sweep" => \A t \in req[w].seen : owner[t] = req[w].user

LoginsInv == SessionInv /\ FreshRows /\ LoginsOwned /\ SweepsOwned

\* Expiries count from the past: a row's from its insertion, and a refresh
\* started after the row it replaces was inserted.
Refreshing == {"user", "unban", "lock", "tx"}

ExpiriesFollow ==
    /\ \A t \in Token : Inserted(t) => expires[t] <= now + RefreshTTL
    /\ \A w \in Worker :
          /\ req[w].since <= now
          /\ req[w].stage \in Refreshing /\ req[w].tok # NoToken
                => expires[req[w].tok] <= req[w].since + RefreshTTL

ChainInv == SessionInv /\ ExpiriesFollow /\ RotationChain

\* Past the ban check and still to create a row.
Passed(u) == {w \in Worker : req[w].user = u /\ req[w].stage \in {"issue", "unban", "lock", "tx"}}

IssueInv ==
    /\ TypeOK
    /\ \A u \in User : banned[u] => Registered(u)
    /\ \A u \in User : BanInForce(u) => issued[u] + Cardinality(Passed(u)) <= Cardinality(Worker)

\* A request that still has to sign an access token with a role it read started
\* before the user's ban, and no later than the user lost that role.
Signing == {"issue", "unban", "lock", "tx", "reply"}

PendingOK(q) ==
    q.stage # "idle" =>
       /\ q.since <= now
       /\ now <= q.since + Latency
       /\ q.stage \in Signing =>
             /\ BanInForce(q.user) => q.since <= bannedAt[q.user]
             /\ \/ role[q.user] = q.role
                \/ /\ leftRole[q.user][q.role] # NoTime
                   /\ q.since <= leftRole[q.user][q.role]

\* The times recorded lie in the past, and no access token outlives AccessTTL.
PastTimes ==
    /\ \A u \in User : bannedAt[u] <= now
    /\ \A u \in User, r \in Role : leftRole[u][r] <= now
    /\ \A u \in User, r \in Role : access[u][r] <= now + AccessTTL
    /\ \A u \in User : banned[u] => Registered(u)

SignInv ==
    /\ TypeOK
    /\ \A w \in Worker : PendingOK(req[w])
    /\ PastTimes
    /\ BanBoundsAccess
    /\ StaleRoleBound
=============================================================================
