------------------------------ MODULE PermCache ------------------------------
(***************************************************************************)
(* Permissions of the admin panel: RequirePermission                       *)
(* (internal/middleware/admin.go) with its Redis cache, and                *)
(* AdminUpdatePermission (internal/handlers/admin.go).                     *)
(*                                                                         *)
(* The rows of role_permissions and the Redis hash perms:<role> of one     *)
(* role other than owner; what is done for one role touches nothing of     *)
(* another.  Each SQL statement and each Redis command is an action: the   *)
(* commands of a pipeline are run one by one, other clients' commands run  *)
(* between them, and go-redis sends a pipeline again whose answers it has  *)
(* not got.                                                                *)
(***************************************************************************)
EXTENDS Integers

CONSTANTS
    Perm,        \* permissions that routes ask for
    Wild,        \* the permission "*"
    Worker,      \* requests that can be in progress at once
    TTL,         \* lifetime of the hash, 5 minutes in the code
    Latency,     \* bound: the longest time a request stays in progress
    MaxTime,     \* bound: the clock stops here
    Failing,     \* bound: whether requests, statements and commands can fail
    NoPerm

ASSUME PermCacheAssumption ==
    /\ Wild \notin Perm
    /\ NoPerm \notin Perm \cup {Wild}
    /\ TTL \in Nat \ {0} /\ Latency \in Nat /\ MaxTime \in Nat
    /\ Failing \in BOOLEAN

VARIABLES
    now,         \* the clock
    db,          \* role_permissions: the role's permissions
    cache,       \* perms:<role>: the fields of the hash, all "1"
    expireAt,    \* perms:<role>: when Redis removes the hash
    req,         \* what each worker is doing
    reply,       \* history: the last answer to a check
    late,        \* history: revoked, and cached or to be cached although the DEL ran
    cut,         \* history: a pipeline ended between an HSET and the EXPIRE
    leftAt       \* history: when a permission that is not granted was revoked

redis  == <<cache, expireAt>>
ghosts == <<reply, late, cut, leftAt>>
vars   == <<now, db, redis, req, ghosts>>

Row    == Perm \cup {Wild}
Time   == 0 .. MaxTime
NoTime == -1

(***************************************************************************)
(* A request in progress.  stage says what comes next:                     *)
(*   load    read the role's rows (RequirePermission, after a miss)        *)
(*   fill    the pipeline's HSETs, then its EXPIRE (RequirePermission)     *)
(*   decide  decide by the rows that were read (RequirePermission)         *)
(*   count   the direct check in the database (RequirePermission)          *)
(*   create  insert the row that was not found (AdminUpdatePermission)     *)
(*   bust    DEL of the hash (AdminUpdatePermission)                       *)
(***************************************************************************)
Stage == {"idle", "load", "fill", "decide", "count", "create", "bust"}

Request == [stage : Stage, perm : Row \cup {NoPerm}, rows : SUBSET Row,
            todo : SUBSET Row, since : Time]

Idle == [stage |-> "idle", perm |-> NoPerm, rows |-> {}, todo |-> {}, since |-> 0]

Goto(w, s) == req' = [req EXCEPT ![w].stage = s]
Finish(w)  == req' = [req EXCEPT ![w] = Idle]
Start(w, s, p) ==
    req' = [req EXCEPT ![w] = [Idle EXCEPT !.stage = s, !.perm = p, !.since = now]]

Grants(rows, p) == p \in rows \/ Wild \in rows

\* The check of p is answered: the next handler, or 403.  failed is history: the
\* answer is that of a direct check that could not count.
Answer(p, a) == reply' = [perm |-> p, allowed |-> a, failed |-> FALSE]

\* Loaders that have read p and may still cache it, for the first time or again.
Loading(p) == \E v \in Worker : req[v].stage = "fill" /\ p \in req[v].rows

\* Redis removes the hash; what loaders hold can come back.
Removed == cache' = {} /\ expireAt' = NoTime /\ late' = {p \in late : Loading(p)}

Init ==
    /\ now = 0
    /\ db \in SUBSET Row
    /\ cache = {} /\ expireAt = NoTime
    /\ req = [w \in Worker |-> Idle]
    /\ reply = [perm |-> NoPerm, allowed |-> FALSE, failed |-> FALSE]
    /\ late = {} /\ cut = FALSE
    /\ leftAt = [p \in Row |-> NoTime]

-----------------------------------------------------------------------------
(***************************************************************************)
(* RequirePermission.                                                      *)
(***************************************************************************)

\* HGET finds the field and the request is let through.  Misses, and answers other
\* than a miss (Redis is down, or too slow), go on.
RequirePermission(w, p) ==
    /\ req[w].stage = "idle"
    /\ \/ p \in cache /\ Answer(p, TRUE) /\ UNCHANGED req
       \/ p \notin cache /\ Start(w, "load", p) /\ UNCHANGED reply
       \/ Failing /\ Start(w, "count", p) /\ UNCHANGED reply
    /\ UNCHANGED <<now, db, redis, late, cut, leftAt>>

\* Mutant: the permission asked for is cached with the rows.
LoadRows_Asked(w) ==
    /\ req[w].stage = "load"
    /\ req' = [req EXCEPT ![w] = [@ EXCEPT !.stage = "fill", !.rows = db,
                                           !.todo = db \cup {req[w].perm}]]
    /\ UNCHANGED <<now, db, redis, ghosts>>

LoadRows(w) ==
    /\ req[w].stage = "load"
    /\ req' = [req EXCEPT ![w] = [@ EXCEPT !.stage = "fill", !.rows = db, !.todo = db]]
    /\ UNCHANGED <<now, db, redis, ghosts>>

\* The rows cannot be read: on to the direct check.
LoadFails(w) ==
    /\ Failing
    /\ req[w].stage = "load"
    /\ Goto(w, "count")
    /\ UNCHANGED <<now, db, redis, ghosts>>

\* The connection breaks and the pipeline is sent again, from its first command.
Resend(w) == Failing /\ req' = [req EXCEPT ![w].todo = req[w].rows]

\* A first HSET creates the hash, without expiry; later ones keep the expiry.
FillField(w) ==
    /\ req[w].stage = "fill"
    /\ \E p \in req[w].todo :
          /\ cache' = cache \cup {p}
          /\ req' = [req EXCEPT ![w].todo = @ \ {p}]
    /\ UNCHANGED <<now, db, expireAt, ghosts>>

\* Mutant: the pipeline sets no expiry.
FillExpire_Skipped(w) ==
    /\ req[w].stage = "fill"
    /\ req[w].todo = {}
    /\ Goto(w, "decide")
    /\ UNCHANGED <<now, db, redis, ghosts>>

\* EXPIRE after the last HSET; it does nothing when there is no hash.
FillExpire(w) ==
    /\ req[w].stage = "fill"
    /\ req[w].todo = {}
    /\ IF cache = {} THEN UNCHANGED <<expireAt, cut>>
                     ELSE expireAt' = now + TTL /\ cut' = FALSE
    /\ Goto(w, "decide") \/ Resend(w)
    /\ UNCHANGED <<now, db, cache, reply, late, leftAt>>

FillAgain(w) ==
    /\ req[w].stage = "fill"
    /\ Resend(w)
    /\ UNCHANGED <<now, db, redis, ghosts>>

\* The pipeline fails or its time is up, at any command; the error is ignored.
FillFails(w) ==
    /\ Failing
    /\ req[w].stage = "fill"
    /\ cut' = (cache # {} /\ expireAt = NoTime)
    /\ Goto(w, "decide")
    /\ UNCHANGED <<now, db, redis, reply, late, leftAt>>

Decided(w, a) ==
    /\ req[w].stage = "decide"
    /\ Answer(req[w].perm, a)
    /\ Finish(w)
    /\ UNCHANGED <<now, db, redis, late, cut, leftAt>>

Allow(w) == Grants(req[w].rows, req[w].perm) /\ Decided(w, TRUE)

\* Mutant: the wildcard is not looked for among the loaded rows.
Refuse_NoWildcard(w) == req[w].perm \notin req[w].rows /\ Decided(w, FALSE)

Refuse(w) == ~Grants(req[w].rows, req[w].perm) /\ Decided(w, FALSE)

\* The direct check.
Counted(w, a) ==
    /\ req[w].stage = "count"
    /\ Answer(req[w].perm, a)
    /\ Finish(w)
    /\ UNCHANGED <<now, db, redis, late, cut, leftAt>>

CountAllow(w)  == Grants(db, req[w].perm) /\ Counted(w, TRUE)
CountRefuse(w) == ~Grants(db, req[w].perm) /\ Counted(w, FALSE)

\* The COUNT fails, which nobody looks at: nothing is counted, and the answer is 403.
CountFails(w) ==
    /\ Failing
    /\ req[w].stage = "count"
    /\ reply' = [perm |-> req[w].perm, allowed |-> FALSE, failed |-> TRUE]
    /\ Finish(w)
    /\ UNCHANGED <<now, db, redis, late, cut, leftAt>>

-----------------------------------------------------------------------------
(***************************************************************************)
(* AdminUpdatePermission.                                                  *)
(***************************************************************************)

\* FirstOrCreate finds the row, or will insert it.
AdminGrant(w, p) ==
    /\ req[w].stage = "idle"
    /\ Start(w, IF p \in db THEN "bust" ELSE "create", p)
    /\ UNCHANGED <<now, db, redis, ghosts>>

\* A row inserted in the meantime makes the insert fail, and the request ends
\* before the DEL.
CreateRow(w) ==
    /\ req[w].stage = "create"
    /\ \/ req[w].perm \in db /\ Finish(w) /\ UNCHANGED db
       \/ req[w].perm \notin db /\ db' = db \cup {req[w].perm} /\ Goto(w, "bust")
    /\ late' = late \ {req[w].perm}
    /\ leftAt' = [leftAt EXCEPT ![req[w].perm] = NoTime]
    /\ UNCHANGED <<now, redis, reply, cut>>

AdminRevoke(w, p) ==
    /\ req[w].stage = "idle"
    /\ db' = db \ {p}
    /\ Start(w, "bust", p)
    /\ leftAt' = [leftAt EXCEPT ![p] = IF p \in db THEN now ELSE @]
    /\ late' = IF p \in db /\ Loading(p) THEN late \cup {p} ELSE late
    /\ UNCHANGED <<now, redis, reply, cut>>

\* Mutant: the hash is kept.
Bust_Skipped(w) ==
    /\ req[w].stage = "bust"
    /\ Finish(w)
    /\ UNCHANGED <<now, db, redis, ghosts>>

Bust(w) ==
    /\ req[w].stage = "bust"
    /\ Removed
    /\ cut' = FALSE
    /\ Finish(w)
    /\ UNCHANGED <<now, db, reply, leftAt>>

\* The process stops before the request is answered, a statement of an update fails
\* (500), or its DEL fails, whose error is ignored.
Abort(w) ==
    /\ Failing
    /\ req[w].stage # "idle"
    /\ late' = IF req[w].stage = "bust" THEN late \cup ({req[w].perm} \ db) ELSE late
    /\ cut' = (cut \/ (req[w].stage = "fill" /\ cache # {} /\ expireAt = NoTime))
    /\ Finish(w)
    /\ UNCHANGED <<now, db, redis, reply, leftAt>>

\* Redis removes the hash when its time is up.
Tick ==
    /\ now < MaxTime
    /\ \A w \in Worker : req[w].stage # "idle" => now < req[w].since + Latency
    /\ now' = now + 1
    /\ IF expireAt # NoTime /\ expireAt <= now'
         THEN Removed
         ELSE UNCHANGED <<redis, late>>
    /\ UNCHANGED <<db, req, reply, cut, leftAt>>

Next ==
    \/ \E w \in Worker :
          \/ \E p \in Perm : RequirePermission(w, p)
          \/ LoadRows(w) \/ LoadFails(w) \/ FillField(w) \/ FillExpire(w) \/ FillAgain(w)
          \/ FillFails(w)
          \/ Allow(w) \/ Refuse(w) \/ CountAllow(w) \/ CountRefuse(w)
          \/ CountFails(w)
          \/ \E p \in Row : AdminGrant(w, p) \/ AdminRevoke(w, p)
          \/ CreateRow(w) \/ Bust(w)
          \/ Abort(w)
    \/ Tick

Spec == Init /\ [][Next]_vars

-----------------------------------------------------------------------------
(***************************************************************************)
(* Properties.                                                             *)
(***************************************************************************)

\* The values the table, the hash and the requests can hold; what a loader is
\* still to write is among what it read (middleware/admin.go:56-66).
TypeOK ==
    /\ now \in Time
    /\ db \subseteq Row
    /\ cache \subseteq Row
    /\ expireAt \in Nat \cup {NoTime}
    /\ cache = {} => expireAt = NoTime
    /\ req \in [Worker -> Request]
    /\ \A w \in Worker : /\ req[w].todo \subseteq req[w].rows
                         /\ req[w].stage # "idle" => req[w].perm \in Row
    /\ reply \in [perm : Row \cup {NoPerm}, allowed : BOOLEAN, failed : BOOLEAN]
    /\ late \subseteq Row
    /\ cut \in BOOLEAN
    /\ leftAt \in [Row -> Time \cup {NoTime}]

\* A permission that the database does not grant is cached only while its DEL is
\* still to come, or after a revocation that ran beside a request which had
\* loaded the permission before, or whose DEL was lost (middleware/admin.go:57-64
\* against admin.go:960-970).
StaleOnlyByOverlap ==
    \A p \in cache \ db :
       p \in late \/ \E w \in Worker : req[w].stage = "bust" /\ req[w].perm = p

\* The hash has an expiry, except while a pipeline that writes it runs or after
\* one was cut short: then entries stay until the next miss or update
\* (middleware/admin.go:59-64).
ExpiryOnlyCutOff ==
    cache # {} /\ expireAt = NoTime =>
       cut \/ \E w \in Worker : req[w].stage = "fill"

\* "Results are cached in Redis for 5 minutes" (middleware/admin.go:31): TTL after
\* the last request that could have read it has ended, a revoked permission is no
\* longer cached, if the hash has an expiry at all.
FiveMinutes ==
    \A p \in cache :
       p \in db \/ expireAt = NoTime \/ now <= leftAt[p] + Latency + TTL

-----------------------------------------------------------------------------
(***************************************************************************)
(* The refinement of Checks: the rows that a request has read decide, and  *)
(* what was revoked lags until its DEL, or longer if it is in late.        *)
(***************************************************************************)
Checking(w) == req[w].stage \in {"load", "fill", "decide", "count"}
HasRows(w)  == req[w].stage \in {"fill", "decide"}
Busting     == {p \in Row : \E w \in Worker : req[w].stage = "bust" /\ req[w].perm = p}
Lag         == late \cup (Busting \ db)
Asked       == [w \in Worker |-> IF Checking(w) THEN req[w].perm ELSE NoPerm]
Seen        == [w \in Worker |-> IF HasRows(w) THEN {Grants(req[w].rows, req[w].perm)} ELSE {}]

C == INSTANCE Checks WITH table <- db, lag <- Lag, ask <- Asked, seen <- Seen

\* Rows, hash and direct check together keep the promise of Checks: nothing is refused
\* that was granted all through a request, unless its direct check could not count, and
\* nothing is allowed that was revoked before it, unless the hash still holds it as
\* StaleOnlyByOverlap says (middleware/admin.go:46-86 with admin.go:944-973).
ImplementsChecks == C!Spec

-----------------------------------------------------------------------------
(***************************************************************************)
(* The inductive invariants behind the properties (PermCache_proofs).      *)
(***************************************************************************)

\* What a loader writes, or writes again, is granted, or was revoked beside the loader.
StaleInv ==
    /\ TypeOK
    /\ StaleOnlyByOverlap
    /\ \A w \in Worker : req[w].stage = "fill" => req[w].rows \ db \subseteq late

ExpiryInv == TypeOK /\ ExpiryOnlyCutOff
=============================================================================
