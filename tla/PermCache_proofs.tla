--------------------------- MODULE PermCache_proofs ---------------------------
(***************************************************************************)
(* Proofs about PermCache, for every set of permissions and workers and    *)
(* every lifetime of the hash.                                             *)
(***************************************************************************)
EXTENDS PermCache, TLAPS

-----------------------------------------------------------------------------
(* What a step does to the requests.                                       *)

\* A request that starts is blank but for what it asks for; no other one moves.
LEMMA Starts ==
  ASSUME req \in [Worker -> Request], now \in Time,
         NEW w \in Worker, NEW s \in Stage, NEW p \in Row, Start(w, s, p)
  PROVE  /\ req' \in [Worker -> Request]
         /\ req'[w].stage = s /\ req'[w].perm = p
         /\ req'[w].todo = {} /\ req'[w].rows = {}
         /\ \A v \in Worker : v # w => req'[v] = req[v]
<1>1. PICK q : q = [Idle EXCEPT !.stage = s, !.perm = p, !.since = now]
  OBVIOUS
<1>2. q.stage = s /\ q.perm = p /\ q.todo = {} /\ q.rows = {} /\ q.since = now
  BY <1>1 DEF Idle
<1>3. q \in Request
  BY <1>1 DEF Idle, Request
<1>4. req' = [req EXCEPT ![w] = q]
  BY <1>1 DEF Start
<1> QED
  BY <1>2, <1>3, <1>4

\* A request that moves on changes its stage only.
LEMMA Goes ==
  ASSUME req \in [Worker -> Request], NEW w \in Worker, NEW s \in Stage, Goto(w, s)
  PROVE  /\ req' \in [Worker -> Request]
         /\ req'[w].stage = s /\ req'[w].perm = req[w].perm
         /\ req'[w].todo = req[w].todo /\ req'[w].rows = req[w].rows
         /\ \A v \in Worker : v # w => req'[v] = req[v]
<1>1. PICK q : q = [req[w] EXCEPT !.stage = s]
  OBVIOUS
<1>2. req[w] \in Request
  OBVIOUS
<1>3. /\ q.stage = s /\ q.perm = req[w].perm
      /\ q.todo = req[w].todo /\ q.rows = req[w].rows
  BY <1>1, <1>2 DEF Request
<1>4. q \in Request
  BY <1>1, <1>2 DEF Request
<1>5. req' = [req EXCEPT ![w] = q]
  BY <1>1 DEF Goto
<1> QED
  BY <1>3, <1>4, <1>5

\* A pipeline that is sent again has all its fields to write.
LEMMA Resends ==
  ASSUME TypeOK, NEW w \in Worker, req[w].stage = "fill", Resend(w)
  PROVE  /\ req' \in [Worker -> Request]
         /\ req'[w].stage = "fill" /\ req'[w].perm = req[w].perm
         /\ req'[w].todo = req[w].rows /\ req'[w].rows = req[w].rows
         /\ \A v \in Worker : v # w => req'[v] = req[v]
<1>1. PICK q : q = [req[w] EXCEPT !.todo = req[w].rows]
  OBVIOUS
<1>2. req \in [Worker -> Request] /\ req[w] \in Request
  BY DEF TypeOK
<1>3. /\ q.stage = "fill" /\ q.perm = req[w].perm
      /\ q.todo = req[w].rows /\ q.rows = req[w].rows
  BY <1>1, <1>2 DEF Request
<1>4. q \in Request
  BY <1>1, <1>2 DEF Request
<1>5. req' = [req EXCEPT ![w] = q]
  BY <1>1 DEF Resend
<1> QED
  BY <1>2, <1>3, <1>4, <1>5

\* A request that ends is idle again.
LEMMA Ends ==
  ASSUME req \in [Worker -> Request], NEW w \in Worker, Finish(w)
  PROVE  /\ req' \in [Worker -> Request]
         /\ req'[w].stage = "idle" /\ req'[w].todo = {} /\ req'[w].rows = {}
         /\ \A v \in Worker : v # w => req'[v] = req[v]
<1>1. Idle \in Request /\ Idle.stage = "idle" /\ Idle.todo = {} /\ Idle.rows = {}
  BY PermCacheAssumption DEF Idle, Request, Stage, Time
<1> QED
  BY <1>1 DEF Finish

\* The requests' part of the type invariant, after a step of one request.
LEMMA ReqKept ==
  ASSUME TypeOK, NEW w \in Worker, req' \in [Worker -> Request],
         \A v \in Worker : v # w => req'[v] = req[v],
         req'[w].todo \subseteq req'[w].rows,
         req'[w].stage # "idle" => req'[w].perm \in Row
  PROVE  \A v \in Worker : /\ req'[v].todo \subseteq req'[v].rows
                           /\ req'[v].stage # "idle" => req'[v].perm \in Row
  BY DEF TypeOK

\* The same, for a request that starts, moves on, sends its pipeline again or ends.
LEMMA ReqSteps ==
  ASSUME TypeOK, NEW w \in Worker,
         \/ Finish(w)
         \/ \E s \in Stage : Goto(w, s) /\ req[w].stage # "idle"
         \/ req[w].stage = "fill" /\ Resend(w)
         \/ \E s \in Stage, p \in Row : Start(w, s, p)
  PROVE  /\ req' \in [Worker -> Request]
         /\ \A v \in Worker : /\ req'[v].todo \subseteq req'[v].rows
                              /\ req'[v].stage # "idle" => req'[v].perm \in Row
<1>0. /\ req \in [Worker -> Request] /\ now \in Time
      /\ req[w].todo \subseteq req[w].rows
      /\ req[w].stage # "idle" => req[w].perm \in Row
  BY DEF TypeOK
<1>1. CASE Finish(w)
  BY <1>0, <1>1, Ends, ReqKept
<1>2. CASE \E s \in Stage : Goto(w, s) /\ req[w].stage # "idle"
  <2>1. PICK s \in Stage : Goto(w, s)
    BY <1>2
  <2> QED
    BY <1>0, <1>2, <2>1, Goes, ReqKept
<1>3. CASE \E s \in Stage, p \in Row : Start(w, s, p)
  <2>1. PICK s \in Stage, p \in Row : Start(w, s, p)
    BY <1>3
  <2> QED
    BY <1>0, <2>1, Starts, ReqKept
<1>4. CASE req[w].stage = "fill" /\ Resend(w)
  BY <1>0, <1>4, Resends, ReqKept
<1> QED
  BY <1>1, <1>2, <1>3, <1>4

-----------------------------------------------------------------------------
(* Type correctness.                                                       *)

\* The initial table, hash and requests have their types.
LEMMA TypeInit == Init => TypeOK
<1> SUFFICES ASSUME Init PROVE TypeOK
  OBVIOUS
<1>1. now \in Time /\ db \subseteq Row /\ cache = {} /\ expireAt = NoTime
  BY PermCacheAssumption DEF Init, Time
<1>2. Idle \in Request /\ Idle.todo = {} /\ Idle.rows = {} /\ Idle.stage = "idle"
  BY PermCacheAssumption DEF Idle, Request, Stage, Time
<1>3. /\ req \in [Worker -> Request]
      /\ \A w \in Worker : /\ req[w].todo \subseteq req[w].rows
                           /\ req[w].stage # "idle" => req[w].perm \in Row
  BY <1>2 DEF Init
<1>4. /\ reply \in [perm : Row \cup {NoPerm}, allowed : BOOLEAN, failed : BOOLEAN]
      /\ late \subseteq Row /\ cut \in BOOLEAN
      /\ leftAt \in [Row -> Time \cup {NoTime}]
  BY DEF Init
<1> QED
  BY <1>1, <1>3, <1>4 DEF TypeOK

\* Each statement and command keeps the types.
LEMMA TypeNext == TypeOK /\ [Next]_vars => TypeOK'
<1> SUFFICES ASSUME TypeOK, [Next]_vars PROVE TypeOK'
  OBVIOUS
<1>0. /\ now \in Nat /\ TTL \in Nat /\ Perm \subseteq Row
      /\ \A s \in {"idle", "load", "fill", "decide", "count", "create", "bust"} : s \in Stage
  BY PermCacheAssumption DEF TypeOK, Time, Row, Stage
<1>1. ASSUME NEW w \in Worker, NEW p \in Perm, RequirePermission(w, p) PROVE TypeOK'
  <2>1. CASE Answer(p, TRUE) /\ UNCHANGED req
    BY <1>0, <1>1, <2>1 DEF RequirePermission, Answer, redis, TypeOK
  <2>2. CASE reply' = reply /\ \E s \in Stage : Start(w, s, p)
    BY <1>0, <1>1, <2>2, ReqSteps DEF RequirePermission, redis, TypeOK
  <2> QED
    BY <1>0, <1>1, <2>1, <2>2 DEF RequirePermission
<1>2. ASSUME NEW w \in Worker, LoadRows(w) PROVE TypeOK'
  <2>1. PICK q : q = [req[w] EXCEPT !.stage = "fill", !.rows = db, !.todo = db]
    OBVIOUS
  <2>2. req[w] \in Request /\ req[w].stage # "idle" /\ req[w].perm \in Row /\ db \subseteq Row
    BY <1>2 DEF LoadRows, TypeOK
  <2>3. q \in Request /\ q.todo \subseteq q.rows /\ q.perm \in Row
    BY <2>1, <2>2 DEF Request, Stage
  <2>4. req' = [req EXCEPT ![w] = q]
    BY <1>2, <2>1 DEF LoadRows, TypeOK, Request
  <2>5. /\ req' \in [Worker -> Request] /\ req'[w] = q
        /\ \A v \in Worker : v # w => req'[v] = req[v]
    BY <2>3, <2>4 DEF TypeOK
  <2> QED
    BY <1>2, <2>3, <2>5, ReqKept DEF LoadRows, redis, ghosts, TypeOK
<1>3. ASSUME NEW w \in Worker, FillField(w) PROVE TypeOK'
  <2>1. PICK p \in req[w].todo :
           cache' = cache \cup {p} /\ req' = [req EXCEPT ![w].todo = @ \ {p}]
    BY <1>3 DEF FillField
  <2>2. PICK q : q = [req[w] EXCEPT !.todo = @ \ {p}]
    OBVIOUS
  <2>3. /\ req[w] \in Request /\ req[w].stage # "idle" /\ req[w].perm \in Row
        /\ req[w].todo \subseteq req[w].rows /\ req[w].todo \subseteq Row
    BY <1>3 DEF FillField, TypeOK, Request
  <2>4. q \in Request /\ q.todo \subseteq q.rows /\ q.perm \in Row
    BY <2>2, <2>3 DEF Request
  <2>5. req' = [req EXCEPT ![w] = q]
    BY <2>1, <2>2 DEF TypeOK, Request
  <2>6. cache' \subseteq Row /\ cache' # {}
    BY <2>1, <2>3 DEF TypeOK
  <2>7. /\ req' \in [Worker -> Request] /\ req'[w] = q
        /\ \A v \in Worker : v # w => req'[v] = req[v]
    BY <2>4, <2>5 DEF TypeOK
  <2> QED
    BY <1>3, <2>4, <2>6, <2>7, ReqKept DEF FillField, ghosts, TypeOK
<1>4. ASSUME NEW w \in Worker, FillExpire(w) PROVE TypeOK'
  <2>1. \/ \E s \in Stage : Goto(w, s) /\ req[w].stage # "idle"
        \/ req[w].stage = "fill" /\ Resend(w)
    BY <1>0, <1>4 DEF FillExpire
  <2>2. /\ expireAt' \in Nat \cup {NoTime} /\ cut' \in BOOLEAN
        /\ cache = {} => expireAt' = NoTime
    <3>1. CASE cache = {}
      BY <1>4, <3>1 DEF FillExpire, TypeOK
    <3>2. CASE cache # {}
      <4>1. expireAt' = now + TTL /\ cut' = FALSE
        BY <1>4, <3>2 DEF FillExpire
      <4>2. now + TTL \in Nat
        BY <1>0
      <4> QED
        BY <3>2, <4>1, <4>2
    <3> QED
      BY <3>1, <3>2
  <2> QED
    BY <1>4, <2>1, <2>2, ReqSteps DEF FillExpire, TypeOK
<1>5. ASSUME NEW w \in Worker, FillFails(w) \/ LoadFails(w) PROVE TypeOK'
  <2>1. \E s \in Stage : Goto(w, s) /\ req[w].stage # "idle"
    BY <1>0, <1>5 DEF FillFails, LoadFails
  <2> QED
    BY <1>5, <2>1, ReqSteps DEF FillFails, LoadFails, redis, ghosts, TypeOK
<1>6. ASSUME NEW w \in Worker, NEW a \in BOOLEAN, Decided(w, a) \/ Counted(w, a) PROVE TypeOK'
  <2>1. req[w].perm \in Row /\ reply' = [perm |-> req[w].perm, allowed |-> a, failed |-> FALSE]
    BY <1>6 DEF Decided, Counted, Answer, TypeOK
  <2> QED
    BY <1>6, <2>1, ReqSteps DEF Decided, Counted, redis, TypeOK
<1>14. ASSUME NEW w \in Worker, CountFails(w) PROVE TypeOK'
  <2>1. req[w].perm \in Row
    BY <1>14 DEF CountFails, TypeOK
  <2> QED
    BY <1>14, <2>1, ReqSteps DEF CountFails, redis, TypeOK
<1>15. ASSUME NEW w \in Worker, FillAgain(w) PROVE TypeOK'
  BY <1>15, ReqSteps DEF FillAgain, redis, ghosts, TypeOK
<1>7. ASSUME NEW w \in Worker, NEW p \in Row, AdminGrant(w, p) PROVE TypeOK'
  <2>1. \E s \in Stage : Start(w, s, p)
    BY <1>0, <1>7 DEF AdminGrant
  <2> QED
    BY <1>7, <2>1, ReqSteps DEF AdminGrant, redis, ghosts, TypeOK
<1>8. ASSUME NEW w \in Worker, CreateRow(w) PROVE TypeOK'
  <2>1. Finish(w) \/ \E s \in Stage : Goto(w, s) /\ req[w].stage # "idle"
    BY <1>0, <1>8 DEF CreateRow
  <2>2. db' \subseteq Row /\ late' \subseteq Row /\ leftAt' \in [Row -> Time \cup {NoTime}]
    BY <1>8 DEF CreateRow, TypeOK
  <2> QED
    BY <1>8, <2>1, <2>2, ReqSteps DEF CreateRow, redis, TypeOK
<1>9. ASSUME NEW w \in Worker, NEW p \in Row, AdminRevoke(w, p) PROVE TypeOK'
  <2>1. \E s \in Stage : Start(w, s, p)
    BY <1>0, <1>9 DEF AdminRevoke
  <2>2. /\ db' \subseteq Row /\ late' \subseteq Row
        /\ leftAt' \in [Row -> Time \cup {NoTime}]
    BY <1>9 DEF AdminRevoke, TypeOK
  <2> QED
    BY <1>9, <2>1, <2>2, ReqSteps DEF AdminRevoke, redis, TypeOK
<1>10. ASSUME NEW w \in Worker, Bust(w) PROVE TypeOK'
  BY <1>10, ReqSteps DEF Bust, Removed, TypeOK
<1>11. ASSUME NEW w \in Worker, Abort(w) PROVE TypeOK'
  <2>1. late' \subseteq Row /\ cut' \in BOOLEAN
    BY <1>11 DEF Abort, TypeOK
  <2> QED
    BY <1>11, <2>1, ReqSteps DEF Abort, redis, TypeOK
<1>12. CASE Tick
  <2>1. now' \in Time
    BY <1>12, PermCacheAssumption DEF Tick, TypeOK, Time
  <2> QED
    BY <1>12, <2>1 DEF Tick, Removed, redis, TypeOK
<1>13. CASE UNCHANGED vars
  BY <1>13 DEF vars, redis, ghosts, TypeOK
<1> QED
  BY <1>1, <1>2, <1>3, <1>4, <1>5, <1>6, <1>7, <1>8, <1>9, <1>10, <1>11, <1>12, <1>13, <1>14, <1>15
     DEF Next, Allow, Refuse, CountAllow, CountRefuse

\* Type correctness of the permission table, its cache and the requests.
THEOREM TypeCorrect == Spec => []TypeOK
  BY TypeInit, TypeNext, PTL DEF Spec

-----------------------------------------------------------------------------
(* A revoked permission in the cache.                                      *)

\* A step that caches nothing, revokes nothing and ends no update.
LEMMA StaleQuiet ==
  ASSUME StaleInv, TypeOK', NEW w \in Worker, cache' \subseteq cache, db \subseteq db',
         late \ db' \subseteq late', req[w].stage # "bust" \/ req[w].perm \in late' \cup db,
         \A v \in Worker : v # w => req'[v] = req[v],
         req'[w].stage = "fill" => req[w].stage = "fill" /\ req'[w].rows = req[w].rows
  PROVE  StaleInv'
<1>1. StaleOnlyByOverlap'
  <2> SUFFICES ASSUME NEW p \in cache', p \notin db'
               PROVE  p \in late' \/ \E v \in Worker : req'[v].stage = "bust" /\ req'[v].perm = p
    BY DEF StaleOnlyByOverlap
  <2> QED
    BY DEF StaleInv, StaleOnlyByOverlap
<1>2. \A v \in Worker : req'[v].stage = "fill" => req'[v].rows \ db' \subseteq late'
  BY DEF StaleInv
<1> QED
  BY <1>1, <1>2 DEF StaleInv

\* A stale entry comes from an update that is to bust the hash, or one in late.
LEMMA StaleNext == StaleInv /\ [Next]_vars => StaleInv'
<1> SUFFICES ASSUME StaleInv, [Next]_vars PROVE StaleInv'
  OBVIOUS
<1>0. TypeOK /\ TypeOK' /\ req \in [Worker -> Request] /\ now \in Time
  BY TypeNext DEF StaleInv, TypeOK
<1>1. ASSUME NEW w \in Worker, NEW p \in Perm, RequirePermission(w, p) PROVE StaleInv'
  <2>1. /\ \A v \in Worker : v # w => req'[v] = req[v]
        /\ req'[w].stage # "fill" /\ req[w].stage = "idle"
    <3>1. CASE UNCHANGED req
      BY <1>1, <3>1 DEF RequirePermission
    <3>2. CASE \E s \in {"load", "count"} : Start(w, s, p)
      BY <1>0, <1>1, <3>2, Starts DEF RequirePermission, Stage, Row
    <3> QED
      BY <1>1, <3>1, <3>2 DEF RequirePermission
  <2> QED
    BY <1>0, <1>1, <2>1, StaleQuiet DEF RequirePermission, redis
<1>2. ASSUME NEW w \in Worker, LoadRows(w) PROVE StaleInv'
  <2>1. /\ UNCHANGED <<db, cache, late>> /\ req[w].stage = "load"
        /\ \A v \in Worker : v # w => req'[v] = req[v]
        /\ req'[w].rows = db /\ req'[w].stage = "fill"
    BY <1>0, <1>2 DEF LoadRows, redis, ghosts, Request
  <2>2. StaleOnlyByOverlap'
    BY <2>1 DEF StaleInv, StaleOnlyByOverlap
  <2> QED
    BY <1>0, <2>1, <2>2 DEF StaleInv
<1>3. ASSUME NEW w \in Worker, FillField(w) PROVE StaleInv'
  <2>1. PICK p \in req[w].todo :
           cache' = cache \cup {p} /\ req' = [req EXCEPT ![w].todo = @ \ {p}]
    BY <1>3 DEF FillField
  <2>2. /\ UNCHANGED <<db, late>> /\ req[w].stage = "fill"
        /\ \A v \in Worker : /\ req'[v].stage = req[v].stage /\ req'[v].perm = req[v].perm
                             /\ req'[v].rows = req[v].rows
    BY <1>0, <1>3, <2>1 DEF FillField, ghosts, Request
  <2>3. p \in db \/ p \in late
    BY <1>0, <2>1, <2>2 DEF StaleInv, TypeOK
  <2>4. StaleOnlyByOverlap'
    BY <2>1, <2>2, <2>3 DEF StaleInv, StaleOnlyByOverlap
  <2>5. \A v \in Worker : req'[v].stage = "fill" => req'[v].rows \ db' \subseteq late'
    BY <2>2 DEF StaleInv
  <2> QED
    BY <1>0, <2>4, <2>5 DEF StaleInv
<1>4. ASSUME NEW w \in Worker, FillExpire(w) \/ FillFails(w) PROVE StaleInv'
  <2>1. /\ UNCHANGED <<db, cache, late>> /\ req[w].stage = "fill"
        /\ Goto(w, "decide") \/ Resend(w)
    BY <1>4 DEF FillExpire, FillFails, redis
  <2>2. /\ \A v \in Worker : v # w => req'[v] = req[v]
        /\ req'[w].stage = "decide" \/ req'[w].rows = req[w].rows
    BY <1>0, <2>1, Resends DEF Goto, Request
  <2> QED
    BY <1>0, <2>1, <2>2, StaleQuiet
<1>12. ASSUME NEW w \in Worker, LoadFails(w) PROVE StaleInv'
  <2>1. UNCHANGED <<db, cache, late>> /\ req[w].stage = "load" /\ Goto(w, "count")
    BY <1>12 DEF LoadFails, redis, ghosts
  <2>2. /\ \A v \in Worker : v # w => req'[v] = req[v]
        /\ req'[w].stage = "count"
    BY <1>0, <2>1 DEF Goto, Request
  <2> QED
    BY <1>0, <2>1, <2>2, StaleQuiet
<1>5. ASSUME NEW w \in Worker, NEW a \in BOOLEAN, Decided(w, a) \/ Counted(w, a) PROVE StaleInv'
  <2>1. UNCHANGED <<db, cache, late>> /\ req[w].stage # "bust" /\ Finish(w)
    BY <1>5 DEF Decided, Counted, redis
  <2> QED
    BY <1>0, <2>1, Ends, StaleQuiet
<1>14. ASSUME NEW w \in Worker, CountFails(w) PROVE StaleInv'
  <2>1. UNCHANGED <<db, cache, late>> /\ req[w].stage # "bust" /\ Finish(w)
    BY <1>14 DEF CountFails, redis
  <2> QED
    BY <1>0, <2>1, Ends, StaleQuiet
<1>15. ASSUME NEW w \in Worker, FillAgain(w) PROVE StaleInv'
  <2>1. /\ UNCHANGED <<db, cache, late>> /\ req[w].stage = "fill"
        /\ \A v \in Worker : v # w => req'[v] = req[v]
        /\ req'[w].stage = "fill" /\ req'[w].rows = req[w].rows
    BY <1>0, <1>15, Resends DEF FillAgain, redis, ghosts
  <2> QED
    BY <1>0, <2>1, StaleQuiet
<1>6. ASSUME NEW w \in Worker, NEW p \in Row, AdminGrant(w, p) PROVE StaleInv'
  <2>1. PICK s \in {"bust", "create"} : Start(w, s, p)
    BY <1>6 DEF AdminGrant
  <2>2. /\ \A v \in Worker : v # w => req'[v] = req[v]
        /\ req'[w].stage # "fill" /\ req[w].stage = "idle"
    BY <1>0, <1>6, <2>1, Starts DEF AdminGrant, Stage
  <2>3. UNCHANGED <<db, cache, late>>
    BY <1>6 DEF AdminGrant, redis, ghosts
  <2> QED
    BY <1>0, <2>2, <2>3, StaleQuiet
<1>7. ASSUME NEW w \in Worker, CreateRow(w) PROVE StaleInv'
  <2>1. req[w].stage = "create" /\ (Finish(w) \/ Goto(w, "bust")) /\ "bust" \in Stage
    BY <1>7 DEF CreateRow, Stage
  <2>2. /\ \A v \in Worker : v # w => req'[v] = req[v]
        /\ req'[w].stage # "fill"
    BY <1>0, <2>1, Ends, Goes
  <2>3. UNCHANGED cache /\ db \subseteq db' /\ late \ db' \subseteq late'
    BY <1>7 DEF CreateRow, redis
  <2> QED
    BY <1>0, <2>1, <2>2, <2>3, StaleQuiet
<1>8. ASSUME NEW w \in Worker, NEW p \in Row, AdminRevoke(w, p) PROVE StaleInv'
  <2>1. /\ \A v \in Worker : v # w => req'[v] = req[v]
        /\ req'[w].stage = "bust" /\ req'[w].perm = p
        /\ req[w].stage = "idle"
    BY <1>0, <1>8, Starts DEF AdminRevoke, Stage
  <2>2. /\ cache' = cache /\ db' = db \ {p} /\ late \subseteq late'
        /\ p \in db /\ Loading(p) => p \in late'
    BY <1>8 DEF AdminRevoke, redis
  <2>3. StaleOnlyByOverlap'
    <3> SUFFICES ASSUME NEW x \in cache, x \notin db \ {p}
                 PROVE  x \in late' \/ \E v \in Worker : req'[v].stage = "bust" /\ req'[v].perm = x
      BY <2>2 DEF StaleOnlyByOverlap
    <3>1. CASE x = p
      BY <2>1, <3>1
    <3>2. CASE x # p
      BY <2>1, <2>2, <3>2 DEF StaleInv, StaleOnlyByOverlap
    <3> QED
      BY <3>1, <3>2
  <2>4. ASSUME NEW v \in Worker, req'[v].stage = "fill", NEW x \in req'[v].rows, x \notin db'
        PROVE  x \in late'
    <3>1. v # w /\ req'[v] = req[v]
      BY <2>1, <2>4
    <3>2. CASE x = p /\ p \in db
      BY <2>2, <2>4, <3>1, <3>2 DEF Loading
    <3>3. CASE ~(x = p /\ p \in db)
      BY <2>2, <2>4, <3>1, <3>3 DEF StaleInv
    <3> QED
      BY <3>2, <3>3
  <2> QED
    BY <1>0, <2>3, <2>4 DEF StaleInv
<1>9. ASSUME Removed, db' = db, \A v \in Worker : req'[v].stage = "fill" => req'[v] = req[v]
      PROVE StaleInv'
  <2>1. \A v \in Worker : req'[v].stage = "fill" => req'[v].rows \ db' \subseteq late'
    BY <1>0, <1>9 DEF StaleInv, Removed, Loading, TypeOK, Request
  <2> QED
    BY <1>0, <1>9, <2>1 DEF Removed, StaleInv, StaleOnlyByOverlap
<1>13. ASSUME NEW w \in Worker, Bust(w) PROVE StaleInv'
  BY <1>0, <1>9, <1>13, Ends DEF Bust
<1>10. ASSUME NEW w \in Worker, Abort(w) PROVE StaleInv'
  <2>1. /\ UNCHANGED <<db, cache>> /\ Finish(w) /\ late \subseteq late'
        /\ req[w].stage = "bust" => req[w].perm \in late' \cup db
    BY <1>10 DEF Abort, redis
  <2> QED
    BY <1>0, <2>1, Ends, StaleQuiet
<1>11. CASE Tick \/ UNCHANGED vars
  <2>1. UNCHANGED <<db, req>> /\ (Removed \/ UNCHANGED <<cache, late>>)
    BY <1>11 DEF Tick, vars, redis, ghosts
  <2>2. CASE UNCHANGED <<cache, late>>
    <3>1. StaleOnlyByOverlap'
      BY <2>1, <2>2 DEF StaleInv, StaleOnlyByOverlap
    <3> QED
      BY <1>0, <2>1, <2>2, <3>1 DEF StaleInv
  <2> QED
    BY <1>9, <2>1, <2>2
<1> QED
  BY <1>1, <1>2, <1>3, <1>4, <1>5, <1>6, <1>7, <1>8, <1>9, <1>10, <1>11, <1>12, <1>13, <1>14, <1>15
     DEF Next, Allow, Refuse, CountAllow, CountRefuse

\* A revoked permission is cached only before its DEL, or when the revocation ran
\* beside a loader or its DEL was lost (middleware/admin.go:57-64, admin.go:960-970).
THEOREM StaleOverlap == Spec => []StaleOnlyByOverlap
<1>1. Init => StaleInv
  BY TypeInit DEF Init, StaleInv, StaleOnlyByOverlap, Idle
<1>2. StaleInv => StaleOnlyByOverlap
  BY DEF StaleInv
<1> QED
  BY <1>1, <1>2, StaleNext, PTL DEF Spec

-----------------------------------------------------------------------------
(* The hash without an expiry.                                             *)

\* A step that leaves the hash alone and ends no pipeline.
LEMMA ExpiryQuiet ==
  ASSUME ExpiryOnlyCutOff, NEW w \in Worker, cache' = cache, expireAt' = expireAt,
         cut => cut', \A v \in Worker : v # w => req'[v] = req[v],
         req[w].stage = "fill" => req'[w].stage = "fill" \/ cache = {} \/ expireAt # NoTime \/ cut'
  PROVE  ExpiryOnlyCutOff'
<1> SUFFICES ASSUME cache # {}, expireAt = NoTime, ~cut'
             PROVE  \E v \in Worker : req'[v].stage = "fill"
  BY DEF ExpiryOnlyCutOff
<1>1. PICK v \in Worker : req[v].stage = "fill"
  BY DEF ExpiryOnlyCutOff
<1>2. req'[v].stage = "fill"
  BY <1>1
<1> QED
  BY <1>2

\* Each step keeps the invariant of the expiry.
LEMMA ExpiryNext == ExpiryInv /\ [Next]_vars => ExpiryInv'
<1> SUFFICES ASSUME ExpiryInv, [Next]_vars PROVE ExpiryOnlyCutOff'
  BY TypeNext DEF ExpiryInv
<1>0. /\ TypeOK /\ ExpiryOnlyCutOff /\ req \in [Worker -> Request] /\ now \in Time
      /\ now + TTL # NoTime
  BY PermCacheAssumption DEF ExpiryInv, TypeOK, Time, NoTime
<1>1. ASSUME NEW w \in Worker, NEW p \in Perm, RequirePermission(w, p) PROVE ExpiryOnlyCutOff'
  <2>1. req[w].stage = "idle" /\ \A v \in Worker : v # w => req'[v] = req[v]
    <3>1. CASE UNCHANGED req
      BY <1>1, <3>1 DEF RequirePermission
    <3>2. CASE \E s \in {"load", "count"} : Start(w, s, p)
      BY <1>0, <1>1, <3>2, Starts DEF RequirePermission, Stage, Row
    <3> QED
      BY <1>1, <3>1, <3>2 DEF RequirePermission
  <2> QED
    BY <1>0, <1>1, <2>1, ExpiryQuiet DEF RequirePermission, redis
<1>2. ASSUME NEW w \in Worker, LoadRows(w) \/ LoadFails(w) PROVE ExpiryOnlyCutOff'
  <2>1. /\ cache' = cache /\ expireAt' = expireAt /\ cut' = cut /\ req[w].stage = "load"
        /\ \A v \in Worker : v # w => req'[v] = req[v]
    BY <1>0, <1>2 DEF LoadRows, LoadFails, Goto, redis, ghosts
  <2> QED
    BY <1>0, <2>1, ExpiryQuiet
<1>3. ASSUME NEW w \in Worker, FillField(w) PROVE ExpiryOnlyCutOff'
  <2>1. req'[w].stage = "fill"
    BY <1>0, <1>3 DEF FillField, Request
  <2> QED
    BY <2>1 DEF ExpiryOnlyCutOff
<1>4. ASSUME NEW w \in Worker, FillExpire(w) PROVE ExpiryOnlyCutOff'
  BY <1>0, <1>4 DEF FillExpire, ExpiryOnlyCutOff
<1>5. ASSUME NEW w \in Worker, FillFails(w) PROVE ExpiryOnlyCutOff'
  BY <1>5 DEF FillFails, redis, ExpiryOnlyCutOff
<1>6. ASSUME NEW w \in Worker, NEW a \in BOOLEAN, Decided(w, a) \/ Counted(w, a) PROVE ExpiryOnlyCutOff'
  <2>1. /\ cache' = cache /\ expireAt' = expireAt /\ cut' = cut
        /\ req[w].stage # "fill" /\ Finish(w)
    BY <1>6 DEF Decided, Counted, redis
  <2> QED
    BY <1>0, <2>1, Ends, ExpiryQuiet
<1>13. ASSUME NEW w \in Worker, CountFails(w) PROVE ExpiryOnlyCutOff'
  <2>1. /\ cache' = cache /\ expireAt' = expireAt /\ cut' = cut
        /\ req[w].stage # "fill" /\ Finish(w)
    BY <1>13 DEF CountFails, redis
  <2> QED
    BY <1>0, <2>1, Ends, ExpiryQuiet
<1>14. ASSUME NEW w \in Worker, FillAgain(w) PROVE ExpiryOnlyCutOff'
  <2>1. /\ cache' = cache /\ expireAt' = expireAt /\ cut' = cut /\ req'[w].stage = "fill"
        /\ \A v \in Worker : v # w => req'[v] = req[v]
    BY <1>0, <1>14, Resends DEF FillAgain, redis, ghosts
  <2> QED
    BY <1>0, <2>1, ExpiryQuiet
<1>7. ASSUME NEW w \in Worker, NEW p \in Row, AdminGrant(w, p) PROVE ExpiryOnlyCutOff'
  <2>1. PICK s \in {"bust", "create"} : Start(w, s, p)
    BY <1>7 DEF AdminGrant
  <2>2. req[w].stage = "idle" /\ \A v \in Worker : v # w => req'[v] = req[v]
    BY <1>0, <1>7, <2>1, Starts DEF AdminGrant, Stage
  <2>3. cache' = cache /\ expireAt' = expireAt /\ cut' = cut
    BY <1>7 DEF AdminGrant, redis, ghosts
  <2> QED
    BY <1>0, <2>2, <2>3, ExpiryQuiet
<1>8. ASSUME NEW w \in Worker, CreateRow(w) PROVE ExpiryOnlyCutOff'
  <2>1. req[w].stage = "create" /\ (Finish(w) \/ Goto(w, "bust")) /\ "bust" \in Stage
    BY <1>8 DEF CreateRow, Stage
  <2>2. \A v \in Worker : v # w => req'[v] = req[v]
    BY <1>0, <2>1, Ends, Goes
  <2>3. cache' = cache /\ expireAt' = expireAt /\ cut' = cut
    BY <1>8 DEF CreateRow, redis
  <2> QED
    BY <1>0, <2>1, <2>2, <2>3, ExpiryQuiet
<1>9. ASSUME NEW w \in Worker, NEW p \in Row, AdminRevoke(w, p) PROVE ExpiryOnlyCutOff'
  <2>1. req[w].stage = "idle" /\ \A v \in Worker : v # w => req'[v] = req[v]
    BY <1>0, <1>9, Starts DEF AdminRevoke, Stage
  <2> QED
    BY <1>0, <1>9, <2>1, ExpiryQuiet DEF AdminRevoke, redis
<1>10. ASSUME NEW w \in Worker, Bust(w) PROVE ExpiryOnlyCutOff'
  BY <1>10 DEF Bust, Removed, ExpiryOnlyCutOff
<1>11. ASSUME NEW w \in Worker, Abort(w) PROVE ExpiryOnlyCutOff'
  <2>1. \A v \in Worker : v # w => req'[v] = req[v]
    BY <1>0, <1>11, Ends DEF Abort
  <2>2. /\ cache' = cache /\ expireAt' = expireAt /\ (cut => cut')
        /\ req[w].stage = "fill" => cache = {} \/ expireAt # NoTime \/ cut'
    BY <1>11 DEF Abort, redis
  <2> QED
    BY <1>0, <2>1, <2>2, ExpiryQuiet
<1>12. CASE Tick \/ UNCHANGED vars
  BY <1>0, <1>12 DEF Tick, Removed, vars, redis, ghosts, ExpiryOnlyCutOff
<1> QED
  BY <1>1, <1>2, <1>3, <1>4, <1>5, <1>6, <1>7, <1>8, <1>9, <1>10, <1>11, <1>12, <1>13, <1>14
     DEF Next, Allow, Refuse, CountAllow, CountRefuse

\* The hash never stays without an expiry, but after a pipeline that was cut short
\* (middleware/admin.go:59-64).
THEOREM ExpiryIsSet == Spec => []ExpiryOnlyCutOff
<1>1. Init => ExpiryInv
  BY TypeInit DEF Init, ExpiryInv, ExpiryOnlyCutOff
<1>2. ExpiryInv => ExpiryOnlyCutOff
  BY DEF ExpiryInv
<1> QED
  BY <1>1, <1>2, ExpiryNext, PTL DEF Spec

-----------------------------------------------------------------------------
(***************************************************************************)
(* The refinement of Checks.  A request that reads the table takes the     *)
(* step Look or Answer, a hit is a Recall, and the commands of a pipeline  *)
(* are no steps at all.                                                    *)
(***************************************************************************)

\* What a worker was asked and has seen changes only when its own request moves.
LEMMA MapStep ==
  ASSUME NEW w \in Worker, \A v \in Worker : v # w => req'[v] = req[v]
  PROVE  /\ Asked' = [Asked EXCEPT ![w] = Asked'[w]]
         /\ Seen' = [Seen EXCEPT ![w] = Seen'[w]]
         /\ Asked'[w] = Asked[w] => Asked' = Asked
         /\ Seen'[w] = Seen[w] => Seen' = Seen
<1>1. \A v \in Worker : v # w => Asked'[v] = Asked[v] /\ Seen'[v] = Seen[v]
  BY DEF Asked, Seen, Checking, HasRows, Grants
<1>2. /\ DOMAIN Asked = Worker /\ DOMAIN Asked' = Worker
      /\ DOMAIN Seen = Worker /\ DOMAIN Seen' = Worker
      /\ Asked' = [v \in Worker |-> Asked'[v]] /\ Seen' = [v \in Worker |-> Seen'[v]]
      /\ Asked = [v \in Worker |-> Asked[v]] /\ Seen = [v \in Worker |-> Seen[v]]
  BY DEF Asked, Seen
<1> QED
  BY <1>1, <1>2

\* What lags, after a step that neither begins nor ends an update.
LEMMA LagQuiet ==
  ASSUME NEW w \in Worker, \A v \in Worker : v # w => req'[v] = req[v],
         req[w].stage # "bust", req'[w].stage # "bust", db' = db, late' = late
  PROVE  Lag' = Lag
<1>1. Busting' = Busting
  BY DEF Busting
<1> QED
  BY <1>1 DEF Lag

\* What lags shrinks when the hash goes, or when an update ends.
LEMMA LagShrinks ==
  ASSUME NEW w \in Worker, \A v \in Worker : v # w => req'[v] = req[v],
         req'[w].stage # "bust" \/ req' = req, db' = db, late' \subseteq late
  PROVE  Lag' \in SUBSET Lag
<1>1. Busting' \subseteq Busting
  BY DEF Busting
<1> QED
  BY <1>1 DEF Lag

\* A check that begins, or is answered by the hash.
LEMMA AsksOrRecalls ==
  ASSUME StaleInv, NEW w \in Worker, NEW p \in Perm, RequirePermission(w, p)
  PROVE  C!Ask(w, p) \/ C!Recall(w, p)
<1>0. /\ req \in [Worker -> Request] /\ now \in Time /\ p \in Row /\ Asked[w] = NoPerm
      /\ req[w].stage = "idle" /\ db' = db /\ late' = late
  BY DEF StaleInv, TypeOK, Row, RequirePermission, Asked, Checking
<1>1. CASE p \in cache /\ Answer(p, TRUE) /\ UNCHANGED req
  <2>1. p \in db \cup Lag
    BY <1>0, <1>1 DEF StaleInv, StaleOnlyByOverlap, Lag, Busting
  <2>2. UNCHANGED <<db, Lag, Asked, Seen>>
    BY <1>0, <1>1 DEF Lag, Busting, Asked, Seen, Checking, HasRows, Grants
  <2> QED
    BY <1>0, <1>1, <2>1, <2>2 DEF C!Recall, C!Says, Answer
<1>2. CASE reply' = reply /\ \E s \in {"load", "count"} : Start(w, s, p)
  <2>1. PICK s \in {"load", "count"} : Start(w, s, p)
    BY <1>2
  <2>2. /\ req'[w].stage = s /\ req'[w].perm = p
        /\ \A v \in Worker : v # w => req'[v] = req[v]
    BY <1>0, <2>1, Starts DEF Stage
  <2>3. Asked'[w] = p /\ Seen'[w] = Seen[w] /\ Lag' = Lag
    BY <1>0, <2>2, LagQuiet DEF Asked, Seen, Checking, HasRows
  <2>4. Asked' = [Asked EXCEPT ![w] = p] /\ Seen' = Seen
    BY <2>2, <2>3, MapStep
  <2> QED
    BY <1>0, <1>2, <2>3, <2>4 DEF C!Ask
<1> QED
  BY <1>1, <1>2 DEF RequirePermission

\* The rows are read: the instant that decides.
LEMMA Looks ==
  ASSUME StaleInv, NEW w \in Worker, LoadRows(w)
  PROVE  C!Look(w)
<1>1. /\ req \in [Worker -> Request] /\ req[w].stage = "load" /\ req[w].perm \in Row
      /\ NoPerm \notin Row
  BY PermCacheAssumption DEF StaleInv, TypeOK, LoadRows, Row
<1>2. /\ req'[w].stage = "fill" /\ req'[w].rows = db /\ req'[w].perm = req[w].perm
      /\ \A v \in Worker : v # w => req'[v] = req[v]
  BY <1>1 DEF LoadRows, Request
<1>3. UNCHANGED <<db, late, reply>>
  BY DEF LoadRows, ghosts
<1>4. /\ Asked[w] = req[w].perm /\ Asked'[w] = req[w].perm
      /\ Seen[w] = {} /\ Seen'[w] = {Grants(db, req[w].perm)}
  BY <1>1, <1>2 DEF Asked, Seen, Checking, HasRows
<1>5. Lag' = Lag
  BY <1>1, <1>2, <1>3, LagQuiet
<1>6. Asked' = Asked /\ Seen' = [Seen EXCEPT ![w] = {Grants(db, req[w].perm)}]
  BY <1>2, <1>4, MapStep
<1> QED
  BY <1>1, <1>3, <1>4, <1>5, <1>6 DEF C!Look, C!Granted, Grants

\* A check ends, with an answer or without.
LEMMA EndsCheck ==
  ASSUME StaleInv, NEW w \in Worker, Checking(w), Finish(w), UNCHANGED <<db, late>>
  PROVE  C!Done(w) /\ Asked[w] = req[w].perm
<1>1. /\ req \in [Worker -> Request] /\ req[w].perm \in Row /\ NoPerm \notin Row
      /\ req[w].stage # "bust"
  BY PermCacheAssumption DEF StaleInv, TypeOK, Checking, Row
<1>2. req'[w].stage = "idle" /\ \A v \in Worker : v # w => req'[v] = req[v]
  BY <1>1, Ends
<1>3. Asked[w] = req[w].perm /\ Asked'[w] = NoPerm /\ Seen'[w] = {}
  BY <1>2 DEF Asked, Seen, Checking, HasRows
<1>4. Lag' = Lag
  BY <1>1, <1>2, LagQuiet
<1> QED
  BY <1>1, <1>2, <1>3, <1>4, MapStep DEF C!Done

\* The update of a permission begins, goes on or ends.
LEMMA Updates ==
  ASSUME StaleInv, NEW w \in Worker, req[w].stage \in {"idle", "create", "bust"},
         req'[w].stage \in {"idle", "create", "bust"}, \A v \in Worker : v # w => req'[v] = req[v]
  PROVE  UNCHANGED <<Asked, Seen>>
<1>1. Asked'[w] = Asked[w] /\ Seen'[w] = Seen[w]
  BY DEF Asked, Seen, Checking, HasRows
<1> QED
  BY <1>1, MapStep

\* Each statement and command is a step of Checks or none.
LEMMA ChecksNext ==
  ASSUME StaleInv, [Next]_vars
  PROVE  [C!Next]_(C!checkVars)
<1>0. /\ TypeOK /\ req \in [Worker -> Request] /\ now \in Time /\ Perm \subseteq Row
      /\ Row = Perm \cup {Wild}
      /\ \A s \in {"idle", "load", "fill", "decide", "count", "create", "bust"} : s \in Stage
  BY DEF StaleInv, TypeOK, Row, Stage
<1>1. ASSUME NEW w \in Worker, NEW p \in Perm, RequirePermission(w, p) PROVE C!Next
  BY <1>1, AsksOrRecalls DEF C!Next
<1>2. ASSUME NEW w \in Worker, LoadRows(w) PROVE C!Next
  BY <1>2, Looks DEF C!Next
<1>3. ASSUME NEW w \in Worker,
             LoadFails(w) \/ FillField(w) \/ FillExpire(w) \/ FillAgain(w) \/ FillFails(w)
      PROVE  UNCHANGED C!checkVars
  <2>1. /\ req[w].stage # "bust" /\ req'[w].stage # "bust"
        /\ UNCHANGED <<db, late, reply>>
        /\ \A v \in Worker : v # w => req'[v] = req[v]
        /\ req'[w].perm = req[w].perm /\ req'[w].rows = req[w].rows
        /\ Checking(w) /\ Checking(w)' /\ HasRows(w)' = HasRows(w)
    <3>1. CASE FillField(w)
      BY <1>0, <3>1 DEF FillField, ghosts, Request, Checking, HasRows
    <3>4. CASE FillAgain(w)
      BY <1>0, <3>4, Resends DEF FillAgain, ghosts, Checking, HasRows
    <3>2. CASE LoadFails(w)
      <4>1. Goto(w, "count") /\ req[w].stage = "load" /\ UNCHANGED <<db, late, reply>>
        BY <3>2 DEF LoadFails, ghosts
      <4> QED
        BY <1>0, <4>1, Goes DEF Checking, HasRows
    <3>3. CASE FillExpire(w) \/ FillFails(w)
      <4>1. /\ Goto(w, "decide") \/ Resend(w)
            /\ req[w].stage = "fill" /\ UNCHANGED <<db, late, reply>>
        BY <3>3 DEF FillExpire, FillFails
      <4> QED
        BY <1>0, <4>1, Goes, Resends DEF Checking, HasRows
    <3> QED
      BY <1>3, <3>1, <3>2, <3>3, <3>4
  <2>2. Asked'[w] = Asked[w] /\ Seen'[w] = Seen[w]
    BY <2>1 DEF Asked, Seen
  <2>3. Asked' = Asked /\ Seen' = Seen
    BY <2>1, <2>2, MapStep
  <2> QED
    BY <2>1, <2>3, LagQuiet DEF C!checkVars
<1>4. ASSUME NEW w \in Worker, Allow(w) \/ Refuse(w) PROVE C!Next
  <2>1. PICK a \in BOOLEAN : Decided(w, a) /\ a = Grants(req[w].rows, req[w].perm)
    <3>1. Grants(req[w].rows, req[w].perm) \in BOOLEAN
      BY DEF Grants
    <3>2. Decided(w, Grants(req[w].rows, req[w].perm))
      BY <1>4, <3>1 DEF Allow, Refuse
    <3> QED
      BY <3>1, <3>2
  <2>2. Checking(w) /\ Seen[w] = {a} /\ Finish(w) /\ UNCHANGED <<db, late>>
    BY <2>1 DEF Decided, Checking, Seen, HasRows
  <2>3. C!Done(w) /\ Asked[w] = req[w].perm
    BY <2>2, EndsCheck
  <2>4. C!Tell(w)
    BY <2>1, <2>2, <2>3 DEF C!Tell, C!Says, Decided, Answer
  <2> QED
    BY <2>4 DEF C!Next
<1>5. ASSUME NEW w \in Worker, CountAllow(w) \/ CountRefuse(w) PROVE C!Next
  <2>1. PICK a \in BOOLEAN : Counted(w, a) /\ a = Grants(db, req[w].perm)
    <3>1. Grants(db, req[w].perm) \in BOOLEAN
      BY DEF Grants
    <3>2. Counted(w, Grants(db, req[w].perm))
      BY <1>5, <3>1 DEF CountAllow, CountRefuse
    <3> QED
      BY <3>1, <3>2
  <2>2. Checking(w) /\ Seen[w] = {} /\ Finish(w) /\ UNCHANGED <<db, late>>
    BY <2>1 DEF Counted, Checking, Seen, HasRows
  <2>3. C!Done(w) /\ Asked[w] = req[w].perm
    BY <2>2, EndsCheck
  <2>4. C!Answer(w)
    BY <2>1, <2>2, <2>3 DEF C!Answer, C!Says, C!Granted, Counted, Answer, Grants
  <2> QED
    BY <2>4 DEF C!Next
<1>13. ASSUME NEW w \in Worker, CountFails(w) PROVE C!Next
  <2>1. Checking(w) /\ Seen[w] = {} /\ Finish(w) /\ UNCHANGED <<db, late>>
    BY <1>13 DEF CountFails, Checking, Seen, HasRows
  <2>2. C!Done(w) /\ Asked[w] = req[w].perm
    BY <2>1, EndsCheck
  <2>3. C!Deny(w)
    BY <1>13, <2>1, <2>2 DEF C!Deny, CountFails
  <2> QED
    BY <2>3 DEF C!Next
<1>6. ASSUME NEW w \in Worker, NEW p \in Row, AdminGrant(w, p) PROVE UNCHANGED C!checkVars
  <2>1. PICK s \in {"bust", "create"} : Start(w, s, p) /\ (s = "bust" => p \in db)
    BY <1>6 DEF AdminGrant
  <2>2. /\ req'[w].stage = s /\ req'[w].perm = p /\ req[w].stage = "idle"
        /\ \A v \in Worker : v # w => req'[v] = req[v]
    BY <1>0, <1>6, <2>1, Starts DEF AdminGrant
  <2>3. UNCHANGED <<db, late, reply>>
    BY <1>6 DEF AdminGrant, ghosts
  <2>4. Busting' \ db = Busting \ db
    BY <2>1, <2>2 DEF Busting
  <2>5. Lag' = Lag
    BY <2>3, <2>4 DEF Lag
  <2> QED
    BY <2>2, <2>3, <2>5, Updates DEF C!checkVars
<1>7. ASSUME NEW w \in Worker, CreateRow(w) PROVE C!Next
  <2>1. /\ req[w].stage = "create" /\ req[w].perm \in Row /\ reply' = reply
        /\ late' = late \ {req[w].perm}
    BY <1>0, <1>7 DEF CreateRow, TypeOK
  <2>2. CASE req[w].perm \in db /\ Finish(w) /\ UNCHANGED db
    <3>1. req'[w].stage = "idle" /\ \A v \in Worker : v # w => req'[v] = req[v]
      BY <1>0, <2>2, Ends
    <3>2. Lag' \in SUBSET Lag /\ UNCHANGED <<Asked, Seen>>
      BY <2>1, <2>2, <3>1, LagShrinks, Updates
    <3> QED
      BY <2>1, <2>2, <3>2 DEF C!Next, C!Forget
  <2>3. CASE db' = db \cup {req[w].perm} /\ Goto(w, "bust")
    <3>1. /\ req'[w].stage = "bust" /\ req'[w].perm = req[w].perm
          /\ \A v \in Worker : v # w => req'[v] = req[v]
      BY <1>0, <2>3, Goes
    <3>2. UNCHANGED <<Asked, Seen>>
      BY <2>1, <3>1, Updates
    <3>3. Busting' = Busting \cup {req[w].perm}
      BY <2>1, <3>1 DEF Busting
    <3>4. Lag' = Lag \ {req[w].perm}
      BY <2>1, <2>3, <3>3 DEF Lag
    <3>5. C!Grant(req[w].perm)
      BY <2>1, <2>3, <3>2, <3>4 DEF C!Grant
    <3> QED
      BY <1>0, <2>1, <3>5 DEF C!Next
  <2> QED
    BY <1>7, <2>2, <2>3 DEF CreateRow
<1>8. ASSUME NEW w \in Worker, NEW p \in Row, AdminRevoke(w, p) PROVE C!Next
  <2>1. /\ req'[w].stage = "bust" /\ req'[w].perm = p /\ req[w].stage = "idle"
        /\ \A v \in Worker : v # w => req'[v] = req[v]
    BY <1>0, <1>8, Starts DEF AdminRevoke
  <2>2. UNCHANGED <<Asked, Seen>>
    BY <2>1, Updates
  <2>3. Busting' = Busting \cup {p}
    BY <2>1 DEF Busting
  <2>4. /\ db' = db \ {p} /\ reply' = reply
        /\ late \subseteq late' /\ late' \subseteq late \cup {p}
    BY <1>8 DEF AdminRevoke
  <2>5. Lag' = Lag \cup {p}
    BY <2>3, <2>4 DEF Lag
  <2>6. C!Revoke(p)
    BY <2>2, <2>4, <2>5 DEF C!Revoke
  <2> QED
    BY <1>0, <2>6 DEF C!Next
<1>9. ASSUME NEW w \in Worker, Bust(w) PROVE C!Next
  <2>1. /\ UNCHANGED <<db, reply>> /\ late' \subseteq late /\ req[w].stage = "bust" /\ Finish(w)
    BY <1>9 DEF Bust, Removed
  <2>2. req'[w].stage = "idle" /\ \A v \in Worker : v # w => req'[v] = req[v]
    BY <1>0, <2>1, Ends
  <2>3. Lag' \in SUBSET Lag /\ UNCHANGED <<Asked, Seen>>
    BY <2>1, <2>2, LagShrinks, Updates
  <2> QED
    BY <2>1, <2>3 DEF C!Next, C!Forget
<1>10. ASSUME NEW w \in Worker, Abort(w) PROVE C!Next \/ UNCHANGED C!checkVars
  <2>1. /\ UNCHANGED <<db, reply>> /\ Finish(w) /\ req[w].stage \in Stage
        /\ late' = IF req[w].stage = "bust" THEN late \cup ({req[w].perm} \ db) ELSE late
    BY <1>0, <1>10 DEF Abort, Request
  <2>2. req'[w].stage = "idle" /\ \A v \in Worker : v # w => req'[v] = req[v]
    BY <1>0, <2>1, Ends
  <2>3. CASE Checking(w)
    <3>1. C!Done(w)
      BY <2>1, <2>3, EndsCheck DEF Checking
    <3>2. C!GiveUp(w)
      BY <2>1, <3>1 DEF C!GiveUp
    <3> QED
      BY <3>2 DEF C!Next
  <2>4. CASE ~Checking(w)
    <3>1. UNCHANGED <<Asked, Seen>>
      BY <2>1, <2>2, <2>4, Updates DEF Checking, Stage
    <3>2. Lag' \in SUBSET Lag
      <4>1. CASE req[w].stage = "bust"
        <5>1. {req[w].perm} \subseteq Busting /\ Busting' \subseteq Busting
          BY <1>0, <2>2, <4>1 DEF Busting, TypeOK
        <5> QED
          BY <2>1, <4>1, <5>1 DEF Lag
      <4>2. CASE req[w].stage # "bust"
        BY <2>1, <2>2, <4>2, LagShrinks
      <4> QED
        BY <4>1, <4>2
    <3> QED
      BY <2>1, <3>1, <3>2 DEF C!Next, C!Forget
  <2> QED
    BY <2>3, <2>4
<1>11. CASE Tick
  <2>1. UNCHANGED <<db, req, reply>> /\ late' \subseteq late
    BY <1>11 DEF Tick, Removed
  <2>2. Lag' \in SUBSET Lag /\ UNCHANGED <<Asked, Seen>>
    BY <2>1 DEF Lag, Busting, Asked, Seen, Checking, HasRows, Grants
  <2> QED
    BY <2>1, <2>2 DEF C!Next, C!Forget
<1>12. CASE UNCHANGED vars
  BY <1>12 DEF vars, ghosts, C!checkVars, Lag, Busting, Asked, Seen, Checking, HasRows, Grants
<1> QED
  BY <1>1, <1>2, <1>3, <1>4, <1>5, <1>6, <1>7, <1>8, <1>9, <1>10, <1>11, <1>12, <1>13 DEF Next

\* Rows, hash and direct check answer as Checks promises
\* (middleware/admin.go:46-86 with admin.go:944-973).
THEOREM ChecksImplemented == Spec => ImplementsChecks
<1>1. Init => C!Init
  BY DEF Init, C!Init, Lag, Busting, Asked, Seen, Checking, HasRows, Idle, Row
<1>2. Init => StaleInv
  BY TypeInit DEF Init, StaleInv, StaleOnlyByOverlap, Idle
<1> QED
  BY <1>1, <1>2, ChecksNext, StaleNext, PTL DEF Spec, ImplementsChecks, C!Spec
=============================================================================
