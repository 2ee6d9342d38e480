---------------------------- MODULE Rewards_proofs ----------------------------
(***************************************************************************)
(* Proofs about Rewards, for every set of users, chapters and workers and  *)
(* every limit.                                                            *)
(***************************************************************************)
EXTENDS Rewards, Sums_proofs

-----------------------------------------------------------------------------
(* Type correctness.                                                       *)

\* The initial tables and requests have their types.
LEMMA TypeInit == Init => TypeOK
<1> SUFFICES ASSUME Init PROVE TypeOK
  OBVIOUS
<1> USE RewardsAssumption DEF Init, Day
<1>1. req \in [Worker -> Request] /\ \A w \in Worker : RequestOK(req[w])
  BY DEF Idle, Request, Stage, RequestOK
<1> QED
  BY <1>1 DEF TypeOK

\* A step that writes one request, when no settings row is deleted.
LEMMA RequestKept ==
  ASSUME TypeOK, NEW w \in Worker, NEW q \in Request, req' = [req EXCEPT ![w] = q],
         RequestOK(q)', day' = day, settings' \in [Setting -> {"none", "on", "off"}],
         \A s \in Setting : settings[s] # "none" => settings'[s] # "none"
  PROVE  req' \in [Worker -> Request] /\ \A v \in Worker : RequestOK(req[v])'
<1>1. req' \in [Worker -> Request]
  BY DEF TypeOK
<1>2. ASSUME NEW v \in Worker PROVE RequestOK(req[v])'
  <2>1. CASE v = w
    BY <2>1 DEF TypeOK
  <2>2. CASE v # w
    <3>1. req'[v] = req[v] /\ RequestOK(req[v])
      BY <2>2 DEF TypeOK
    <3> QED
      BY <3>1 DEF RequestOK
  <2> QED
    BY <2>1, <2>2
<1> QED
  BY <1>1, <1>2

\* A request that has ended needs nothing.
LEMMA IdleOK == Idle \in Request /\ RequestOK(Idle)
  BY RewardsAssumption DEF Idle, RequestOK, Request, Stage, Day

\* A statement that only reads: the tables stay and one request moves on.
LEMMA ReadStep ==
  ASSUME TypeOK, NEW w \in Worker, NEW q \in Request, RequestOK(q), req' = [req EXCEPT ![w] = q],
         UNCHANGED <<day, tables, blocked, dirty>>, readToday' \in [User -> BOOLEAN]
  PROVE  TypeOK'
<1>1. RequestOK(q)'
  BY DEF tables, RequestOK
<1>2. req' \in [Worker -> Request] /\ \A v \in Worker : RequestOK(req[v])'
  BY <1>1, RequestKept DEF tables, TypeOK
<1> QED
  BY <1>2 DEF TypeOK, tables

\* A statement that ends its request.
LEMMA FinishStep ==
  ASSUME TypeOK, NEW w \in Worker, Finish(w), day' = day,
         settings' \in [Setting -> {"none", "on", "off"}],
         \A s \in Setting : settings[s] # "none" => settings'[s] # "none"
  PROVE  req' \in [Worker -> Request] /\ \A v \in Worker : RequestOK(req[v])'
<1>1. RequestOK(Idle)'
  BY IdleOK DEF RequestOK, Idle
<1> QED
  BY <1>1, IdleOK, RequestKept DEF Finish

\* The count of rewards behind an ad blocker stays a number.
LEMMA CountBlockedType == TypeOK /\ CountBlocked => blocked' \in [User -> Nat]
  BY DEF TypeOK, CountBlocked

\* Each statement of each handler keeps the types.
LEMMA TypeNext == TypeOK /\ [Next]_vars => TypeOK'
<1> SUFFICES ASSUME TypeOK, [Next]_vars PROVE TypeOK'
  OBVIOUS
<1> USE RewardsAssumption
<1>1. ASSUME NEW w \in Worker, NEW u \in User, NEW c \in Chapter, NEW ab \in BOOLEAN,
             RewardRead(w, u, c, ab)
      PROVE  TypeOK'
  <2>1. PICK s \in {"create", "status", "count"} :
          req' = [req EXCEPT ![w] = [Idle EXCEPT !.stage = s, !.op = "reward", !.user = u,
                                                 !.chapter = c, !.value = ab]]
    BY <1>1 DEF RewardRead
  <2>2. PICK q : q = [Idle EXCEPT !.stage = s, !.op = "reward", !.user = u,
                                  !.chapter = c, !.value = ab]
    OBVIOUS
  <2>3. q \in Request /\ RequestOK(q)
    <3>1. q \in Request
      BY <2>2, IdleOK DEF Request, Stage
    <3>2. RequestOK(q)
      BY <2>2 DEF Idle, RequestOK
    <3> QED
      BY <3>1, <3>2
  <2> QED
    BY <1>1, <2>1, <2>2, <2>3, ReadStep DEF RewardRead, ghosts, TypeOK
<1>2. ASSUME NEW w \in Worker, CreateSettings(w) PROVE TypeOK'
  <2>1. PICK s \in Setting :
          /\ settings' = [settings EXCEPT ![s] = "on"]
          /\ \/ Finish(w)
             \/ req' = [req EXCEPT ![w] = [@ EXCEPT !.stage = "update", !.row = s]]
             \/ req[w].op = "reward" /\ Goto(w, "status")
    BY <1>2 DEF CreateSettings
  <2>2. /\ settings' \in [Setting -> {"none", "on", "off"}] /\ settings'[s] = "on"
        /\ \A r \in Setting : settings[r] # "none" => settings'[r] # "none"
        /\ day' = day
    BY <1>2, <2>1 DEF TypeOK, CreateSettings
  <2>3. req[w] \in Request /\ RequestOK(req[w]) /\ req[w].stage = "create"
    BY <1>2 DEF TypeOK, CreateSettings
  <2>4. req' \in [Worker -> Request] /\ \A v \in Worker : RequestOK(req[v])'
    <3>1. CASE Finish(w)
      BY <2>2, <3>1, FinishStep
    <3>2. CASE req' = [req EXCEPT ![w] = [@ EXCEPT !.stage = "update", !.row = s]]
      <4>1. PICK q : q = [req[w] EXCEPT !.stage = "update", !.row = s]
        OBVIOUS
      <4>2. q \in Request /\ RequestOK(q)'
        BY <2>2, <2>3, <4>1 DEF Request, Stage, RequestOK
      <4>3. req' = [req EXCEPT ![w] = q]
        BY <3>2, <4>1 DEF TypeOK, Request
      <4> QED
        BY <2>2, <4>2, <4>3, RequestKept
    <3>3. CASE req[w].op = "reward" /\ Goto(w, "status")
      <4>1. PICK q : q = [req[w] EXCEPT !.stage = "status"]
        OBVIOUS
      <4>2. q \in Request /\ RequestOK(q)'
        BY <2>3, <3>3, <4>1 DEF Request, Stage, RequestOK
      <4>3. req' = [req EXCEPT ![w] = q]
        BY <3>3, <4>1 DEF TypeOK, Request, Goto
      <4> QED
        BY <2>2, <4>2, <4>3, RequestKept
    <3> QED
      BY <2>1, <3>1, <3>2, <3>3
  <2> QED
    BY <1>2, <2>2, <2>4, CountBlockedType DEF CreateSettings, TypeOK
<1>3. ASSUME NEW w \in Worker, ReadStatus(w) \/ CountReads(w) \/ FindHistory(w) \/ Distributed(w)
      PROVE  TypeOK'
  <2>1. /\ UNCHANGED <<day, tables, blocked, dirty>> /\ readToday' \in [User -> BOOLEAN]
        /\ req[w] \in Request /\ RequestOK(req[w])
    BY <1>3 DEF ReadStatus, CountReads, FindHistory, Distributed, ghosts, TypeOK
  <2>2. PICK q : /\ q \in {Idle, [req[w] EXCEPT !.stage = "count"], [req[w] EXCEPT !.stage = "find"],
                           [req[w] EXCEPT !.stage = "count", !.op = "unseen"],
                           [req[w] EXCEPT !.stage = "commit", !.day = day]}
                 /\ req' = [req EXCEPT ![w] = q]
                 /\ q # Idle => req[w].stage \in {"status", "count", "find"}
    <3>1. CASE Finish(w)
      BY <3>1 DEF Finish
    <3>2. CASE \E s \in {"count", "find"} : Goto(w, s) /\ req[w].stage \in {"status", "count", "find"}
      <4>1. PICK s \in {"count", "find"} : Goto(w, s) /\ req[w].stage \in {"status", "count", "find"}
        BY <3>2
      <4>2. req' = [req EXCEPT ![w] = [req[w] EXCEPT !.stage = s]]
        BY <4>1 DEF Goto, TypeOK, Request
      <4> QED
        BY <4>1, <4>2
    <3>3. CASE req' = [req EXCEPT ![w] = [@ EXCEPT !.stage = "commit", !.day = day]] /\ req[w].stage = "find"
      <4>1. req' = [req EXCEPT ![w] = [req[w] EXCEPT !.stage = "commit", !.day = day]]
        BY <3>3 DEF TypeOK, Request
      <4> QED
        BY <3>3, <4>1
    <3>4. CASE req' = [req EXCEPT ![w] = [@ EXCEPT !.stage = "count", !.op = "unseen"]]
               /\ req[w].stage = "status"
      <4>1. req' = [req EXCEPT ![w] = [req[w] EXCEPT !.stage = "count", !.op = "unseen"]]
        BY <3>4 DEF TypeOK, Request
      <4> QED
        BY <3>4, <4>1
    <3> QED
      BY <1>3, <3>1, <3>2, <3>3, <3>4 DEF ReadStatus, CountReads, FindHistory, Distributed
  <2>3. q \in Request /\ RequestOK(q)
    <3>1. CASE q = Idle
      BY <3>1, IdleOK
    <3>2. CASE q # Idle
      <4>1. day \in Day /\ day <= day
        BY DEF TypeOK, Day
      <4>2. q \in Request
        <5>1. CASE q = [req[w] EXCEPT !.stage = "count"]
          BY <2>1, <5>1 DEF Request, Stage
        <5>2. CASE q = [req[w] EXCEPT !.stage = "find"]
          BY <2>1, <5>2 DEF Request, Stage
        <5>3. CASE q = [req[w] EXCEPT !.stage = "commit", !.day = day]
          BY <2>1, <4>1, <5>3 DEF Request, Stage
        <5>4. CASE q = [req[w] EXCEPT !.stage = "count", !.op = "unseen"]
          BY <2>1, <5>4 DEF Request, Stage
        <5> QED
          BY <2>2, <3>2, <5>1, <5>2, <5>3, <5>4
      <4>3. /\ q.stage \in {"count", "find", "commit"}
            /\ q.user = req[w].user /\ q.chapter = req[w].chapter
            /\ q.stage = "commit" => q.day = day
        BY <2>1, <2>2, <3>2 DEF Request
      <4>4. RequestOK(q)
        BY <2>1, <2>2, <3>2, <4>1, <4>3 DEF RequestOK
      <4> QED
        BY <4>2, <4>4
    <3> QED
      BY <3>1, <3>2
  <2> QED
    BY <2>1, <2>2, <2>3, ReadStep
<1>4. ASSUME NEW w \in Worker, RewardCommit(w) PROVE TypeOK'
  <2>1. /\ req[w].user \in User /\ req[w].chapter \in Chapter /\ req[w].day \in Day
        /\ day \in Day
    BY <1>4 DEF TypeOK, RequestOK, RewardCommit, Request
  <2>2. \A d \in req[w].day .. day : d \in Day
    BY <2>1 DEF Day
  <2>3. reads' \in [User -> [Day -> Nat]]
    BY <1>4, <2>1, <2>2 DEF TypeOK, RewardCommit
  <2>4. /\ points' \in [User -> Int] /\ logged' \in [User -> Int]
        /\ readOn' \in [User -> SUBSET Day] /\ readToday' \in [User -> BOOLEAN]
        /\ blocked' \in [User -> Nat]
    BY <1>4, <2>1 DEF TypeOK, RewardCommit
  <2>5. history' \in [User -> [Chapter -> Nat]]
    BY <1>4, <2>1 DEF TypeOK, RewardCommit
  <2>6. req' \in [Worker -> Request] /\ \A v \in Worker : RequestOK(req[v])'
    BY <1>4, FinishStep DEF TypeOK, RewardCommit
  <2> QED
    BY <1>4, <2>3, <2>4, <2>5, <2>6 DEF TypeOK, RewardCommit
<1>5. ASSUME NEW w \in Worker, AdminGetAdsSettings(w) PROVE TypeOK'
  <2>1. PICK q : q = [Idle EXCEPT !.stage = "create", !.op = "get"]
    OBVIOUS
  <2>2. q \in Request /\ RequestOK(q)
    <3>1. q \in Request
      <4>1. "create" \in Stage /\ "get" \in {"none", "reward", "get", "update"}
        BY DEF Stage
      <4> QED
        BY <2>1, <4>1, IdleOK DEF Request
    <3>2. RequestOK(q)
      BY <2>1 DEF Idle, RequestOK
    <3> QED
      BY <3>1, <3>2
  <2> QED
    BY <1>5, <2>1, <2>2, ReadStep DEF AdminGetAdsSettings, ghosts, TypeOK
<1>6. ASSUME NEW w \in Worker, NEW on \in BOOLEAN, AdminUpdateAdsSettings(w, on) PROVE TypeOK'
  <2>1. PICK q : /\ req' = [req EXCEPT ![w] = q]
                 /\ \/ q = [Idle EXCEPT !.stage = "create", !.op = "update", !.value = on]
                    \/ \E s \in Setting :
                          /\ settings[s] # "none"
                          /\ q = [Idle EXCEPT !.stage = "update", !.op = "update",
                                              !.value = on, !.row = s]
    BY <1>6 DEF AdminUpdateAdsSettings, IsFirst
  <2>2. q \in Request /\ RequestOK(q)
    <3>1. q \in Request
      <4>1. CASE q = [Idle EXCEPT !.stage = "create", !.op = "update", !.value = on]
        BY <4>1, IdleOK DEF Request, Stage
      <4>2. CASE \E s \in Setting : q = [Idle EXCEPT !.stage = "update", !.op = "update",
                                                      !.value = on, !.row = s]
        BY <4>2, IdleOK DEF Request, Stage
      <4> QED
        BY <2>1, <4>1, <4>2
    <3>2. RequestOK(q)
      BY <2>1 DEF Idle, RequestOK
    <3> QED
      BY <3>1, <3>2
  <2> QED
    BY <1>6, <2>1, <2>2, ReadStep DEF AdminUpdateAdsSettings, ghosts, TypeOK
<1>7. ASSUME NEW w \in Worker, UpdateSettings(w) PROVE TypeOK'
  <2>1. /\ settings' \in [Setting -> {"none", "on", "off"}] /\ day' = day /\ Finish(w)
        /\ \A s \in Setting : settings[s] # "none" => settings'[s] # "none"
    BY <1>7 DEF TypeOK, UpdateSettings, RequestOK
  <2> QED
    BY <1>7, <2>1, FinishStep, CountBlockedType DEF TypeOK, UpdateSettings
<1>8. ASSUME NEW w \in Worker, NEW u \in User, NEW ab \in BOOLEAN, AdsCheck(w, u, ab) PROVE TypeOK'
  <2>1. PICK q : q = [Idle EXCEPT !.stage = "report", !.user = u, !.value = ab,
                                  !.found = adblock[u] # "none"]
    OBVIOUS
  <2>2. q \in Request /\ RequestOK(q)
    <3>1. q \in Request
      BY <2>1, IdleOK DEF Request, Stage
    <3>2. RequestOK(q)
      BY <2>1 DEF Idle, RequestOK
    <3> QED
      BY <3>1, <3>2
  <2> QED
    BY <1>8, <2>1, <2>2, ReadStep DEF AdsCheck, ghosts, TypeOK
<1>9. ASSUME NEW w \in Worker, ReportAdblock(w) PROVE TypeOK'
  <2>1. adblock' \in [User -> {"none", "yes", "no"}]
    BY <1>9 DEF TypeOK, ReportAdblock
  <2>2. req' \in [Worker -> Request] /\ \A v \in Worker : RequestOK(req[v])'
    BY <1>9, FinishStep DEF TypeOK, ReportAdblock
  <2> QED
    BY <1>9, <2>1, <2>2, CountBlockedType DEF TypeOK, ReportAdblock
<1>10. ASSUME NEW w \in Worker, NEW u \in User, NEW n \in Amount, AdminManualPoints(w, u, n)
       PROVE  TypeOK'
  <2>1. PICK q : q = [Idle EXCEPT !.stage = "log", !.user = u, !.amount = n]
    OBVIOUS
  <2>2. q \in Request /\ RequestOK(q)'
    <3>1. q \in Request
      BY <2>1, IdleOK DEF Request, Stage
    <3>2. RequestOK(q)'
      BY <2>1 DEF Idle, RequestOK
    <3> QED
      BY <3>1, <3>2
  <2>3. points' \in [User -> Int]
    BY <1>10 DEF TypeOK, AdminManualPoints
  <2>4. req' \in [Worker -> Request] /\ \A v \in Worker : RequestOK(req[v])'
    BY <1>10, <2>1, <2>2, RequestKept DEF AdminManualPoints, TypeOK
  <2> QED
    BY <1>10, <2>3, <2>4 DEF AdminManualPoints, ghosts, TypeOK
<1>11. ASSUME NEW w \in Worker, AdminDistributeRewards(w) PROVE TypeOK'
  <2>1. PICK q : q = [Idle EXCEPT !.stage = "pay", !.todo = {u \in User : day \in readOn[u]}]
    OBVIOUS
  <2>2. q \in Request /\ RequestOK(q)
    <3>1. q \in Request
      BY <2>1, IdleOK DEF Request, Stage
    <3>2. RequestOK(q)
      BY <2>1 DEF Idle, RequestOK
    <3> QED
      BY <3>1, <3>2
  <2> QED
    BY <1>11, <2>1, <2>2, ReadStep DEF AdminDistributeRewards, ghosts, TypeOK
<1>12. ASSUME NEW w \in Worker, PayBonus(w) PROVE TypeOK'
  <2>1. req[w] \in Request /\ req[w].todo \subseteq User
    BY DEF TypeOK, Request
  <2>2. PICK u \in req[w].todo :
           /\ req' = [req EXCEPT ![w] = [req[w] EXCEPT !.stage = "log", !.user = u,
                                                       !.amount = Bonus,
                                                       !.todo = req[w].todo \ {u}]]
           /\ points' = [points EXCEPT ![u] = @ + Bonus] \/ points' = points
           /\ dirty' = [dirty EXCEPT ![u] = TRUE] \/ dirty' = dirty
    BY <1>12 DEF PayBonus
  <2>3. PICK q : q = [req[w] EXCEPT !.stage = "log", !.user = u, !.amount = Bonus,
                                    !.todo = req[w].todo \ {u}]
    OBVIOUS
  <2>4. q \in Request /\ RequestOK(q)'
    <3>1. u \in User /\ Bonus \in Int
      BY <2>1
    <3>2. q \in Request
      BY <2>1, <2>3, <3>1 DEF Request, Stage
    <3>3. q.stage = "log" /\ q.user = u
      BY <2>1, <2>3 DEF Request
    <3>4. RequestOK(q)'
      BY <3>1, <3>3 DEF RequestOK
    <3> QED
      BY <3>2, <3>4
  <2>5. req' = [req EXCEPT ![w] = q]
    BY <2>2, <2>3
  <2>6. req' \in [Worker -> Request] /\ \A v \in Worker : RequestOK(req[v])'
    BY <1>12, <2>4, <2>5, RequestKept DEF PayBonus, TypeOK
  <2>7. points' \in [User -> Int]
    BY <2>1, <2>2 DEF TypeOK
  <2>8. dirty' \in [User -> BOOLEAN]
    BY <2>1, <2>2 DEF TypeOK
  <2> QED
    BY <1>12, <2>6, <2>7, <2>8 DEF PayBonus, TypeOK
<1>13. ASSUME NEW w \in Worker, LogPoints(w) PROVE TypeOK'
  <2>1. req[w] \in Request /\ RequestOK(req[w]) /\ req[w].user \in User /\ req[w].amount \in Int
    BY <1>13 DEF TypeOK, Request, RequestOK, LogPoints
  <2>2. logged' \in [User -> Int]
    BY <1>13, <2>1 DEF TypeOK, LogPoints
  <2>7. dirty' \in [User -> BOOLEAN]
    BY <1>13, <2>1 DEF TypeOK, LogPoints
  <2>3. PICK q : q = [req[w] EXCEPT !.stage = "pay"]
    OBVIOUS
  <2>4. q \in Request /\ RequestOK(q)'
    BY <2>1, <2>3 DEF Request, RequestOK, Stage
  <2>5. Finish(w) \/ req' = [req EXCEPT ![w] = q]
    BY <1>13, <2>1, <2>3 DEF LogPoints, Goto, TypeOK, Request
  <2>6. req' \in [Worker -> Request] /\ \A v \in Worker : RequestOK(req[v])'
    BY <1>13, <2>4, <2>5, RequestKept, FinishStep DEF LogPoints, TypeOK
  <2> QED
    BY <1>13, <2>2, <2>6, <2>7 DEF LogPoints, TypeOK
<1>14. ASSUME NEW w \in Worker, Abort(w) PROVE TypeOK'
  <2>1. req' \in [Worker -> Request] /\ \A v \in Worker : RequestOK(req[v])'
    BY <1>14, FinishStep DEF Abort, tables, TypeOK
  <2>2. dirty' \in [User -> BOOLEAN]
    BY <1>14 DEF Abort, TypeOK
  <2> QED
    BY <1>14, <2>1, <2>2 DEF Abort, tables, TypeOK
<1>15. ASSUME NEW u \in User, AdminResetPoints(u) PROVE TypeOK'
  BY <1>15 DEF AdminResetPoints, TypeOK, RequestOK
<1>16. CASE NextDay
  <2>1. day' \in Day /\ readToday' \in [User -> BOOLEAN] /\ day <= day'
    BY <1>16 DEF NextDay, TypeOK, Day
  <2>2. \A v \in Worker : RequestOK(req[v])'
    <3> SUFFICES ASSUME NEW v \in Worker PROVE RequestOK(req[v])'
      OBVIOUS
    <3>1. RequestOK(req[v]) /\ req[v].day \in Int /\ day \in Int /\ day' \in Int
      BY <2>1 DEF TypeOK, Request, Day
    <3> QED
      BY <1>16, <2>1, <3>1 DEF NextDay, tables, RequestOK
  <2> QED
    BY <1>16, <2>1, <2>2 DEF NextDay, tables, TypeOK
<1>17. CASE UNCHANGED vars
  BY <1>17 DEF vars, tables, ghosts, TypeOK, RequestOK
<1> QED
  BY <1>1, <1>2, <1>3, <1>4, <1>5, <1>6, <1>7, <1>8, <1>9, <1>10, <1>11, <1>12, <1>13,
     <1>14, <1>15, <1>16, <1>17 DEF Next

\* Type correctness of the reward tables and requests.
THEOREM TypeCorrect == Spec => []TypeOK
  BY TypeInit, TypeNext, PTL DEF Spec

-----------------------------------------------------------------------------
(***************************************************************************)
(* The limits.  Each bounds a number in a table together with the requests *)
(* that can still raise it.                                                *)
(***************************************************************************)

\* Sets of workers are finite.
LEMMA WorkerSets ==
  ASSUME NEW S \in SUBSET Worker
  PROVE  /\ IsFiniteSet(S) /\ Cardinality(S) \in Nat
         /\ Cardinality(Worker) \in Nat /\ Cardinality(S) <= Cardinality(Worker)
  BY RewardsAssumption, FS_Subset, FS_CardinalityType

\* Fewer requests and no reward: the room is kept.
LEMMA RoomKept ==
  ASSUME NEW S \in SUBSET Worker, NEW T \in SUBSET S, NEW n \in Nat, NEW b \in Int,
         n + Cardinality(S) <= b
  PROVE  n + Cardinality(T) <= b
<1>1. Cardinality(T) <= Cardinality(S) /\ Cardinality(T) \in Nat /\ Cardinality(S) \in Nat
  BY WorkerSets, FS_Subset
<1> QED
  BY <1>1

\* A request is done and at most one reward is added: the room is kept.
LEMMA RoomMoved ==
  ASSUME NEW S \in SUBSET Worker, NEW w \in S, NEW T \in SUBSET (S \ {w}),
         NEW n \in Nat, NEW m \in Nat, m <= n + 1, NEW b \in Int, n + Cardinality(S) <= b
  PROVE  m + Cardinality(T) <= b
<1>1. Cardinality(S \ {w}) = Cardinality(S) - 1 /\ IsFiniteSet(S \ {w})
  BY WorkerSets, FS_RemoveElement
<1>2. Cardinality(T) <= Cardinality(S \ {w})
  BY <1>1, FS_Subset
<1>3. Cardinality(S) \in Nat /\ Cardinality(T) \in Nat
  BY WorkerSets
<1> QED
  BY <1>1, <1>2, <1>3

\* What the steps do to the requests, as far as the limits are concerned: one
\* enters a check, passes one, or is done.
LEMMA ReqStep ==
  ASSUME TypeOK, [Next]_vars
  PROVE  \/ \E w \in Worker : RewardCommit(w)
         \/ \E w \in Worker : CountReads(w)
         \/ \E w \in Worker : FindHistory(w)
         \/ NextDay
         \/ /\ UNCHANGED <<day, history, reads>>
            /\ \A w \in Worker :
                  \/ req'[w].user = req[w].user /\ req'[w].stage = req[w].stage
                     /\ req'[w].day = req[w].day /\ req'[w].chapter = req[w].chapter
                  \/ req'[w].stage \notin {"find", "commit"}
<1> USE DEF TypeOK, tables, ghosts, Idle, Goto, Finish
<1>1. ASSUME NEW w \in Worker, NEW u \in User, NEW c \in Chapter, NEW ab \in BOOLEAN,
             RewardRead(w, u, c, ab)
      PROVE  /\ UNCHANGED <<day, history, reads>>
             /\ req'[w].stage \notin {"find", "commit"}
             /\ \A v \in Worker : v # w => req'[v] = req[v]
  BY <1>1 DEF RewardRead
<1>2. ASSUME NEW w \in Worker, CreateSettings(w)
      PROVE  /\ UNCHANGED <<day, history, reads>>
             /\ req'[w].stage \notin {"find", "commit"}
             /\ \A v \in Worker : v # w => req'[v] = req[v]
  <2>1. UNCHANGED <<day, history, reads>>
    BY <1>2 DEF CreateSettings
  <2>2. \/ req' = [req EXCEPT ![w] = Idle]
        \/ \E s \in Setting : req' = [req EXCEPT ![w] = [@ EXCEPT !.stage = "update", !.row = s]]
        \/ req' = [req EXCEPT ![w].stage = "status"]
    BY <1>2 DEF CreateSettings
  <2>3. CASE req' = [req EXCEPT ![w] = Idle]
    BY <2>1, <2>3
  <2>4. CASE \E s \in Setting : req' = [req EXCEPT ![w] = [@ EXCEPT !.stage = "update", !.row = s]]
    BY <2>1, <2>4 DEF Request
  <2>5. CASE req' = [req EXCEPT ![w].stage = "status"]
    BY <2>1, <2>5 DEF Request
  <2> QED
    BY <2>2, <2>3, <2>4, <2>5
<1>3. ASSUME NEW w \in Worker, ReadStatus(w) \/ Distributed(w)
      PROVE  /\ UNCHANGED <<day, history, reads>>
             /\ req'[w].stage \notin {"find", "commit"}
             /\ \A v \in Worker : v # w => req'[v] = req[v]
  <2>1. UNCHANGED <<day, history, reads>>
    BY <1>3 DEF ReadStatus, Distributed
  <2>2. \/ req' = [req EXCEPT ![w] = Idle]
        \/ req' = [req EXCEPT ![w].stage = "count"]
        \/ req' = [req EXCEPT ![w] = [@ EXCEPT !.stage = "count", !.op = "unseen"]]
    BY <1>3 DEF ReadStatus, Distributed
  <2>3. CASE req' = [req EXCEPT ![w] = Idle]
    BY <2>1, <2>3
  <2>4. CASE req' = [req EXCEPT ![w].stage = "count"]
    BY <2>1, <2>4 DEF Request
  <2>5. CASE req' = [req EXCEPT ![w] = [@ EXCEPT !.stage = "count", !.op = "unseen"]]
    BY <2>1, <2>5 DEF Request
  <2> QED
    BY <2>2, <2>3, <2>4, <2>5
<1>4. ASSUME NEW w \in Worker,
             \/ AdminGetAdsSettings(w)
             \/ \E on \in BOOLEAN : AdminUpdateAdsSettings(w, on)
             \/ \E u \in User, ab \in BOOLEAN : AdsCheck(w, u, ab)
             \/ \E u \in User, n \in Amount : AdminManualPoints(w, u, n)
             \/ AdminDistributeRewards(w)
      PROVE  /\ UNCHANGED <<day, history, reads>>
             /\ req'[w].stage \notin {"find", "commit"}
             /\ \A v \in Worker : v # w => req'[v] = req[v]
  <2>1. UNCHANGED <<day, history, reads>>
    BY <1>4 DEF AdminGetAdsSettings, AdminUpdateAdsSettings, AdsCheck, AdminManualPoints,
                AdminDistributeRewards
  <2>2. /\ req'[w].stage \notin {"find", "commit"}
        /\ \A v \in Worker : v # w => req'[v] = req[v]
    <3>1. CASE AdminGetAdsSettings(w) \/ AdminDistributeRewards(w)
      BY <3>1 DEF AdminGetAdsSettings, AdminDistributeRewards
    <3>2. CASE \E on \in BOOLEAN : AdminUpdateAdsSettings(w, on)
      <4>1. PICK on \in BOOLEAN : AdminUpdateAdsSettings(w, on)
        BY <3>2
      <4>2. CASE req' = [req EXCEPT ![w] = [Idle EXCEPT !.stage = "create", !.op = "update",
                                                          !.value = on]]
        BY <4>2 DEF Idle, TypeOK
      <4>3. CASE \E s \in Setting :
                   req' = [req EXCEPT ![w] = [Idle EXCEPT !.stage = "update", !.op = "update",
                                                          !.value = on, !.row = s]]
        BY <4>3 DEF Idle, TypeOK
      <4> QED
        BY <4>1, <4>2, <4>3 DEF AdminUpdateAdsSettings
    <3>3. CASE \E u \in User, ab \in BOOLEAN : AdsCheck(w, u, ab)
      BY <3>3 DEF AdsCheck
    <3>4. CASE \E u \in User, n \in Amount : AdminManualPoints(w, u, n)
      BY <3>4 DEF AdminManualPoints
    <3> QED
      BY <1>4, <3>1, <3>2, <3>3, <3>4
  <2> QED
    BY <2>1, <2>2
<1>5. ASSUME NEW w \in Worker, UpdateSettings(w) \/ ReportAdblock(w) \/ LogPoints(w) \/ Abort(w)
      PROVE  /\ UNCHANGED <<day, history, reads>>
             /\ req'[w].stage \notin {"find", "commit"}
             /\ \A v \in Worker : v # w => req'[v] = req[v]
  <2>1. CASE UpdateSettings(w) \/ ReportAdblock(w) \/ Abort(w)
    <3>1. UNCHANGED <<day, history, reads>> /\ Finish(w)
      BY <2>1 DEF UpdateSettings, ReportAdblock, Abort
    <3> QED
      BY <3>1
  <2>2. CASE LogPoints(w)
    <3>1. UNCHANGED <<day, history, reads>> /\ (Finish(w) \/ Goto(w, "pay"))
      BY <2>2 DEF LogPoints
    <3> QED
      BY <3>1 DEF Request
  <2> QED
    BY <1>5, <2>1, <2>2
<1>6. ASSUME NEW w \in Worker, PayBonus(w)
      PROVE  /\ UNCHANGED <<day, history, reads>>
             /\ req'[w].stage \notin {"find", "commit"}
             /\ \A v \in Worker : v # w => req'[v] = req[v]
  BY <1>6 DEF PayBonus, Request
<1>7. ASSUME \/ \E u \in User : AdminResetPoints(u)
             \/ UNCHANGED vars
      PROVE  UNCHANGED <<day, history, reads, req>>
  BY <1>7 DEF AdminResetPoints, vars
<1> HIDE DEF TypeOK, tables, ghosts, Idle, Goto, Finish
<1> QED
  BY <1>1, <1>2, <1>3, <1>4, <1>5, <1>6, <1>7 DEF Next

\* No interleaving takes the day's rewards past the limit by more than the other
\* requests in progress.
LEMMA LimitNext == LimitInv /\ [Next]_vars => LimitInv'
<1> SUFFICES ASSUME LimitInv, [Next]_vars PROVE LimitInv'
  OBVIOUS
<1> DEFINE b == Limit - 1 + Cardinality(Worker)
<1>0. /\ TypeOK /\ TypeOK'
      /\ b \in Int /\ day \in Int /\ \A d \in Day : d \in Int
      /\ \A u \in User, d \in Day : /\ reads[u][d] \in Nat
                                    /\ d > day => reads[u][d] = 0
                                    /\ reads[u][d] + Cardinality(Counting(u, d)) <= b
      /\ \A u \in User, d \in Day : Counting(u, d) \in SUBSET Worker /\ Counting(u, d)' \in SUBSET Worker
      /\ \A w \in Worker : req[w].day \in Int
  <2>1. TypeOK /\ TypeOK' /\ Cardinality(Worker) \in Nat
    BY TypeNext, WorkerSets DEF LimitInv
  <2>2. /\ b \in Int /\ day \in Int /\ \A d \in Day : d \in Int
        /\ \A w \in Worker : req[w].day \in Int
    BY <2>1, RewardsAssumption DEF TypeOK, Day, Request
  <2>3. \A u \in User, d \in Day : reads[u][d] \in Nat
    BY <2>1 DEF TypeOK
  <2>4. \A u \in User, d \in Day : /\ d > day => reads[u][d] = 0
                                  /\ reads[u][d] + Cardinality(Counting(u, d)) <= b
    BY DEF LimitInv
  <2>5. \A u \in User, d \in Day :
           Counting(u, d) \in SUBSET Worker /\ Counting(u, d)' \in SUBSET Worker
    BY DEF Counting
  <2> QED
    BY <2>1, <2>2, <2>3, <2>4, <2>5
<1> HIDE DEF b
<1>s. SUFFICES ASSUME NEW u \in User, NEW d \in Day
               PROVE  /\ d > day' => reads'[u][d] = 0
                      /\ reads'[u][d] + Cardinality(Counting(u, d)') <= b
  BY <1>0 DEF LimitInv, b
<1>1. CASE /\ UNCHANGED <<day, history, reads>>
           /\ \A w \in Worker :
                 \/ req'[w].user = req[w].user /\ req'[w].stage = req[w].stage
                    /\ req'[w].day = req[w].day /\ req'[w].chapter = req[w].chapter
                 \/ req'[w].stage \notin {"find", "commit"}
  <2>1. Counting(u, d)' \in SUBSET Counting(u, d)
    BY <1>1 DEF Counting
  <2> QED
    BY <1>0, <1>1, <2>1, RoomKept
<1>2. ASSUME NEW w \in Worker, RewardCommit(w)
      PROVE  /\ d > day' => reads'[u][d] = 0
             /\ reads'[u][d] + Cardinality(Counting(u, d)') <= b
  <2>1. PICK e \in req[w].day .. day : reads' = [reads EXCEPT ![req[w].user][e] = @ + 1]
    BY <1>2 DEF RewardCommit
  <2>2. /\ day' = day /\ req'[w] = Idle /\ \A v \in Worker : v # w => req'[v] = req[v]
        /\ req[w].stage = "commit" /\ e \in Int /\ req[w].day <= e /\ e <= day
    BY <1>0, <1>2, <2>1 DEF RewardCommit, Finish, TypeOK
  <2>3. Counting(u, d)' \in SUBSET (Counting(u, d) \ {w})
    BY <2>2 DEF Counting, Idle
  <2>4. CASE u = req[w].user /\ d = e
    <3>1. w \in Counting(u, d) /\ reads'[u][d] = reads[u][d] + 1
      BY <1>0, <2>1, <2>2, <2>4 DEF Counting, TypeOK
    <3>2. reads'[u][d] + Cardinality(Counting(u, d)') <= b
      BY <1>0, <2>3, <3>1, RoomMoved
    <3> QED
      BY <1>0, <2>2, <2>4, <3>2
  <2>5. CASE ~(u = req[w].user /\ d = e)
    <3>1. reads'[u][d] = reads[u][d]
      BY <1>0, <2>1, <2>5 DEF TypeOK
    <3> QED
      BY <1>0, <2>2, <2>3, <3>1, RoomKept
  <2> QED
    BY <2>4, <2>5
<1>3. ASSUME NEW w \in Worker, CountReads(w)
      PROVE  /\ d > day' => reads'[u][d] = 0
             /\ reads'[u][d] + Cardinality(Counting(u, d)') <= b
  <2>1. UNCHANGED <<day, reads>> /\ \A v \in Worker : v # w => req'[v] = req[v]
    BY <1>0, <1>3 DEF CountReads, tables, Goto, Finish, TypeOK
  <2>2. CASE req'[w].stage = "idle"
    <3>1. Counting(u, d)' \in SUBSET Counting(u, d)
      BY <2>1, <2>2 DEF Counting
    <3> QED
      BY <1>0, <2>1, <3>1, RoomKept
  <2>3. CASE req'[w].stage # "idle"
    <3>1. req'[w].stage = "find" /\ req'[w].user = req[w].user /\ reads[req[w].user][day] < Limit
      BY <1>0, <1>3, <2>3 DEF CountReads, Goto, Finish, Idle, TypeOK, Request
    <3>2. CASE u = req[w].user /\ day <= d
      <4>1. reads[u][d] <= Limit - 1
        BY <1>0, <3>1, <3>2, RewardsAssumption
      <4>2. Cardinality(Counting(u, d)') <= Cardinality(Worker)
        BY <1>0, WorkerSets
      <4> QED
        BY <1>0, <2>1, <4>1, <4>2, WorkerSets, RewardsAssumption DEF b
    <3>3. CASE ~(u = req[w].user /\ day <= d)
      <4>1. Counting(u, d)' \in SUBSET Counting(u, d)
        BY <2>1, <3>1, <3>3 DEF Counting
      <4> QED
        BY <1>0, <2>1, <4>1, RoomKept
    <3> QED
      BY <3>2, <3>3
  <2> QED
    BY <2>2, <2>3
<1>4. ASSUME NEW w \in Worker, FindHistory(w)
      PROVE  /\ d > day' => reads'[u][d] = 0
             /\ reads'[u][d] + Cardinality(Counting(u, d)') <= b
  <2>1. /\ UNCHANGED <<day, reads>> /\ \A v \in Worker : v # w => req'[v] = req[v]
        /\ req[w].stage = "find"
    BY <1>0, <1>4 DEF FindHistory, tables, Finish, TypeOK
  <2>2. \/ req'[w].stage = "idle"
        \/ req'[w].stage = "commit" /\ req'[w].user = req[w].user /\ req'[w].day = day
    <3>1. CASE Finish(w)
      BY <1>0, <3>1 DEF Finish, Idle, TypeOK
    <3>2. CASE req' = [req EXCEPT ![w] = [@ EXCEPT !.stage = "commit", !.day = day]]
      BY <1>0, <3>2 DEF TypeOK, Request
    <3> QED
      BY <1>4, <3>1, <3>2 DEF FindHistory
  <2>3. Counting(u, d)' \in SUBSET Counting(u, d)
    BY <2>1, <2>2 DEF Counting
  <2> QED
    BY <1>0, <2>1, <2>3, RoomKept
<1>5. CASE NextDay
  <2>1. UNCHANGED <<reads, req>> /\ day' = day + 1
    BY <1>5 DEF NextDay, tables
  <2>2. Counting(u, d)' \in SUBSET Counting(u, d)
    BY <1>0, <2>1 DEF Counting
  <2> QED
    BY <1>0, <2>1, <2>2, RoomKept
<1> QED
  BY <1>0, <1>1, <1>2, <1>3, <1>4, <1>5, ReqStep

\* The daily limit is passed by at most the requests in progress less one, also
\* across midnight (reward.go:48-57, 90-110).
THEOREM DailyLimitHolds == Spec => []DailyLimit
<1>1. Init => LimitInv
  <2> SUFFICES ASSUME Init PROVE LimitInv
    OBVIOUS
  <2>1. \A u \in User, d \in Day : reads[u][d] = 0 /\ Counting(u, d) = {}
    BY DEF Init, Counting, Idle
  <2>2. Cardinality({}) = 0 /\ Cardinality(Worker) \in Nat
    BY WorkerSets, FS_EmptySet
  <2>3. 0 + 0 <= Limit - 1 + Cardinality(Worker)
    BY <2>2, RewardsAssumption
  <2> QED
    BY <2>1, <2>2, <2>3, TypeInit DEF LimitInv
<1>2. LimitInv => DailyLimit
  <2> SUFFICES ASSUME LimitInv, NEW u \in User, NEW d \in Day
               PROVE  reads[u][d] <= Limit - 1 + Cardinality(Worker)
    BY DEF DailyLimit
  <2>1. Counting(u, d) \in SUBSET Worker /\ reads[u][d] \in Nat
    BY DEF Counting, LimitInv, TypeOK
  <2> QED
    BY <2>1, WorkerSets, RewardsAssumption DEF LimitInv
<1> QED
  BY <1>1, <1>2, LimitNext, PTL DEF Spec

\* Only requests past the search for the history row add another row.
LEMMA ChapterNext == ChapterInv /\ [Next]_vars => ChapterInv'
<1> SUFFICES ASSUME ChapterInv, [Next]_vars PROVE ChapterInv'
  OBVIOUS
<1>0. TypeOK /\ TypeOK' /\ Cardinality(Worker) \in Int
  BY TypeNext, WorkerSets DEF ChapterInv
<1>s. SUFFICES ASSUME NEW u \in User, NEW c \in Chapter
               PROVE  history'[u][c] + Cardinality(Inserting(u, c)') <= Cardinality(Worker)
  BY <1>0 DEF ChapterInv
<1>a. /\ history[u][c] \in Nat /\ history'[u][c] \in Nat
      /\ history[u][c] + Cardinality(Inserting(u, c)) <= Cardinality(Worker)
      /\ Inserting(u, c) \in SUBSET Worker /\ Inserting(u, c)' \in SUBSET Worker
  BY <1>0 DEF ChapterInv, Inserting, TypeOK
<1>1. CASE /\ UNCHANGED history
           /\ \A w \in Worker :
                 \/ req'[w].user = req[w].user /\ req'[w].stage = req[w].stage
                    /\ req'[w].chapter = req[w].chapter
                 \/ req'[w].stage # "commit"
  <2>1. Inserting(u, c)' \in SUBSET Inserting(u, c)
    BY <1>1 DEF Inserting
  <2> QED
    BY <1>0, <1>a, <1>1, <2>1, RoomKept
<1>2. ASSUME NEW w \in Worker, RewardCommit(w)
      PROVE  history'[u][c] + Cardinality(Inserting(u, c)') <= Cardinality(Worker)
  <2>1. /\ history' = [history EXCEPT ![req[w].user][req[w].chapter] = @ + 1]
        /\ req'[w] = Idle /\ \A v \in Worker : v # w => req'[v] = req[v]
        /\ req[w].stage = "commit"
    BY <1>0, <1>2 DEF RewardCommit, Finish, TypeOK
  <2>2. Inserting(u, c)' \in SUBSET (Inserting(u, c) \ {w})
    BY <2>1 DEF Inserting, Idle
  <2>3. CASE u = req[w].user /\ c = req[w].chapter
    <3>1. w \in Inserting(u, c) /\ history'[u][c] = history[u][c] + 1
      BY <1>0, <2>1, <2>3 DEF Inserting, TypeOK
    <3> QED
      BY <1>0, <1>a, <2>2, <3>1, RoomMoved
  <2>4. CASE ~(u = req[w].user /\ c = req[w].chapter)
    <3>1. history'[u][c] = history[u][c]
      BY <1>0, <2>1, <2>4 DEF TypeOK
    <3> QED
      BY <1>0, <1>a, <2>2, <3>1, RoomKept
  <2> QED
    BY <2>3, <2>4
<1>3. ASSUME NEW w \in Worker, FindHistory(w)
      PROVE  history'[u][c] + Cardinality(Inserting(u, c)') <= Cardinality(Worker)
  <2>1. /\ history' = history /\ \A v \in Worker : v # w => req'[v] = req[v]
        /\ \/ req'[w].stage = "idle"
           \/ /\ req'[w].user = req[w].user /\ req'[w].chapter = req[w].chapter
              /\ history[req[w].user][req[w].chapter] = 0
    <3>1. history' = history
      BY <1>3 DEF FindHistory, tables
    <3>2. CASE Finish(w)
      BY <1>0, <3>1, <3>2 DEF Finish, Idle, TypeOK
    <3>3. CASE /\ req' = [req EXCEPT ![w] = [@ EXCEPT !.stage = "commit", !.day = day]]
               /\ history[req[w].user][req[w].chapter] = 0
      BY <1>0, <3>1, <3>3 DEF TypeOK, Request
    <3> QED
      BY <1>3, <3>2, <3>3 DEF FindHistory
  <2>2. CASE history[u][c] = 0
    BY <1>a, <2>1, <2>2, WorkerSets
  <2>3. CASE history[u][c] # 0
    <3>1. Inserting(u, c)' \in SUBSET Inserting(u, c)
      BY <2>1, <2>3 DEF Inserting
    <3> QED
      BY <1>0, <1>a, <2>1, <3>1, RoomKept
  <2> QED
    BY <2>2, <2>3
<1>4. ASSUME NEW w \in Worker, CountReads(w)
      PROVE  /\ UNCHANGED history
             /\ \A v \in Worker : req'[v] = req[v] \/ req'[v].stage # "commit"
  BY <1>0, <1>4 DEF CountReads, tables, Goto, Finish, Idle, TypeOK, Request
<1>5. ASSUME NextDay PROVE UNCHANGED <<history, req>>
  BY <1>5 DEF NextDay, tables
<1> QED
  BY <1>0, <1>1, <1>2, <1>3, <1>4, <1>5, ReqStep

\* A user is rewarded for a chapter at most once for each request in progress
\* (reward.go:61-88).
THEOREM ChapterLimitHolds == Spec => []ChapterLimit
<1>1. Init => ChapterInv
  <2> SUFFICES ASSUME Init PROVE ChapterInv
    OBVIOUS
  <2>1. \A u \in User, c \in Chapter : history[u][c] = 0 /\ Inserting(u, c) = {}
    BY DEF Init, Inserting, Idle
  <2>2. Cardinality({}) = 0 /\ Cardinality(Worker) \in Nat
    BY WorkerSets, FS_EmptySet
  <2>3. \A u \in User, c \in Chapter : Cardinality(Inserting(u, c)) = 0
    BY <2>1, <2>2
  <2> QED
    BY <2>1, <2>2, <2>3, TypeInit DEF ChapterInv
<1>2. ChapterInv => ChapterLimit
  <2> SUFFICES ASSUME ChapterInv, NEW u \in User, NEW c \in Chapter
               PROVE  history[u][c] <= Cardinality(Worker)
    BY DEF ChapterLimit
  <2>1. Inserting(u, c) \in SUBSET Worker /\ history[u][c] \in Nat
    BY DEF Inserting, ChapterInv, TypeOK
  <2> QED
    BY <2>1, WorkerSets DEF ChapterInv
<1> QED
  BY <1>1, <1>2, ChapterNext, PTL DEF Spec

\* A step that neither rewards nor lets a blocked user's request past the check.
LEMMA BlockQuiet ==
  ASSUME BlockInv, TypeOK',
         \A u \in User : Blocking(u)' =>
            \/ blocked'[u] = 0
            \/ /\ Blocking(u) /\ blocked'[u] = blocked[u]
               /\ PastReport(u)' \subseteq PastReport(u)
  PROVE  BlockInv'
<1> SUFFICES ASSUME NEW u \in User, Blocking(u)'
             PROVE  blocked'[u] + Cardinality(PastReport(u)') <= Cardinality(Worker)
  BY DEF BlockInv
<1>1. PastReport(u)' \in SUBSET Worker /\ PastReport(u) \in SUBSET Worker /\ Cardinality(Worker) \in Int
  BY WorkerSets DEF PastReport
<1>2. CASE blocked'[u] = 0
  BY <1>1, <1>2, WorkerSets
<1>3. CASE blocked'[u] # 0
  <2>1. blocked[u] \in Nat /\ blocked[u] + Cardinality(PastReport(u)) <= Cardinality(Worker)
    BY <1>3 DEF BlockInv, TypeOK
  <2> QED
    BY <1>1, <1>3, <2>1, RoomKept
<1> QED
  BY <1>2, <1>3

\* Past the report means rewarded at most once more.
LEMMA BlockNext == BlockInv /\ [Next]_vars => BlockInv'
<1> SUFFICES ASSUME BlockInv, [Next]_vars PROVE BlockInv'
  OBVIOUS
<1>0. TypeOK /\ TypeOK'
  BY TypeNext DEF BlockInv
<1>1. ASSUME UNCHANGED <<settings, adblock, blocked>>,
             \A u \in User : Blocking(u) => PastReport(u)' \subseteq PastReport(u)
      PROVE  BlockInv'
  <2>1. \A u \in User : Blocking(u)' <=> Blocking(u)
    BY <1>1 DEF Blocking, AdsOff, IsFirst
  <2> QED
    BY <1>0, <1>1, <2>1, BlockQuiet
<1>2. ASSUME CountBlocked, \A u \in User : PastReport(u)' \subseteq PastReport(u)
      PROVE  BlockInv'
  <2>1. \A u \in User : Blocking(u)' => blocked'[u] = 0 \/ (Blocking(u) /\ blocked'[u] = blocked[u])
    BY <1>2 DEF CountBlocked
  <2> QED
    BY <1>0, <1>2, <2>1, BlockQuiet
<1>3. ASSUME NEW w \in Worker, NEW u \in User, NEW c \in Chapter, NEW ab \in BOOLEAN,
             RewardRead(w, u, c, ab)
      PROVE  BlockInv'
  <2>1. /\ UNCHANGED <<settings, adblock, blocked>> /\ \A v \in Worker : v # w => req'[v] = req[v]
        /\ ~AdsOff => req'[w].stage \notin {"count", "find", "commit"}
    BY <1>0, <1>3 DEF RewardRead, tables, ghosts, TypeOK, Idle
  <2>2. \A x \in User : Blocking(x) => PastReport(x)' \subseteq PastReport(x)
    BY <2>1 DEF PastReport, Blocking
  <2> QED
    BY <1>1, <2>1, <2>2
<1>4. ASSUME NEW w \in Worker, CreateSettings(w) \/ UpdateSettings(w) \/ ReportAdblock(w)
      PROVE  BlockInv'
  <2>1. CountBlocked /\ \A v \in Worker : v # w => req'[v] = req[v]
    BY <1>0, <1>4 DEF CreateSettings, UpdateSettings, ReportAdblock, Goto, Finish, TypeOK
  <2>2. req'[w].stage \notin {"count", "find", "commit"}
    <3>1. CASE CreateSettings(w)
      <4>1. \/ req' = [req EXCEPT ![w] = Idle]
            \/ \E s \in Setting :
                  req' = [req EXCEPT ![w] = [@ EXCEPT !.stage = "update", !.row = s]]
            \/ req' = [req EXCEPT ![w].stage = "status"]
        BY <3>1 DEF CreateSettings, Goto, Finish
      <4>2. CASE req' = [req EXCEPT ![w] = Idle]
        BY <1>0, <4>2 DEF Idle, TypeOK
      <4>3. CASE \E s \in Setting :
                   req' = [req EXCEPT ![w] = [@ EXCEPT !.stage = "update", !.row = s]]
        BY <1>0, <4>3 DEF TypeOK, Request
      <4>4. CASE req' = [req EXCEPT ![w].stage = "status"]
        BY <1>0, <4>4 DEF TypeOK, Request
      <4> QED
        BY <4>1, <4>2, <4>3, <4>4
    <3>2. CASE UpdateSettings(w) \/ ReportAdblock(w)
      <4>1. Finish(w)
        BY <3>2 DEF UpdateSettings, ReportAdblock
      <4> QED
        BY <1>0, <4>1 DEF Finish, Idle, TypeOK
    <3> QED
      BY <1>4, <3>1, <3>2
  <2>3. \A x \in User : PastReport(x)' \subseteq PastReport(x)
    BY <2>1, <2>2 DEF PastReport
  <2> QED
    BY <1>2, <2>1, <2>3
<1>5. ASSUME NEW w \in Worker, ReadStatus(w) PROVE BlockInv'
  <2>1. UNCHANGED <<settings, adblock, blocked>>
    BY <1>5 DEF ReadStatus, tables, ghosts
  <2>2. \/ req' = [req EXCEPT ![w] = Idle]
        \/ adblock[req[w].user] # "yes" /\ req' = [req EXCEPT ![w].stage = "count"]
        \/ req' = [req EXCEPT ![w] = [@ EXCEPT !.stage = "count", !.op = "unseen"]]
    BY <1>5 DEF ReadStatus, Goto, Finish
  <2>3. /\ \A v \in Worker : v # w => req'[v] = req[v]
        /\ \/ req'[w].stage = "idle"
           \/ req'[w].user = req[w].user /\ adblock[req[w].user] # "yes"
           \/ req'[w].op = "unseen"
    <3>1. CASE req' = [req EXCEPT ![w] = Idle]
      BY <1>0, <3>1 DEF Idle, TypeOK
    <3>2. CASE adblock[req[w].user] # "yes" /\ req' = [req EXCEPT ![w].stage = "count"]
      BY <1>0, <3>2 DEF TypeOK, Request
    <3>3. CASE req' = [req EXCEPT ![w] = [@ EXCEPT !.stage = "count", !.op = "unseen"]]
      BY <1>0, <3>3 DEF TypeOK, Request
    <3> QED
      BY <2>2, <3>1, <3>2, <3>3
  <2>4. \A x \in User : Blocking(x) => PastReport(x)' \subseteq PastReport(x)
    BY <2>3 DEF PastReport, Blocking
  <2> QED
    BY <1>1, <2>1, <2>4
<1>6. ASSUME NEW w \in Worker, CountReads(w) \/ FindHistory(w) PROVE BlockInv'
  <2>1. /\ UNCHANGED <<settings, adblock, blocked>> /\ \A v \in Worker : v # w => req'[v] = req[v]
        /\ req[w].stage \in {"count", "find"}
    BY <1>0, <1>6 DEF CountReads, FindHistory, tables, ghosts, Goto, Finish, TypeOK
  <2>2. \/ req'[w].stage = "idle"
        \/ req'[w].user = req[w].user /\ req'[w].op = req[w].op
    <3>1. \/ req' = [req EXCEPT ![w] = Idle]
          \/ req' = [req EXCEPT ![w].stage = "find"]
          \/ req' = [req EXCEPT ![w] = [@ EXCEPT !.stage = "commit", !.day = day]]
      BY <1>6 DEF CountReads, FindHistory, Goto, Finish
    <3>2. CASE req' = [req EXCEPT ![w] = Idle]
      BY <1>0, <3>2 DEF Idle, TypeOK
    <3>3. CASE req' = [req EXCEPT ![w].stage = "find"]
      BY <1>0, <3>3 DEF TypeOK, Request
    <3>4. CASE req' = [req EXCEPT ![w] = [@ EXCEPT !.stage = "commit", !.day = day]]
      BY <1>0, <3>4 DEF TypeOK, Request
    <3> QED
      BY <3>1, <3>2, <3>3, <3>4
  <2>3. \A x \in User : PastReport(x)' \subseteq PastReport(x)
    BY <2>1, <2>2 DEF PastReport
  <2> QED
    BY <1>1, <2>1, <2>3
<1>7. ASSUME NEW w \in Worker, RewardCommit(w) PROVE BlockInv'
  <2>1. /\ UNCHANGED <<settings, adblock>> /\ req'[w] = Idle
        /\ \A v \in Worker : v # w => req'[v] = req[v]
        /\ req[w].stage = "commit" /\ req[w].user \in User
        /\ blocked' = [blocked EXCEPT ![req[w].user] = 
                                 @ + IF Blocking(req[w].user) /\ req[w].op # "unseen" THEN 1 ELSE 0]
    BY <1>0, <1>7 DEF RewardCommit, Finish, TypeOK, RequestOK
  <2>2. \A x \in User : Blocking(x)' <=> Blocking(x)
    BY <2>1 DEF Blocking, AdsOff, IsFirst
  <2> SUFFICES ASSUME NEW x \in User, Blocking(x)
               PROVE  blocked'[x] + Cardinality(PastReport(x)') <= Cardinality(Worker)
    BY <1>0, <2>2 DEF BlockInv
  <2>3. /\ PastReport(x) \in SUBSET Worker /\ PastReport(x)' \in SUBSET (PastReport(x) \ {w})
        /\ blocked[x] \in Nat /\ blocked'[x] \in Nat /\ Cardinality(Worker) \in Int
        /\ blocked[x] + Cardinality(PastReport(x)) <= Cardinality(Worker)
    BY <1>0, <2>1, WorkerSets DEF PastReport, Idle, TypeOK, BlockInv
  <2>4. CASE x = req[w].user /\ req[w].op # "unseen"
    <3>1. w \in PastReport(x) /\ blocked'[x] = blocked[x] + 1
      BY <1>0, <2>1, <2>4 DEF PastReport, TypeOK
    <3> QED
      BY <2>3, <3>1, RoomMoved
  <2>5. CASE x # req[w].user \/ req[w].op = "unseen"
    <3>1. blocked'[x] = blocked[x]
      BY <1>0, <2>1, <2>5 DEF TypeOK
    <3> QED
      BY <2>3, <3>1, RoomKept
  <2> QED
    BY <2>4, <2>5
<1>8. ASSUME NEW w \in Worker,
             \/ AdminGetAdsSettings(w)
             \/ \E on \in BOOLEAN : AdminUpdateAdsSettings(w, on)
             \/ \E u \in User, ab \in BOOLEAN : AdsCheck(w, u, ab)
             \/ \E u \in User, n \in Amount : AdminManualPoints(w, u, n)
             \/ AdminDistributeRewards(w)
      PROVE  BlockInv'
  <2>1. /\ UNCHANGED <<settings, adblock, blocked>> /\ \A v \in Worker : v # w => req'[v] = req[v]
        /\ req'[w].stage \notin {"count", "find", "commit"}
    <3>1. UNCHANGED <<settings, adblock, blocked>>
      BY <1>8 DEF AdminGetAdsSettings, AdminUpdateAdsSettings, AdsCheck, AdminManualPoints,
                  AdminDistributeRewards, tables, ghosts
    <3>2. /\ req'[w].stage \notin {"count", "find", "commit"}
          /\ \A v \in Worker : v # w => req'[v] = req[v]
      <4>1. CASE AdminGetAdsSettings(w) \/ AdminDistributeRewards(w)
        <5>1. CASE AdminGetAdsSettings(w)
          BY <1>0, <5>1 DEF AdminGetAdsSettings, Idle, TypeOK
        <5>2. CASE AdminDistributeRewards(w)
          BY <1>0, <5>2 DEF AdminDistributeRewards, Idle, TypeOK
        <5> QED
          BY <4>1, <5>1, <5>2
      <4>2. CASE \E on \in BOOLEAN : AdminUpdateAdsSettings(w, on)
        <5>1. PICK on \in BOOLEAN : AdminUpdateAdsSettings(w, on)
          BY <4>2
        <5>2. CASE req' = [req EXCEPT ![w] = [Idle EXCEPT !.stage = "create", !.op = "update",
                                                            !.value = on]]
          BY <1>0, <5>2 DEF Idle, TypeOK
        <5>3. CASE \E s \in Setting :
                     req' = [req EXCEPT ![w] = [Idle EXCEPT !.stage = "update", !.op = "update",
                                                            !.value = on, !.row = s]]
          BY <1>0, <5>3 DEF Idle, TypeOK
        <5> QED
          BY <5>1, <5>2, <5>3 DEF AdminUpdateAdsSettings
      <4>3. CASE \E u \in User, ab \in BOOLEAN : AdsCheck(w, u, ab)
        <5>1. PICK u \in User, ab \in BOOLEAN : AdsCheck(w, u, ab)
          BY <4>3
        <5>2. PICK b : b = (adblock[u] # "none")
          OBVIOUS
        <5>3. req' = [req EXCEPT ![w] = [Idle EXCEPT !.stage = "report", !.user = u,
                                                       !.value = ab, !.found = b]]
          BY <5>1, <5>2 DEF AdsCheck
        <5> QED
          BY <1>0, <5>3 DEF Idle, TypeOK
      <4>4. CASE \E u \in User, n \in Amount : AdminManualPoints(w, u, n)
        BY <1>0, <4>4 DEF AdminManualPoints, Idle, TypeOK
      <4> QED
        BY <1>8, <4>1, <4>2, <4>3, <4>4
    <3> QED
      BY <3>1, <3>2
  <2>2. \A x \in User : PastReport(x)' \subseteq PastReport(x)
    BY <2>1 DEF PastReport
  <2> QED
    BY <1>1, <2>1, <2>2
<1>9. ASSUME NEW w \in Worker, PayBonus(w) \/ LogPoints(w) \/ Distributed(w) \/ Abort(w)
      PROVE  BlockInv'
  <2>1. UNCHANGED <<settings, adblock, blocked>> /\ \A v \in Worker : v # w => req'[v] = req[v]
    BY <1>0, <1>9 DEF PayBonus, LogPoints, Distributed, Abort, tables, ghosts, Goto, Finish, TypeOK
  <2>2. req'[w].stage \notin {"count", "find", "commit"}
    <3>1. CASE PayBonus(w)
      BY <1>0, <3>1 DEF PayBonus, TypeOK, Request
    <3>2. CASE LogPoints(w) \/ Distributed(w) \/ Abort(w)
      <4>1. Finish(w) \/ Goto(w, "pay")
        BY <3>2 DEF LogPoints, Distributed, Abort
      <4> QED
        BY <1>0, <4>1 DEF Finish, Goto, Idle, TypeOK, Request
    <3> QED
      BY <1>9, <3>1, <3>2
  <2>3. \A x \in User : PastReport(x)' \subseteq PastReport(x)
    BY <2>1, <2>2 DEF PastReport
  <2> QED
    BY <1>1, <2>1, <2>3
<1>10. CASE NextDay \/ (\E u \in User : AdminResetPoints(u)) \/ UNCHANGED vars
  <2>1. UNCHANGED <<settings, adblock, blocked, req>>
    BY <1>10 DEF NextDay, AdminResetPoints, vars, tables, ghosts
  <2>2. \A x \in User : PastReport(x)' \subseteq PastReport(x)
    BY <2>1 DEF PastReport
  <2> QED
    BY <1>1, <2>1, <2>2
<1> QED
  BY <1>3, <1>4, <1>5, <1>6, <1>7, <1>8, <1>9, <1>10 DEF Next

\* A user shut out for an ad blocker is rewarded at most once more for each
\* request in progress (reward.go:36-46).
THEOREM AdblockHolds == Spec => []AdblockStopsRewards
<1>1. Init => BlockInv
  BY TypeInit DEF Init, BlockInv, Blocking
<1>2. BlockInv => AdblockStopsRewards
  <2> SUFFICES ASSUME BlockInv, NEW u \in User, Blocking(u)
               PROVE  blocked[u] <= Cardinality(Worker)
    BY DEF AdblockStopsRewards
  <2>1. PastReport(u) \in SUBSET Worker /\ blocked[u] \in Nat
    BY DEF PastReport, BlockInv, TypeOK
  <2> QED
    BY <2>1, WorkerSets DEF BlockInv
<1> QED
  BY <1>1, <1>2, BlockNext, PTL DEF Spec

-----------------------------------------------------------------------------
(***************************************************************************)
(* The ledger.  Each step changes the balance, the log and what is owed of *)
(* a user by amounts that add up, or it is one that loses a statement.     *)
(***************************************************************************)

\* The amounts of the requests, and the payment to u that one of them is to log.
Payments  == [w \in Worker |-> req[w].amount]
Due(w, u) == IF w \in Logging(u) THEN req[w].amount ELSE 0

LedgerInv == TypeOK /\ LedgerMatches

\* When one request moves on, what is owed changes by its payment.
LEMMA OwedStep ==
  ASSUME TypeOK, TypeOK', NEW w \in Worker, \A v \in Worker : v # w => req'[v] = req[v],
         NEW u \in User
  PROVE  /\ Owed(u) \in Int /\ Due(w, u) \in Int /\ Due(w, u)' \in Int
         /\ Owed(u)' = Owed(u) - Due(w, u) + Due(w, u)'
<1> PICK f : f = Payments
  OBVIOUS
<1> PICK h : h = Payments'
  OBVIOUS
<1>1. \A v \in Worker : f[v] = req[v].amount /\ f[v] \in Int /\ h[v] = req'[v].amount /\ h[v] \in Int
  BY DEF Payments, TypeOK, Request
<1> PICK S : S = Logging(u)
  OBVIOUS
<1> PICK T : T = Logging(u)'
  OBVIOUS
<1>2. S \in SUBSET Worker /\ T \in SUBSET Worker /\ S \ {w} = T \ {w}
  BY DEF Logging
<1>3. Owed(u) = SumFunctionOnSet(f, S) /\ Owed(u)' = SumFunctionOnSet(h, T)
  BY DEF Owed, Payments
<1>4. \A Q \in SUBSET Worker : IsFiniteSet(Q) /\ IntOn(f, Q) /\ IntOn(h, Q)
  BY <1>1, WorkerSets DEF IntOn
<1>5. SumFunctionOnSet(f, S \ {w}) = SumFunctionOnSet(h, T \ {w})
  <2>1. \A v \in S \ {w} : f[v] = h[v]
    BY <1>1, <1>2
  <2> QED
    BY <1>2, <1>4, <2>1, SumSame
<1>6. SumFunctionOnSet(f, S \ {w}) \in Int
  BY <1>2, <1>4, SumType
<1>7. SumFunctionOnSet(f, S) = SumFunctionOnSet(f, S \ {w}) + Due(w, u) /\ Due(w, u) \in Int
  <2>1. CASE w \in S
    <3>1. Due(w, u) = f[w] /\ f[w] \in Int
      BY <1>1, <2>1 DEF Due
    <3>2. SumFunctionOnSet(f, S) = f[w] + SumFunctionOnSet(f, S \ {w})
      BY <1>2, <1>4, <2>1, SumOut
    <3> QED
      BY <1>6, <3>1, <3>2
  <2>2. CASE w \notin S
    <3>1. S \ {w} = S
      BY <2>2
    <3>2. Due(w, u) = 0
      BY <2>2 DEF Due
    <3> PICK k \in Int : k = SumFunctionOnSet(f, S \ {w})
      BY <1>6
    <3>3. k = SumFunctionOnSet(f, S)
      BY ONLY <3>1, k = SumFunctionOnSet(f, S \ {w}), Zenon
    <3>4. k = k + Due(w, u) /\ Due(w, u) \in Int
      BY ONLY <3>2, k \in Int
    <3> QED
      BY ONLY <3>3, <3>4, k = SumFunctionOnSet(f, S \ {w}), Zenon
  <2> QED
    BY <2>1, <2>2
<1>8. SumFunctionOnSet(h, T) = SumFunctionOnSet(h, T \ {w}) + Due(w, u)' /\ Due(w, u)' \in Int
  <2>1. CASE w \in T
    <3>1. Due(w, u)' = h[w] /\ h[w] \in Int
      BY <1>1, <2>1 DEF Due
    <3>2. SumFunctionOnSet(h, T) = h[w] + SumFunctionOnSet(h, T \ {w})
      BY <1>2, <1>4, <2>1, SumOut
    <3> QED
      BY <1>5, <1>6, <3>1, <3>2
  <2>2. CASE w \notin T
    <3>1. T \ {w} = T
      BY <2>2
    <3>2. Due(w, u)' = 0
      BY <2>2 DEF Due
    <3> PICK k \in Int : k = SumFunctionOnSet(h, T \ {w})
      BY <1>5, <1>6
    <3>3. k = SumFunctionOnSet(h, T)
      BY ONLY <3>1, k = SumFunctionOnSet(h, T \ {w}), Zenon
    <3>4. k = k + Due(w, u)' /\ Due(w, u)' \in Int
      BY ONLY <3>2, k \in Int
    <3> QED
      BY ONLY <3>3, <3>4, k = SumFunctionOnSet(h, T \ {w}), Zenon
  <2> QED
    BY <2>1, <2>2
<1> QED
  BY <1>3, <1>5, <1>6, <1>7, <1>8

\* One request moves on; balance, log and what is owed of each user go up and down together.
LEMMA LedgerKept ==
  ASSUME LedgerInv, TypeOK', NEW w \in Worker, \A v \in Worker : v # w => req'[v] = req[v],
         \A u \in User : ~dirty'[u] =>
            ~dirty[u] /\ points'[u] - logged'[u] - Due(w, u)' = points[u] - logged[u] - Due(w, u)
  PROVE  LedgerInv'
<1> SUFFICES ASSUME NEW u \in User, ~dirty'[u] PROVE points'[u] = logged'[u] + Owed(u)'
  BY DEF LedgerInv, LedgerMatches
<1>1. /\ points[u] \in Int /\ logged[u] \in Int /\ points'[u] \in Int /\ logged'[u] \in Int
      /\ Owed(u) \in Int /\ Due(w, u) \in Int /\ Due(w, u)' \in Int
      /\ Owed(u)' = Owed(u) - Due(w, u) + Due(w, u)'
  BY OwedStep DEF LedgerInv, TypeOK
<1>2. PICK p \in Int, l \in Int, o \in Int, d \in Int, e \in Int, q \in Int, m \in Int :
        /\ p = points[u] /\ l = logged[u] /\ o = Owed(u) /\ d = Due(w, u)
        /\ e = Due(w, u)' /\ q = points'[u] /\ m = logged'[u]
  BY <1>1
<1>3. p = l + o /\ q - m - e = p - l - d
  BY <1>2 DEF LedgerInv, LedgerMatches
<1>4. q = m + (o - d + e)
  BY <1>3
<1> QED
  BY <1>1, <1>2, <1>4

\* Every statement books what it pays, or says that it lost it.
LEMMA LedgerNext == LedgerInv /\ [Next]_vars => LedgerInv'
<1> SUFFICES ASSUME LedgerInv, [Next]_vars PROVE LedgerInv'
  OBVIOUS
<1>0. /\ TypeOK /\ TypeOK'
      /\ points \in [User -> Int] /\ logged \in [User -> Int] /\ dirty \in [User -> BOOLEAN]
      /\ req \in [Worker -> Request] /\ \A u \in User : points[u] \in Int /\ logged[u] \in Int
      /\ \A w \in Worker : req[w].stage = "log" => req[w].user \in User /\ req[w].amount \in Int
  BY TypeNext DEF LedgerInv, TypeOK, RequestOK, Request
<1>1. ASSUME NEW w \in Worker, \A v \in Worker : v # w => req'[v] = req[v],
             req[w].stage # "log", req'[w].stage # "log", UNCHANGED <<points, logged, dirty>>
      PROVE  LedgerInv'
  <2>1. \A u \in User : Due(w, u) = 0 /\ Due(w, u)' = 0
    BY <1>1 DEF Due, Logging
  <2> QED
    BY <1>0, <1>1, <2>1, LedgerKept
<1>2. ASSUME NEW w \in Worker,
             \/ \E u \in User, c \in Chapter, ab \in BOOLEAN : RewardRead(w, u, c, ab)
             \/ AdminGetAdsSettings(w)
             \/ \E on \in BOOLEAN : AdminUpdateAdsSettings(w, on)
             \/ \E u \in User, ab \in BOOLEAN : AdsCheck(w, u, ab)
             \/ AdminDistributeRewards(w)
      PROVE  LedgerInv'
  <2>1. UNCHANGED <<points, logged, dirty>> /\ req[w].stage = "idle"
    BY <1>2 DEF RewardRead, AdminGetAdsSettings, AdminUpdateAdsSettings, AdsCheck,
                AdminDistributeRewards, tables, ghosts
  <2>2. PICK q : req' = [req EXCEPT ![w] = q] /\ q.stage # "log"
    <3>1. CASE \E u \in User, c \in Chapter, ab \in BOOLEAN : RewardRead(w, u, c, ab)
      <4>1. PICK u \in User, c \in Chapter, ab \in BOOLEAN, s \in {"create", "status", "count"} :
              req' = [req EXCEPT ![w] = [Idle EXCEPT !.stage = s, !.op = "reward", !.user = u,
                                                     !.chapter = c, !.value = ab]]
        BY <3>1 DEF RewardRead
      <4>2. [Idle EXCEPT !.stage = s, !.op = "reward", !.user = u, !.chapter = c,
                         !.value = ab].stage # "log"
        BY DEF Idle
      <4> QED
        BY <4>1, <4>2
    <3>2. CASE AdminGetAdsSettings(w) \/ AdminDistributeRewards(w)
      <4>1. /\ [Idle EXCEPT !.stage = "create", !.op = "get"].stage # "log"
            /\ [Idle EXCEPT !.stage = "pay", !.todo = {u \in User : day \in readOn[u]}].stage # "log"
        BY DEF Idle
      <4> QED
        BY <3>2, <4>1 DEF AdminGetAdsSettings, AdminDistributeRewards
    <3>3. CASE \E on \in BOOLEAN : AdminUpdateAdsSettings(w, on)
      <4>1. PICK on \in BOOLEAN : AdminUpdateAdsSettings(w, on)
        BY <3>3
      <4>2. /\ [Idle EXCEPT !.stage = "create", !.op = "update", !.value = on].stage # "log"
            /\ \A s \in Setting : [Idle EXCEPT !.stage = "update", !.op = "update",
                                               !.value = on, !.row = s].stage # "log"
        BY DEF Idle
      <4> QED
        BY <4>1, <4>2 DEF AdminUpdateAdsSettings
    <3>4. CASE \E u \in User, ab \in BOOLEAN : AdsCheck(w, u, ab)
      <4>1. PICK u \in User, ab \in BOOLEAN : AdsCheck(w, u, ab)
        BY <3>4
      <4>2. [Idle EXCEPT !.stage = "report", !.user = u, !.value = ab,
                         !.found = adblock[u] # "none"].stage # "log"
        BY DEF Idle
      <4> QED
        BY <4>1, <4>2 DEF AdsCheck
    <3> QED
      BY <1>2, <3>1, <3>2, <3>3, <3>4
  <2>3. req'[w] = q /\ \A v \in Worker : v # w => req'[v] = req[v]
    BY <1>0, <2>2
  <2> QED
    BY <1>1, <2>1, <2>2, <2>3
<1>3. ASSUME NEW w \in Worker,
             \/ CreateSettings(w) \/ ReadStatus(w) \/ CountReads(w) \/ FindHistory(w)
             \/ UpdateSettings(w) \/ ReportAdblock(w) \/ Distributed(w)
      PROVE  LedgerInv'
  <2>1. UNCHANGED <<points, logged, dirty>> /\ req[w].stage # "log"
    BY <1>3 DEF CreateSettings, ReadStatus, CountReads, FindHistory, UpdateSettings, ReportAdblock,
                Distributed, tables, ghosts
  <2>2. \/ Finish(w)
        \/ \E s \in Stage \ {"log"} : Goto(w, s)
        \/ \E s \in Setting : req' = [req EXCEPT ![w] = [@ EXCEPT !.stage = "update", !.row = s]]
        \/ req' = [req EXCEPT ![w] = [@ EXCEPT !.stage = "count", !.op = "unseen"]]
        \/ req' = [req EXCEPT ![w] = [@ EXCEPT !.stage = "commit", !.day = day]]
    BY <1>3 DEF CreateSettings, ReadStatus, CountReads, FindHistory, UpdateSettings, ReportAdblock,
                Distributed, Stage
  <2>3. req'[w].stage # "log"
    <3>1. CASE Finish(w)
      BY <1>0, <3>1 DEF Finish, Idle
    <3>2. CASE \E s \in Stage \ {"log"} : Goto(w, s)
      BY <1>0, <3>2 DEF Goto, Request
    <3>3. CASE \E s \in Setting : req' = [req EXCEPT ![w] = [@ EXCEPT !.stage = "update", !.row = s]]
      BY <1>0, <3>3 DEF Request
    <3>4. CASE req' = [req EXCEPT ![w] = [@ EXCEPT !.stage = "count", !.op = "unseen"]]
      BY <1>0, <3>4 DEF Request
    <3>5. CASE req' = [req EXCEPT ![w] = [@ EXCEPT !.stage = "commit", !.day = day]]
      BY <1>0, <3>5 DEF Request
    <3> QED
      BY <2>2, <3>1, <3>2, <3>3, <3>4, <3>5
  <2>4. \A v \in Worker : v # w => req'[v] = req[v]
    BY <1>0, <2>2 DEF Finish, Goto
  <2> QED
    BY <1>1, <2>1, <2>3, <2>4
<1>4. ASSUME NEW w \in Worker, RewardCommit(w) PROVE LedgerInv'
  <2>1. /\ points' = [points EXCEPT ![req[w].user] = @ + 1]
        /\ logged' = [logged EXCEPT ![req[w].user] = @ + 1]
        /\ dirty' = dirty /\ req[w].stage = "commit"
        /\ req'[w] = Idle /\ \A v \in Worker : v # w => req'[v] = req[v]
    BY <1>0, <1>4 DEF RewardCommit, Finish
  <2>2. \A u \in User : Due(w, u) = 0 /\ Due(w, u)' = 0
    BY <2>1 DEF Due, Logging, Idle
  <2>3. \A u \in User : points'[u] - logged'[u] = points[u] - logged[u]
    BY <1>0, <2>1
  <2> QED
    BY <1>0, <2>1, <2>2, <2>3, LedgerKept
<1>5. ASSUME NEW w \in Worker, NEW u \in User, NEW n \in Amount, AdminManualPoints(w, u, n)
      PROVE  LedgerInv'
  <2>1. /\ points' = [points EXCEPT ![u] = @ + n]
        /\ logged' = logged /\ dirty' = dirty /\ req[w].stage = "idle"
        /\ req'[w] = [Idle EXCEPT !.stage = "log", !.user = u, !.amount = n]
        /\ \A v \in Worker : v # w => req'[v] = req[v]
    BY <1>0, <1>5 DEF AdminManualPoints, ghosts
  <2>2. req'[w].stage = "log" /\ req'[w].user = u /\ req'[w].amount = n
    BY <2>1 DEF Idle
  <2>3. \A x \in User : Due(w, x) = 0 /\ Due(w, x)' = IF x = u THEN n ELSE 0
    BY <2>1, <2>2 DEF Due, Logging
  <2>4. \A x \in User : points'[x] - logged'[x] - Due(w, x)' = points[x] - logged[x] - Due(w, x)
    <3>1. n \in Int
      BY RewardsAssumption
    <3> QED
      BY <1>0, <2>1, <2>3, <3>1
  <2> QED
    BY <1>0, <2>1, <2>4, LedgerKept
<1>6. ASSUME NEW w \in Worker, PayBonus(w) PROVE LedgerInv'
  <2>1. PICK u \in req[w].todo :
          /\ req' = [req EXCEPT ![w] = [req[w] EXCEPT !.stage = "log", !.user = u,
                                                      !.amount = Bonus, !.todo = req[w].todo \ {u}]]
          /\ \/ points' = [points EXCEPT ![u] = @ + Bonus] /\ UNCHANGED dirty
             \/ dirty' = [dirty EXCEPT ![u] = TRUE] /\ UNCHANGED points
    BY <1>6 DEF PayBonus
  <2>2. u \in User /\ logged' = logged /\ req[w].stage = "pay" /\ Bonus \in Int
    BY <1>0, <1>6, RewardsAssumption DEF PayBonus, Request
  <2>3. /\ req'[w].stage = "log" /\ req'[w].user = u /\ req'[w].amount = Bonus
        /\ \A v \in Worker : v # w => req'[v] = req[v]
    BY <1>0, <2>1 DEF Request
  <2>4. \A x \in User : Due(w, x) = 0 /\ Due(w, x)' = IF x = u THEN Bonus ELSE 0
    BY <2>2, <2>3 DEF Due, Logging
  <2>5. \A x \in User : ~dirty'[x] =>
          ~dirty[x] /\ points'[x] - logged'[x] - Due(w, x)' = points[x] - logged[x] - Due(w, x)
    <3>1. CASE points' = [points EXCEPT ![u] = @ + Bonus] /\ UNCHANGED dirty
      BY <1>0, <2>2, <2>4, <3>1
    <3>2. CASE dirty' = [dirty EXCEPT ![u] = TRUE] /\ UNCHANGED points
      BY <1>0, <2>2, <2>4, <3>2
    <3> QED
      BY <2>1, <3>1, <3>2
  <2> QED
    BY <1>0, <2>3, <2>5, LedgerKept
<1>7. ASSUME NEW w \in Worker, LogPoints(w) PROVE LedgerInv'
  <2> PICK u \in User, n \in Int : u = req[w].user /\ n = req[w].amount
    BY <1>0, <1>7 DEF LogPoints
  <2>1. /\ points' = points /\ req[w].stage = "log"
        /\ \/ logged' = [logged EXCEPT ![u] = @ + n] /\ UNCHANGED dirty
           \/ dirty' = [dirty EXCEPT ![u] = TRUE] /\ UNCHANGED logged
    BY <1>7 DEF LogPoints
  <2>2. req'[w].stage # "log" /\ \A v \in Worker : v # w => req'[v] = req[v]
    BY <1>0, <1>7 DEF LogPoints, Finish, Goto, Idle, Request
  <2>3. \A x \in User : Due(w, x)' = 0 /\ Due(w, x) = IF x = u THEN n ELSE 0
    BY <2>1, <2>2 DEF Due, Logging
  <2>4. \A x \in User : ~dirty'[x] =>
          ~dirty[x] /\ points'[x] - logged'[x] - Due(w, x)' = points[x] - logged[x] - Due(w, x)
    <3>1. CASE logged' = [logged EXCEPT ![u] = @ + n] /\ UNCHANGED dirty
      BY <1>0, <2>1, <2>3, <3>1
    <3>2. CASE dirty' = [dirty EXCEPT ![u] = TRUE] /\ UNCHANGED logged
      BY <1>0, <2>1, <2>3, <3>2
    <3> QED
      BY <2>1, <3>1, <3>2
  <2> QED
    BY <1>0, <2>2, <2>4, LedgerKept
<1>8. ASSUME NEW w \in Worker, Abort(w) PROVE LedgerInv'
  <2>1. /\ points' = points /\ logged' = logged
        /\ \A x \in User : ~dirty'[x] => ~dirty[x] /\ ~(req[w].stage = "log" /\ req[w].user = x)
        /\ req'[w] = Idle /\ \A v \in Worker : v # w => req'[v] = req[v]
    BY <1>0, <1>8 DEF Abort, tables, Finish
  <2>2. \A x \in User : Due(w, x)' = 0 /\ (~dirty'[x] => ~dirty[x] /\ Due(w, x) = 0)
    BY <2>1 DEF Due, Logging, Idle
  <2> QED
    BY <1>0, <2>1, <2>2, LedgerKept
<1>9. ASSUME req' = req, \A u \in User : ~dirty'[u] => ~dirty[u] /\ points'[u] = points[u] /\ logged'[u] = logged[u]
      PROVE  LedgerInv'
  <2>1. \A u \in User : Owed(u)' = Owed(u)
    BY <1>9 DEF Owed, Logging
  <2> QED
    BY <1>0, <1>9, <2>1 DEF LedgerInv, LedgerMatches
<1>10. ASSUME NEW u \in User, AdminResetPoints(u) PROVE LedgerInv'
  BY <1>0, <1>9, <1>10 DEF AdminResetPoints
<1>11. CASE NextDay \/ UNCHANGED vars
  BY <1>9, <1>11 DEF NextDay, vars, tables, ghosts
<1> QED
  BY <1>2, <1>3, <1>4, <1>5, <1>6, <1>7, <1>8, <1>10, <1>11 DEF Next

\* A user's balance is the sum of the log entries and of the payments still to be
\* logged, unless a statement was lost (reward.go:95-110, admin.go:383-393, 904-911).
THEOREM LedgerHolds == Spec => []LedgerMatches
<1>1. Init => LedgerInv
  <2> SUFFICES ASSUME Init, NEW u \in User PROVE points[u] = logged[u] + Owed(u)
    BY TypeInit DEF LedgerInv, LedgerMatches
  <2>1. Logging(u) = {} /\ points[u] = 0 /\ logged[u] = 0
    BY DEF Init, Idle, Logging
  <2> QED
    BY <2>1, SumEmpty DEF Owed
<1>2. LedgerInv => LedgerMatches
  BY DEF LedgerInv
<1> QED
  BY <1>1, <1>2, LedgerNext, PTL DEF Spec

=============================================================================
