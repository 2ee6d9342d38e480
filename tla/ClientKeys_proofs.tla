------------------------- MODULE ClientKeys_proofs --------------------------
(***************************************************************************)
(* Proofs about ClientKeys, for any number of requests at once, any limits *)
(* and any length of the window and of the day.                            *)
(***************************************************************************)
EXTENDS ClientKeys, Sums_proofs

-----------------------------------------------------------------------------
(* Type correctness.                                                       *)

\* The counters, without the views and the requests.
CountersOK ==
    /\ count \in [Counter -> Nat] /\ \A k \in Counter : count[k] <= Limit[k] + 1
    /\ ttl \in [Counter -> Nat] /\ \A k \in Counter : ttl[k] <= Window
    /\ \A k \in Counter : count[k] = 0 => ttl[k] = 0
    /\ cut \in [Counter -> BOOLEAN]

PassesOK == passes \in [Age -> Nat] /\ blind \in [Age -> Nat] /\ \A a \in Age : blind[a] <= passes[a]

LEMMA TypeSplit ==
  TypeOK <=> /\ CountersOK /\ views \in [Day -> View] /\ req \in [Worker -> Request]
             /\ phase \in 0 .. DayLength - 1 /\ PassesOK
  BY DEF TypeOK, CountersOK, PassesOK

LEMMA TypeSplitNext ==
  TypeOK' <=> /\ CountersOK' /\ views' \in [Day -> View] /\ req' \in [Worker -> Request]
              /\ phase' \in 0 .. DayLength - 1 /\ PassesOK'
  BY DEF TypeOK, CountersOK, PassesOK

LEMMA TypeInit == Init => TypeOK
<1> SUFFICES ASSUME Init PROVE TypeOK
  OBVIOUS
<1> USE ClientKeysAssumption DEF Init
<1>1. CountersOK
  BY DEF CountersOK
<1>2. NoView \in View /\ NoRequest \in Request
  BY DEF NoView, View, NoRequest, Request, Counter, Day
<1>3. /\ views \in [Day -> View] /\ req \in [Worker -> Request]
      /\ phase \in 0 .. DayLength - 1 /\ PassesOK
  BY <1>2 DEF PassesOK
<1> QED
  BY <1>1, <1>3, TypeSplit

\* What one command does to a view, and a request's next stage.
LEMMA ViewTypes ==
  ASSUME NEW v \in View
  PROVE  /\ Faulty(v) \in View /\ Marked(v) \in View /\ Marked(Faulty(v)) \in View /\ Older(v) \in View
         /\ [v EXCEPT !.logged = Kept(v.logged, v.fault)] \in View
         /\ [v EXCEPT !.shown = Kept(v.shown, v.fault)] \in View
<1> USE ClientKeysAssumption
<1>1. Faulty(v) \in View
  BY DEF View, Faulty
<1>2. \A u \in View : Marked(u) \in View
  BY DEF View, Marked
<1>3. OneLess(v.mark) \in 0 .. DayLength
  BY DEF View, OneLess
<1>4. Kept(v.logged, v.fault) \in 0 .. 2 /\ Kept(v.shown, v.fault) \in 0 .. 2
  BY DEF View, Kept
<1> QED
  BY <1>1, <1>2, <1>3, <1>4 DEF View, Older

LEMMA RequestTypes ==
  ASSUME NEW q \in Request
  PROVE  /\ NoRequest \in Request
         /\ \A s \in {"log", "show"} : [q EXCEPT !.stage = s] \in Request
         /\ [q EXCEPT !.day = 1] \in Request
  BY DEF Request, NoRequest, Counter, Day

LEMMA TypeNext == TypeOK /\ [Next]_vars => TypeOK'
<1> SUFFICES ASSUME TypeOK, [Next]_vars PROVE TypeOK'
  OBVIOUS
<1> USE ClientKeysAssumption
<1>0. /\ CountersOK /\ views \in [Day -> View] /\ req \in [Worker -> Request]
      /\ phase \in 0 .. DayLength - 1 /\ PassesOK
      /\ \A w \in Worker : req[w].day \in Day /\ req[w].key \in Counter
  BY TypeSplit DEF Request
<1>1. ASSUME NEW w \in Worker, NEW k \in Counter, Count(w, k) PROVE TypeOK'
  <2>1. Incr(count[k], k) \in Nat /\ Incr(count[k], k) <= Limit[k] + 1 /\ Incr(count[k], k) # 0
    BY <1>0 DEF Incr, CountersOK
  <2>2. /\ count' = [count EXCEPT ![k] = Incr(count[k], k)] /\ UNCHANGED <<ttl, cut, views, phase>>
    BY <1>1 DEF Count
  <2>3. CountersOK'
    BY <1>0, <2>1, <2>2 DEF CountersOK
  <2>4. [stage |-> "expire", key |-> k, day |-> 0] \in Request
    BY DEF Request, Day
  <2>5. req' \in [Worker -> Request]
    BY <1>0, <1>1, <2>4 DEF Count
  <2>6. PassesOK'
    BY <1>0, <1>1 DEF Count, PassesOK, Age
  <2> QED
    BY <1>0, <2>2, <2>3, <2>5, <2>6, TypeSplitNext
<1>2. ASSUME NEW w \in Worker, Expire(w) \/ ExpireLost(w) PROVE TypeOK'
  <2> DEFINE k == req[w].key
  <2>1. CountersOK'
    <3>1. CASE Expire(w)
      <4>1. /\ ttl' = [ttl EXCEPT ![k] = IF count[k] = 0 THEN 0 ELSE Window]
            /\ UNCHANGED <<count, cut>>
        BY <3>1 DEF Expire
      <4> QED
        BY <1>0, <4>1 DEF CountersOK
    <3>2. CASE ExpireLost(w)
      <4>1. cut' = [cut EXCEPT ![k] = count[k] # 0] /\ UNCHANGED <<count, ttl>>
        BY <3>2 DEF ExpireLost
      <4>2. cut' \in [Counter -> BOOLEAN]
        BY <1>0, <4>1 DEF CountersOK
      <4> QED
        BY <1>0, <4>1, <4>2 DEF CountersOK
    <3> QED
      BY <1>2, <3>1, <3>2
  <2>2. req' \in [Worker -> Request] /\ UNCHANGED <<views, phase, passes, blind>>
    BY <1>0, <1>2, RequestTypes DEF Expire, ExpireLost, Done
  <2> QED
    BY <1>0, <2>1, <2>2, TypeSplitNext DEF PassesOK
<1>3. CASE ClearLoginFailures
  <2>1. CountersOK'
    BY <1>0, <1>3 DEF ClearLoginFailures, CountersOK, Counter
  <2> QED
    BY <1>0, <1>3, <2>1, TypeSplitNext DEF ClearLoginFailures, PassesOK
<1>4. ASSUME NEW w \in Worker,
             \/ TrackView(w) \/ SetMark(w) \/ MarkFails(w) \/ MarkLost(w)
             \/ LogView(w) \/ ShowView(w) \/ ViewFails(w)
      PROVE  TypeOK'
  <2>1. UNCHANGED <<count, ttl, cut, phase, passes, blind>>
    BY <1>4 DEF TrackView, SetMark, MarkFails, MarkLost, LogView, ShowView, ViewFails
  <2>2. [stage |-> "mark", key |-> "rl", day |-> 0] \in Request
    BY DEF Request, Day, Counter
  <2>3. req' \in [Worker -> Request]
    <3>1. ASSUME NEW s \in {"log", "show"}, Goto(w, s) PROVE req' \in [Worker -> Request]
      <4>1. [req[w] EXCEPT !.stage = s] \in Request
        BY <1>0, RequestTypes
      <4> QED
        BY <1>0, <3>1, <4>1 DEF Goto
    <3>2. Done(w) => req' \in [Worker -> Request]
      BY <1>0, RequestTypes DEF Done
    <3>3. TrackView(w) => req' \in [Worker -> Request]
      BY <1>0, <2>2 DEF TrackView
    <3> QED
      BY <1>0, <1>4, <3>1, <3>2, <3>3 DEF SetMark, MarkFails, MarkLost, LogView, ShowView, ViewFails
  <2>4. views' \in [Day -> View]
    BY <1>0, <1>4, ViewTypes
       DEF TrackView, SetMark, MarkFails, MarkLost, LogView, ShowView, ViewFails
  <2> QED
    BY <1>0, <2>1, <2>3, <2>4, TypeSplitNext DEF CountersOK, PassesOK
<1>5. CASE Tick
  <2>1. phase' \in 0 .. DayLength - 1
    BY <1>0, <1>5 DEF Tick
  <2>2. NoView \in View
    BY DEF NoView, View
  <2>3. views' \in [Day -> View]
    BY <1>0, <1>5, <2>2, ViewTypes DEF Tick, Day
  <2>4. req' \in [Worker -> Request]
    BY <1>0, <1>5, RequestTypes DEF Tick
  <2>5. PassesOK'
    <3>1. /\ passes' = [a \in Age |-> IF a = 0 THEN 0 ELSE passes[a - 1]]
          /\ blind' = [a \in Age |-> IF a = 0 THEN 0 ELSE blind[a - 1]]
      BY <1>5 DEF Tick
    <3>2. \A a \in Age : a # 0 => a - 1 \in Age
      BY DEF Age
    <3> QED
      BY <1>0, <3>1, <3>2 DEF PassesOK
  <2>6. CountersOK'
    <3>1. \A k \in Counter : OneLess(ttl[k]) \in Nat /\ OneLess(ttl[k]) <= Window
      BY <1>0 DEF CountersOK, OneLess
    <3>2. /\ \A k \in Counter : count'[k] = IF ttl[k] = 1 THEN 0 ELSE count[k]
          /\ \A k \in Counter : ttl'[k] = OneLess(ttl[k])
          /\ count' \in [Counter -> Nat] /\ ttl' \in [Counter -> Nat] /\ cut' \in [Counter -> BOOLEAN]
      BY <1>0, <1>5, <3>1 DEF Tick, CountersOK
    <3>3. \A k \in Counter : count'[k] = 0 => ttl'[k] = 0
      BY <1>0, <3>2 DEF CountersOK, OneLess
    <3> QED
      BY <1>0, <3>1, <3>2, <3>3 DEF CountersOK
  <2> QED
    BY <2>1, <2>3, <2>4, <2>5, <2>6, TypeSplitNext
<1>6. CASE UNCHANGED vars
  BY <1>0, <1>6, TypeSplitNext DEF vars, CountersOK, PassesOK
<1>7. ASSUME NEW w \in Worker, CountFails(w) PROVE TypeOK'
  <2>1. 0 \in Age
    BY DEF Age
  <2>2. PassesOK'
    BY <1>0, <1>7, <2>1 DEF CountFails, PassesOK
  <2> QED
    BY <1>0, <1>7, <2>2, TypeSplitNext DEF CountFails, CountersOK
<1>8. ASSUME NEW k \in Counter, CountLost(k) PROVE TypeOK'
  <2>1. Incr(count[k], k) \in Nat /\ Incr(count[k], k) <= Limit[k] + 1 /\ Incr(count[k], k) # 0
    BY <1>0 DEF Incr, CountersOK
  <2>2. /\ count' = [count EXCEPT ![k] = Incr(count[k], k)]
        /\ cut' = [cut EXCEPT ![k] = cut[k] \/ count[k] = 0]
        /\ UNCHANGED <<ttl, views, req, phase, passes, blind>>
    BY <1>8 DEF CountLost
  <2>3. cut' \in [Counter -> BOOLEAN]
    BY <1>0, <2>2 DEF CountersOK
  <2>4. CountersOK'
    BY <1>0, <2>1, <2>2, <2>3 DEF CountersOK
  <2> QED
    BY <1>0, <2>2, <2>4, TypeSplitNext DEF PassesOK
<1> QED
  BY <1>1, <1>2, <1>3, <1>4, <1>5, <1>6, <1>7, <1>8 DEF Next

\* The counters, the views and the requests keep their types.
THEOREM TypeCorrect == Spec => []TypeOK
  BY TypeInit, TypeNext, PTL DEF Spec

-----------------------------------------------------------------------------
(* Counters without expiry.                                                *)

ExpiryInv == TypeOK /\ NoExpiryOnlyCutOff

LEMMA ExpiryNext == ExpiryInv /\ [Next]_vars => ExpiryInv'
<1> SUFFICES ASSUME ExpiryInv, [Next]_vars PROVE ExpiryInv'
  OBVIOUS
<1> USE ClientKeysAssumption
<1>0. /\ TypeOK' /\ CountersOK /\ req \in [Worker -> Request]
      /\ \A w \in Worker : req[w].key \in Counter
  BY TypeNext, TypeSplit DEF ExpiryInv, Request
<1> SUFFICES ASSUME NEW k \in Counter, count'[k] # 0, ttl'[k] = 0
             PROVE  Expiring(k)' # {} \/ cut'[k]
  BY <1>0 DEF ExpiryInv, NoExpiryOnlyCutOff, Expiring
<1>1. count[k] # 0 /\ ttl[k] = 0 => Expiring(k) # {} \/ cut[k]
  BY DEF ExpiryInv, NoExpiryOnlyCutOff
<1>2. ASSUME NEW w \in Worker, NEW j \in Counter, Count(w, j)
      PROVE  Expiring(k)' # {} \/ cut'[k]
  <2>1. ttl' = ttl /\ cut' = cut /\ req[w].stage = "idle"
    BY <1>2 DEF Count, Idle
  <2>2. CASE count[k] # 0
    <3>1. Expiring(k) \subseteq Expiring(k)'
      BY <1>0, <1>2, <2>1 DEF Count, Expiring
    <3> QED
      BY <1>1, <2>1, <2>2, <3>1
  <2>3. CASE count[k] = 0
    <3>1. j = k /\ Incr(count[j], j) = 1
      BY <1>0, <1>2, <2>3 DEF Count, Incr, CountersOK
    <3>2. req' = [req EXCEPT ![w] = [stage |-> "expire", key |-> k, day |-> 0]]
      BY <1>2, <3>1 DEF Count
    <3> QED
      BY <1>0, <3>2 DEF Expiring
  <2> QED
    BY <2>2, <2>3
<1>3. ASSUME NEW w \in Worker, Expire(w) PROVE Expiring(k)' # {} \/ cut'[k]
  <2>1. req[w].key # k
    BY <1>0, <1>3 DEF Expire, CountersOK
  <2>2. count' = count /\ cut' = cut /\ ttl'[k] = ttl[k] /\ Expiring(k) \subseteq Expiring(k)'
    BY <1>0, <1>3, <2>1 DEF Expire, CountersOK, Done, Expiring
  <2> QED
    BY <1>1, <2>2
<1>4. ASSUME NEW w \in Worker, ExpireLost(w) PROVE Expiring(k)' # {} \/ cut'[k]
  <2>1. count' = count /\ ttl' = ttl
    BY <1>4 DEF ExpireLost
  <2>2. CASE req[w].key = k
    BY <1>0, <1>4, <2>1, <2>2 DEF ExpireLost, CountersOK
  <2>3. CASE req[w].key # k
    <3>1. cut'[k] = cut[k] /\ Expiring(k) \subseteq Expiring(k)'
      BY <1>0, <1>4, <2>3 DEF ExpireLost, CountersOK, Done, Expiring
    <3> QED
      BY <1>1, <2>1, <3>1
  <2> QED
    BY <2>2, <2>3
<1>5. CASE ClearLoginFailures
  <2>1. k # "login" /\ req' = req
    BY <1>0, <1>5 DEF ClearLoginFailures, CountersOK, Counter
  <2>2. count'[k] = count[k] /\ ttl'[k] = ttl[k] /\ cut'[k] = cut[k] /\ Expiring(k)' = Expiring(k)
    BY <1>0, <1>5, <2>1 DEF ClearLoginFailures, CountersOK, Expiring
  <2> QED
    BY <1>1, <2>2
<1>6. ASSUME NEW w \in Worker,
             \/ TrackView(w) \/ SetMark(w) \/ MarkFails(w) \/ MarkLost(w)
             \/ LogView(w) \/ ShowView(w) \/ ViewFails(w)
      PROVE  Expiring(k)' # {} \/ cut'[k]
  <2>1. UNCHANGED <<count, ttl, cut>> /\ req[w].stage # "expire"
        /\ \A v \in Worker : v # w => req'[v] = req[v]
    BY <1>0, <1>6
       DEF TrackView, SetMark, MarkFails, MarkLost, LogView, ShowView, ViewFails, Goto, Done, Idle
  <2>2. Expiring(k) \subseteq Expiring(k)'
    BY <2>1 DEF Expiring
  <2> QED
    BY <1>1, <2>1, <2>2
<1>7. CASE Tick
  <2>1. /\ count'[k] = IF ttl[k] = 1 THEN 0 ELSE count[k]
        /\ ttl'[k] = OneLess(ttl[k]) /\ cut'[k] = (cut[k] /\ ttl[k] # 1)
    BY <1>7 DEF Tick
  <2>2. ttl[k] = 0 /\ count[k] # 0
    BY <1>0, <2>1 DEF CountersOK, OneLess
  <2>3. \A w \in Worker : req'[w].stage = req[w].stage /\ req'[w].key = req[w].key
    BY <1>0, <1>7 DEF Tick, Request
  <2>4. Expiring(k)' = Expiring(k)
    BY <2>3 DEF Expiring
  <2>5. CASE Expiring(k) # {}
    BY <2>4, <2>5
  <2>6. CASE cut[k]
    BY <2>1, <2>2, <2>6
  <2> QED
    BY <1>1, <2>2, <2>5, <2>6
<1>8. CASE UNCHANGED vars
  BY <1>1, <1>8 DEF vars, Expiring
<1>9. ASSUME NEW w \in Worker, CountFails(w) PROVE Expiring(k)' # {} \/ cut'[k]
  BY <1>1, <1>9 DEF CountFails, Expiring
<1>10. ASSUME NEW j \in Counter, CountLost(j) PROVE Expiring(k)' # {} \/ cut'[k]
  <2>1. ttl' = ttl /\ Expiring(k)' = Expiring(k)
    BY <1>10 DEF CountLost, Expiring
  <2>2. cut[k] => cut'[k]
    BY <1>0, <1>10 DEF CountLost, CountersOK
  <2>3. CASE count[k] # 0
    BY <1>1, <2>1, <2>2, <2>3
  <2>4. CASE count[k] = 0
    <3>1. j = k
      BY <1>0, <1>10, <2>4 DEF CountLost, CountersOK
    <3> QED
      BY <1>0, <1>10, <2>4, <3>1 DEF CountLost, CountersOK
  <2> QED
    BY <2>3, <2>4
<1> QED
  BY <1>2, <1>3, <1>4, <1>5, <1>6, <1>7, <1>8, <1>9, <1>10 DEF Next

\* A counter that never expires is one whose EXPIRE is still to come or was lost, or
\* whose INCR was done without an answer (middleware/ratelimit.go:25-31,
\* auth.go:148-150, 161).
THEOREM CountersExpire == Spec => []NoExpiryOnlyCutOff
<1>1. Init => ExpiryInv
  BY TypeInit DEF Init, ExpiryInv, NoExpiryOnlyCutOff
<1>2. ExpiryInv => NoExpiryOnlyCutOff
  BY DEF ExpiryInv
<1> QED
  BY <1>1, <1>2, ExpiryNext, PTL DEF Spec

-----------------------------------------------------------------------------
(* Views.                                                                  *)

LEMMA ViewInit == Init => ViewInv
<1> SUFFICES ASSUME Init PROVE ViewInv
  OBVIOUS
<1>1. \A d \in Day : views[d] = NoView
  BY DEF Init
<1>2. \A s \in {"log", "show"}, d \in Day : Counting(s, d) = {}
  BY DEF Init, NoRequest, Counting
<1>3. views[0].mark = 0
  BY <1>1 DEF NoView, Day
<1>4. \A d \in Day : CountedBy(d)
  BY <1>1, <1>2 DEF CountedBy, NoView
<1> QED
  BY <1>3, <1>4, TypeInit DEF ViewInv

\* A day of which a step changes nothing that counts.
LEMMA CountedKept ==
  ASSUME NEW d \in Day, CountedBy(d), views'[d] = views[d],
         Counting("log", d)' = Counting("log", d), Counting("show", d)' = Counting("show", d)
  PROVE  CountedBy(d)'
  BY DEF CountedBy

\* A day's view that is in one table, and in both.
LEMMA CountedHalf ==
  ASSUME NEW d \in Day, NEW w, Counting("log", d)' = {}, Counting("show", d)' = {w},
         views'[d].logged = 1, views'[d].shown = 0, d = 0 => views'[d].mark # 0
  PROVE  CountedBy(d)'
  BY DEF CountedBy

LEMMA CountedTwice ==
  ASSUME NEW d \in Day, Counting("log", d)' = {}, Counting("show", d)' = {},
         views'[d].logged = 1, views'[d].shown = 1, d = 0 => views'[d].mark # 0
  PROVE  CountedBy(d)'
  BY DEF CountedBy

\* What the two statements leave in a view.
LEMMA LoggedView ==
  ASSUME NEW v \in View, NEW n \in 0 .. 2
  PROVE  LET x == [v EXCEPT !.logged = n]
         IN  x.mark = v.mark /\ x.fault = v.fault /\ x.shown = v.shown /\ x.logged = n
  BY DEF View

LEMMA ShownView ==
  ASSUME NEW v \in View, NEW n \in 0 .. 2
  PROVE  LET x == [v EXCEPT !.shown = n]
         IN  x.mark = v.mark /\ x.fault = v.fault /\ x.logged = v.logged /\ x.shown = n
  BY DEF View

LEMMA ViewNext == ViewInv /\ [Next]_vars => ViewInv'
<1> SUFFICES ASSUME ViewInv, [Next]_vars PROVE ViewInv'
  OBVIOUS
<1> USE ClientKeysAssumption
<1>0. /\ TypeOK /\ TypeOK' /\ req \in [Worker -> Request] /\ views \in [Day -> View]
      /\ phase \in 0 .. DayLength - 1
      /\ \A w \in Worker : req[w] \in Request /\ req[w].day \in Day
      /\ \A d \in Day : views[d] \in View
      /\ \A d \in Day : ~views[d].fault => CountedBy(d)
      /\ views[0].mark # 0 => views[0].mark + phase >= DayLength
  BY TypeNext DEF ViewInv, TypeOK, Request
<1> DEFINE Log(d) == Counting("log", d)
<1> DEFINE Show(d) == Counting("show", d)
<1> DEFINE MarkOK == views[0].mark # 0 => views[0].mark + phase >= DayLength
\* Commands on the counters, and a view that is not yet marked.
<1>1. ASSUME UNCHANGED <<views, phase>>, \A d \in Day : Log(d)' = Log(d) /\ Show(d)' = Show(d)
      PROVE  ViewInv'
  BY <1>0, <1>1, CountedKept DEF ViewInv
<1>2. ASSUME NEW w \in Worker, req[w].stage \notin {"log", "show"}, req'[w].stage \notin {"log", "show"},
             \A v \in Worker : v # w => req'[v] = req[v], UNCHANGED <<views, phase>>
      PROVE  ViewInv'
  <2>1. \A d \in Day : Log(d)' = Log(d) /\ Show(d)' = Show(d)
    BY <1>2 DEF Counting
  <2> QED
    BY <1>1, <1>2, <2>1
\* A step of a request in a view of day d.
<1>3. ASSUME NEW w \in Worker, NEW d \in Day, d = req[w].day, req[w].stage \in {"mark", "log", "show"}, phase' = phase,
             \A v \in Worker : v # w => req'[v] = req[v],
             req'[w].stage \in {"log", "show"} => req'[w].day = d,
             NEW x \in View, views' = [views EXCEPT ![d] = x],
             d = 0 /\ x.mark # 0 => x.mark \in {views[0].mark, DayLength},
             ~x.fault => CountedBy(d)'
      PROVE  ViewInv'
  <2>1. d \in Day /\ views'[d] = x /\ \A e \in Day : e # d => views'[e] = views[e]
    BY <1>0, <1>3
  <2>2. \A e \in Day : e # d => Log(e)' = Log(e) /\ Show(e)' = Show(e)
    BY <1>3 DEF Counting
  <2>3. \A e \in Day : ~views'[e].fault => CountedBy(e)'
    <3> SUFFICES ASSUME NEW e \in Day, ~views'[e].fault PROVE CountedBy(e)'
      OBVIOUS
    <3>1. CASE e = d
      BY <1>3, <2>1, <3>1
    <3>2. CASE e # d
      <4>1. views'[e] = views[e] /\ CountedBy(e) /\ Log(e)' = Log(e) /\ Show(e)' = Show(e)
        BY <1>0, <2>1, <2>2, <3>2
      <4> QED
        BY <4>1, CountedKept
    <3> QED
      BY <3>1, <3>2
  <2>4. views'[0].mark # 0 => views'[0].mark + phase' >= DayLength
    <3>1. CASE d = 0
      BY <1>0, <1>3, <2>1, <3>1
    <3>2. CASE d # 0
      BY <1>0, <1>3, <2>1, <3>2 DEF Day
    <3> QED
      BY <3>1, <3>2
  <2> QED
    BY <1>0, <2>3, <2>4 DEF ViewInv
<1>4. ASSUME NEW w \in Worker, NEW k \in Counter, Count(w, k) PROVE ViewInv'
  <2>1. req[w].stage = "idle" /\ UNCHANGED <<views, phase>>
    BY <1>4 DEF Count, Idle
  <2>2. req'[w].stage \in {"idle", "expire"} /\ \A v \in Worker : v # w => req'[v] = req[v]
    BY <1>0, <1>4, <2>1 DEF Count
  <2> QED
    BY <1>2, <2>1, <2>2
<1>5. ASSUME NEW w \in Worker, Expire(w) \/ ExpireLost(w) PROVE ViewInv'
  BY <1>0, <1>2, <1>5 DEF Expire, ExpireLost, Done, NoRequest
<1>6. CASE \/ ClearLoginFailures \/ UNCHANGED vars
           \/ \E w \in Worker : CountFails(w)
           \/ \E k \in Counter : CountLost(k)
  BY <1>1, <1>6 DEF ClearLoginFailures, CountFails, CountLost, vars, Counting
<1>7. ASSUME NEW w \in Worker, TrackView(w) PROVE ViewInv'
  BY <1>0, <1>2, <1>7 DEF TrackView, Idle
<1>8. ASSUME NEW w \in Worker, SetMark(w) PROVE ViewInv'
  <2> PICK d \in Day : d = req[w].day
    BY <1>0
  <2>1. CASE views[d].mark # 0
    BY <1>0, <1>2, <1>8, <2>1 DEF SetMark, Done, NoRequest
  <2>2. CASE views[d].mark = 0 /\ d # 0
    <3>1. Marked(Faulty(views[d])) \in View /\ Marked(Faulty(views[d])).fault
      BY <1>0, ViewTypes DEF Marked, Faulty
    <3>2. /\ req'[w].stage = "log" /\ req'[w].day = d /\ req[w].stage = "mark"
          /\ \A v \in Worker : v # w => req'[v] = req[v]
          /\ phase' = phase
          /\ views' = [views EXCEPT ![d] = Marked(Faulty(views[d]))]
      BY <1>0, <1>8, <2>2 DEF SetMark, Goto, Request
    <3> QED
      BY <1>3, <2>2, <3>1, <3>2
  <2>3. CASE views[d].mark = 0 /\ d = 0
    <3>1. /\ req'[w].stage = "log" /\ req'[w].day = 0 /\ req[w].stage = "mark"
          /\ \A v \in Worker : v # w => req'[v] = req[v]
          /\ phase' = phase
          /\ views' = [views EXCEPT ![0] = Marked(views[0])]
      <4>1. req[w].day = 0 /\ views[0].mark = 0 /\ req[w] \in Request
        BY <1>0, <2>3
      <4>2. /\ Goto(w, "log") /\ req[w].stage = "mark" /\ phase' = phase
            /\ views' = [views EXCEPT ![0] = Marked(views[0])]
        BY <1>8, <4>1 DEF SetMark
      <4> QED
        BY <1>0, <4>1, <4>2 DEF Goto, Request
    <3>2. /\ Marked(views[0]) \in View /\ Marked(views[0]).mark = DayLength
          /\ Marked(views[0]).fault = views[0].fault
          /\ Marked(views[0]).logged = views[0].logged /\ Marked(views[0]).shown = views[0].shown
          /\ views'[0] = Marked(views[0])
      BY <1>0, <3>1, ViewTypes DEF Marked, View, Day
    <3>3. Log(0)' = Log(0) \cup {w} /\ Show(0)' = Show(0)
      BY <3>1 DEF Counting
    <3>4. ASSUME ~views[0].fault PROVE CountedBy(0)'
      <4>1. Log(0) = {} /\ Show(0) = {} /\ views[0].logged = 0 /\ views[0].shown = 0
        BY <1>0, <2>3, <3>4 DEF CountedBy, Day
      <4> QED
        BY <3>2, <3>3, <4>1 DEF CountedBy
    <3> QED
      BY <1>3, <2>3, <3>1, <3>2, <3>4
  <2> QED
    BY <2>1, <2>2, <2>3
<1>9. ASSUME NEW w \in Worker, MarkFails(w) PROVE ViewInv'
  <2> PICK d \in Day : d = req[w].day
    BY <1>0
  <2>1. /\ req'[w].stage = "log" /\ req'[w].day = d /\ req[w].stage = "mark"
        /\ \A v \in Worker : v # w => req'[v] = req[v]
        /\ phase' = phase /\ views' = [views EXCEPT ![d] = Faulty(views[d])]
    BY <1>0, <1>9 DEF MarkFails, Goto, Request
  <2>2. Faulty(views[d]) \in View /\ Faulty(views[d]).fault /\ Faulty(views[d]).mark = views[d].mark
    BY <1>0, ViewTypes DEF Faulty
  <2> QED
    BY <1>3, <2>1, <2>2
<1>14. ASSUME NEW w \in Worker, MarkLost(w) PROVE ViewInv'
  <2> PICK d \in Day : d = req[w].day
    BY <1>0
  <2>1. /\ req'[w].stage = "mark" /\ req[w].stage = "mark"
        /\ \A v \in Worker : v # w => req'[v] = req[v]
        /\ phase' = phase /\ views' = [views EXCEPT ![d] = Marked(Faulty(views[d]))]
    BY <1>14 DEF MarkLost
  <2>2. /\ Marked(Faulty(views[d])) \in View /\ Marked(Faulty(views[d])).fault
        /\ Marked(Faulty(views[d])).mark = DayLength
    BY <1>0, ViewTypes DEF Marked, Faulty
  <2> QED
    BY <1>3, <2>1, <2>2
<1>10. ASSUME NEW w \in Worker, LogView(w) PROVE ViewInv'
  <2> PICK d \in Day : d = req[w].day
    BY <1>0
  <2> DEFINE x == [views[d] EXCEPT !.logged = Kept(views[d].logged, views[d].fault)]
  <2>1. /\ req'[w].stage = "show" /\ req'[w].day = d /\ req[w].stage = "log"
        /\ \A v \in Worker : v # w => req'[v] = req[v]
        /\ phase' = phase /\ views' = [views EXCEPT ![d] = x]
    BY <1>0, <1>10 DEF LogView, Goto, Request
  <2>2. /\ x \in View /\ x.mark = views[d].mark /\ x.fault = views[d].fault
        /\ x.shown = views[d].shown /\ x.logged = Kept(views[d].logged, views[d].fault)
    <3>1. views[d] \in View
      BY <1>0
    <3>2. Kept(views[d].logged, views[d].fault) \in 0 .. 2
      BY <3>1 DEF Kept, View
    <3>3. x \in View
      BY <3>1, ViewTypes
    <3> QED
      BY <3>1, <3>2, <3>3, LoggedView
  <2>3. views'[d] = x
    BY <1>0, <2>1
  <2> HIDE DEF x
  <2>4. Log(d)' = Log(d) \ {w} /\ Show(d)' = Show(d) \cup {w} /\ w \in Log(d)
    BY <2>1 DEF Counting
  <2>5. ASSUME ~views[d].fault PROVE CountedBy(d)'
    <3>1. CountedBy(d)
      BY <1>0, <2>5
    <3>2. /\ Log(d) = {w} /\ Show(d) = {} /\ views[d].logged = 0 /\ views[d].shown = 0
      BY <2>1, <2>4, <3>1 DEF CountedBy, Counting
    <3>3. x.logged = 1 /\ x.shown = 0
      BY <2>2, <2>5, <3>2 DEF Kept
    <3>4. views[d].mark # 0 \/ d # 0
      BY <2>4, <3>1 DEF CountedBy
    <3> QED
      BY <2>2, <2>3, <2>4, <3>2, <3>3, <3>4, CountedHalf
  <2> QED
    BY <1>3, <2>1, <2>2, <2>5
<1>11. ASSUME NEW w \in Worker, ShowView(w) PROVE ViewInv'
  <2> PICK d \in Day : d = req[w].day
    BY <1>0
  <2> DEFINE x == [views[d] EXCEPT !.shown = Kept(views[d].shown, views[d].fault)]
  <2>1. /\ req'[w].stage = "idle" /\ req[w].stage = "show"
        /\ \A v \in Worker : v # w => req'[v] = req[v]
        /\ phase' = phase /\ views' = [views EXCEPT ![d] = x]
    BY <1>0, <1>11 DEF ShowView, Done, NoRequest
  <2>2. /\ x \in View /\ x.mark = views[d].mark /\ x.fault = views[d].fault
        /\ x.logged = views[d].logged /\ x.shown = Kept(views[d].shown, views[d].fault)
    <3>1. views[d] \in View
      BY <1>0
    <3>2. Kept(views[d].shown, views[d].fault) \in 0 .. 2
      BY <3>1 DEF Kept, View
    <3>3. x \in View
      BY <3>1, ViewTypes
    <3> QED
      BY <3>1, <3>2, <3>3, ShownView
  <2>3. views'[d] = x
    BY <1>0, <2>1
  <2> HIDE DEF x
  <2>4. Log(d)' = Log(d) /\ Show(d)' = Show(d) \ {w} /\ w \in Show(d)
    <3>1. Log(d)' = Log(d)
      BY <2>1 DEF Counting
    <3>2. w \in Show(d)
      BY <2>1 DEF Counting
    <3>3. w \notin Show(d)'
      BY <2>1 DEF Counting
    <3>4. \A v \in Worker : v # w => (v \in Show(d)' <=> v \in Show(d))
      BY <2>1 DEF Counting
    <3>5. Show(d)' \subseteq Worker /\ Show(d) \subseteq Worker
      BY DEF Counting
    <3> HIDE DEF Log, Show
    <3> QED
      BY <3>1, <3>2, <3>3, <3>4, <3>5
  <2>5. ASSUME ~views[d].fault PROVE CountedBy(d)'
    <3>1. CountedBy(d)
      BY <1>0, <2>5
    <3>2. Show(d) = {w} /\ Log(d) = {} /\ views[d].logged = 1 /\ views[d].shown = 0
      BY <2>1, <2>4, <3>1 DEF CountedBy, Counting
    <3>3. x.logged = 1 /\ x.shown = 1
      BY <2>2, <2>5, <3>2 DEF Kept
    <3>4. views[d].mark # 0 \/ d # 0
      BY <2>4, <3>1 DEF CountedBy
    <3> QED
      BY <2>2, <2>3, <2>4, <3>2, <3>3, <3>4, CountedTwice
  <2> QED
    BY <1>3, <2>1, <2>2, <2>5
<1>12. ASSUME NEW w \in Worker, ViewFails(w) PROVE ViewInv'
  <2> PICK d \in Day : d = req[w].day
    BY <1>0
  <2>1. /\ req'[w].stage = "idle" /\ req[w].stage \in {"log", "show"}
        /\ \A v \in Worker : v # w => req'[v] = req[v]
        /\ phase' = phase /\ views' = [views EXCEPT ![d] = Faulty(views[d])]
    BY <1>0, <1>12 DEF ViewFails, Done, NoRequest
  <2>2. /\ Faulty(views[d]) \in View /\ Faulty(views[d]).fault
        /\ Faulty(views[d]).mark = views[d].mark
    BY <1>0, ViewTypes DEF Faulty
  <2> QED
    BY <1>3, <2>1, <2>2
<1>13. CASE Tick
  <2>1. \A d \in Day : /\ Older(views[d]).fault = views[d].fault
                       /\ Older(views[d]).logged = views[d].logged
                       /\ Older(views[d]).shown = views[d].shown
                       /\ Older(views[d]).mark = OneLess(views[d].mark)
                       /\ views[d].mark \in Nat
    BY <1>0 DEF Older, View
  <2>2. CASE phase # DayLength - 1
    <3>1. /\ phase' = phase + 1 /\ \A d \in Day : views'[d] = Older(views[d])
          /\ \A w \in Worker : req'[w] = req[w]
      BY <1>13, <2>2 DEF Tick
    <3>2. \A d \in Day : Log(d)' = Log(d) /\ Show(d)' = Show(d)
      BY <3>1 DEF Counting
    <3>3. views'[0].mark # 0 => views'[0].mark + phase' >= DayLength
      BY <1>0, <2>1, <3>1 DEF OneLess, Day
    <3>4. ASSUME NEW d \in Day, ~views'[d].fault PROVE CountedBy(d)'
      <4>1. CountedBy(d) /\ views'[d].logged = views[d].logged /\ views'[d].shown = views[d].shown
        BY <1>0, <2>1, <3>1, <3>4
      <4>2. views'[d].mark # 0 => views[d].mark # 0
        BY <2>1, <3>1 DEF OneLess
      <4>3. d = 0 /\ views'[d].mark = 0 => views[d].mark = 0
        BY <1>0, <2>1, <2>2, <3>1 DEF OneLess
      <4> QED
        BY <3>2, <4>1, <4>2, <4>3 DEF CountedBy
    <3> QED
      BY <1>0, <3>3, <3>4 DEF ViewInv
  <2>3. CASE phase = DayLength - 1
    <3>1. /\ Tracking(1) = {} /\ phase' = 0
          /\ views'[0] = NoView
          /\ views'[1] = IF Tracking(0) # {} THEN Older(views[0]) ELSE NoView
          /\ \A w \in Worker : req'[w] = IF w \in Tracking(0) THEN [req[w] EXCEPT !.day = 1] ELSE req[w]
      BY <1>0, <1>13, <2>3 DEF Tick, Day
    <3>2. \A w \in Worker : /\ req'[w].stage = req[w].stage
                            /\ w \in Tracking(0) => req'[w].day = 1
                            /\ w \notin Tracking(0) => req'[w].day = req[w].day
      BY <1>0, <3>1 DEF Request
    <3>3. Log(0)' = {} /\ Show(0)' = {}
      BY <3>2 DEF Counting, Tracking
    <3>4. Log(1)' = Log(0) /\ Show(1)' = Show(0)
      BY <1>0, <3>1, <3>2 DEF Counting, Tracking, Day
    <3>5. CountedBy(0)'
      BY <3>1, <3>3 DEF CountedBy, NoView
    <3>6. ASSUME ~views'[1].fault PROVE CountedBy(1)'
      <4>1. CASE Tracking(0) # {}
        <5>1. CountedBy(0)
          BY <1>0, <2>1, <3>1, <3>6, <4>1 DEF Day
        <5>2. /\ views'[1].logged = views[0].logged /\ views'[1].shown = views[0].shown
              /\ views'[1].mark # 0 => views[0].mark # 0
          BY <2>1, <3>1, <4>1 DEF OneLess, Day
        <5> QED
          BY <3>4, <5>1, <5>2 DEF CountedBy
      <4>2. CASE Tracking(0) = {}
        <5>1. Log(0) = {} /\ Show(0) = {}
          BY <4>2 DEF Tracking, Counting
        <5> QED
          BY <3>1, <3>4, <4>2, <5>1 DEF CountedBy, NoView
      <4> QED
        BY <4>1, <4>2
    <3>7. \A d \in Day : d = 0 \/ d = 1
      BY DEF Day
    <3>8. \A d \in Day : ~views'[d].fault => CountedBy(d)'
      BY <3>5, <3>6, <3>7
    <3>9. views'[0].mark = 0
      BY <3>1 DEF NoView
    <3> QED
      BY <1>0, <3>8, <3>9 DEF ViewInv
  <2> QED
    BY <2>2, <2>3
<1> QED
  BY <1>4, <1>5, <1>6, <1>7, <1>8, <1>9, <1>10, <1>11, <1>12, <1>13,
     <1>14 DEF Next

\* A device's view of a comic on a day is counted once in both tables unless a
\* command failed or the mark was set after midnight (traffic.go:20, 39-58).
THEOREM ViewsCountOnce == Spec => []ViewCountedOnce
<1>1. ViewInv => ViewCountedOnce
  <2> SUFFICES ASSUME ViewInv, NEW d \in Day, ~views[d].fault, Tracking(d) = {}
               PROVE  /\ views[d].logged = views[d].shown
                      /\ views[d].logged <= 1
                      /\ views[d].mark # 0 => views[d].logged = 1
    BY DEF ViewCountedOnce
  <2>1. Counting("log", d) = {} /\ Counting("show", d) = {}
    BY DEF Tracking, Counting
  <2> QED
    BY <2>1 DEF ViewInv, CountedBy
<1> QED
  BY <1>1, ViewInit, ViewNext, PTL DEF Spec

-----------------------------------------------------------------------------
(***************************************************************************)
(* The rate limit.  Passes of an earlier key that are still in the window  *)
(* are less than the limit, and so are those under the key in force once   *)
(* it has an expiry: the request that created it is outside.               *)
(***************************************************************************)

Young(n) == SumFunctionOnSet(ByCount, 0 .. n)

LEMMA AgeTypes ==
  /\ Age = 0 .. Window - 1 /\ Window \in Nat \ {0} /\ Limit["rl"] \in Nat \ {0}
  /\ \A n \in Int : IsFiniteSet(0 .. n) /\ (n < Window => 0 .. n \in SUBSET Age)
  /\ \A n \in Int : n < 0 => 0 .. n = {}
<1>1. Age = 0 .. Window - 1 /\ Window \in Nat \ {0} /\ Limit["rl"] \in Nat \ {0}
  BY ClientKeysAssumption DEF Age, Counter
<1>2. ASSUME NEW n \in Int PROVE IsFiniteSet(0 .. n) /\ (n < Window => 0 .. n \in SUBSET Age)
  <2>1. IsFiniteSet(0 .. n)
    BY FS_Interval
  <2>2. n < Window => 0 .. n \in SUBSET Age
    BY <1>1
  <2> QED
    BY <2>1, <2>2
<1> QED
  BY <1>1, <1>2

\* The passes of the window's first instants are a number, which grows with them.
LEMMA YoungType ==
  ASSUME ByCount \in [Age -> Nat], NEW n \in Int, n < Window
  PROVE  /\ Young(n) \in Nat /\ Young(n) <= Young(Window - 1)
         /\ n < 0 => Young(n) = 0
<1>1. \A m \in Int : m < Window => \A a \in 0 .. m : ByCount[a] \in Nat
  BY AgeTypes
<1>2. Young(n) \in Nat
  BY <1>1, AgeTypes, SumNat DEF Young
<1>3. Young(n) <= Young(Window - 1)
  <2>1. Window - 1 \in Int /\ Window - 1 < Window /\ 0 .. n \in SUBSET (0 .. Window - 1)
    BY AgeTypes
  <2> QED
    BY <1>1, <2>1, AgeTypes, SumGrows DEF Young
<1>4. n < 0 => Young(n) = 0
  BY AgeTypes, SumEmpty DEF Young
<1> QED
  BY <1>2, <1>3, <1>4

\* A request ByCount.
LEMMA YoungPlus ==
  ASSUME ByCount \in [Age -> Nat], ByCount' = [ByCount EXCEPT ![0] = @ + 1], NEW n \in Nat, n < Window
  PROVE  Young(n)' = Young(n) + 1
<1> PICK h : h = ByCount'
  OBVIOUS
<1>1. \A a \in 0 .. n : a \in Age /\ ByCount[a] \in Nat
  BY AgeTypes
<1>2. 0 \in 0 .. n /\ h[0] = ByCount[0] + 1 /\ \A a \in (0 .. n) \ {0} : h[a] = ByCount[a]
  BY <1>1
<1>3. IntOn(ByCount, 0 .. n) /\ IntOn(h, 0 .. n) /\ IsFiniteSet(0 .. n)
  BY <1>1, <1>2, AgeTypes DEF IntOn
<1>4. SumFunctionOnSet(h, 0 .. n) = SumFunctionOnSet(ByCount, 0 .. n) - ByCount[0] + h[0]
  <2>1. PICK S, z, p : S = 0 .. n /\ z = 0 /\ p = ByCount
    OBVIOUS
  <2>2. /\ IsFiniteSet(S) /\ IntOn(p, S) /\ IntOn(h, S) /\ z \in S
        /\ \A a \in S \ {z} : h[a] = p[a]
    BY <1>2, <1>3, <2>1
  <2>3. SumFunctionOnSet(h, S) = SumFunctionOnSet(p, S) - p[z] + h[z]
    BY ONLY <2>2, SumChanged
  <2> QED
    BY <2>1, <2>3
<1>5. SumFunctionOnSet(ByCount, 0 .. n) \in Int /\ ByCount[0] \in Int
  BY <1>1, <1>2, <1>3, SumType
<1> QED
  BY <1>2, <1>4, <1>5 DEF Young

\* Time goes on.
LEMMA YoungOlder ==
  ASSUME ByCount \in [Age -> Nat], NEW n \in Int, n + 1 < Window,
         ByCount' = [a \in Age |-> IF a = 0 THEN 0 ELSE ByCount[a - 1]]
  PROVE  n + 1 >= 0 => Young(n + 1)' = Young(n)
<1> SUFFICES ASSUME n + 1 >= 0 PROVE Young(n + 1)' = Young(n)
  OBVIOUS
<1> PICK h : h = ByCount'
  OBVIOUS
<1> DEFINE S == 0 .. n
           T == {i + 1 : i \in S}
<1>1. \A a \in S : a \in Age /\ a + 1 \in Age /\ ByCount[a] \in Nat
  BY AgeTypes
<1>2. \A a \in S : h[a + 1] = ByCount[a]
  BY <1>1
<1>3. h[0] = 0
  BY AgeTypes
<1>4. 0 .. n + 1 = T \cup {0} /\ 0 \notin T
  <2>1. \A i \in 0 .. n + 1 : i = 0 \/ (i - 1 \in S /\ i = (i - 1) + 1)
    OBVIOUS
  <2> QED
    BY <2>1
<1>5. S \in SUBSET Int /\ IsFiniteSet(S) /\ IntOn(ByCount, S)
  BY <1>1, AgeTypes DEF IntOn
<1>6. SumFunctionOnSet(h, T) = SumFunctionOnSet(ByCount, S)
  <2> HIDE DEF S
  <2> QED
    BY <1>2, <1>5, SumMoved
<1>7. IsFiniteSet(T) /\ IntOn(h, T \cup {0})
  <2>1. IsFiniteSet(0 .. n + 1) /\ T \in SUBSET (0 .. n + 1)
    BY <1>4, AgeTypes
  <2>2. IntOn(h, T \cup {0})
    BY <1>1, <1>2, <1>3 DEF IntOn
  <2> HIDE DEF T
  <2> QED
    BY <2>1, <2>2, FS_Subset
<1>8. SumFunctionOnSet(h, T \cup {0}) = SumFunctionOnSet(h, T) + h[0]
  <2> HIDE DEF T
  <2> QED
    BY <1>4, <1>7, SumIn
<1>9. SumFunctionOnSet(ByCount, S) \in Int
  BY <1>5, SumType
<1> HIDE DEF S, T
<1>10. SumFunctionOnSet(h, T \cup {0}) = SumFunctionOnSet(ByCount, S)
  BY <1>3, <1>6, <1>8, <1>9
<1> QED
  BY <1>4, <1>10 DEF Young, S

\* What is said of passes and blind is said of their difference.
LEMMA ByCountType == PassesOK => ByCount \in [Age -> Nat]
<1> SUFFICES ASSUME PassesOK, NEW a \in Age PROVE passes[a] - blind[a] \in Nat
  BY DEF ByCount
<1> QED
  BY DEF PassesOK

LEMMA ByCountMoves ==
  ASSUME PassesOK
  PROVE  /\ UNCHANGED <<passes, blind>> => ByCount' = ByCount
         /\ passes' = [passes EXCEPT ![0] = @ + 1] /\ blind' = blind
               => ByCount' = [ByCount EXCEPT ![0] = @ + 1]
         /\ passes' = [passes EXCEPT ![0] = @ + 1] /\ blind' = [blind EXCEPT ![0] = @ + 1]
               => ByCount' = ByCount
         /\ passes' = [a \in Age |-> IF a = 0 THEN 0 ELSE passes[a - 1]]
               /\ blind' = [a \in Age |-> IF a = 0 THEN 0 ELSE blind[a - 1]]
               => ByCount' = [a \in Age |-> IF a = 0 THEN 0 ELSE ByCount[a - 1]]
<1>1. 0 \in Age /\ \A a \in Age : passes[a] \in Nat /\ blind[a] \in Nat
  BY AgeTypes DEF PassesOK
<1>2. ByCount' = [a \in Age |-> passes'[a] - blind'[a]]
  BY DEF ByCount
<1>3. UNCHANGED <<passes, blind>> => ByCount' = ByCount
  BY DEF ByCount
<1>4. ASSUME passes' = [passes EXCEPT ![0] = @ + 1], blind' = blind
      PROVE  ByCount' = [ByCount EXCEPT ![0] = @ + 1]
  <2>1. \A a \in Age : passes'[a] - blind'[a] = IF a = 0 THEN ByCount[0] + 1 ELSE ByCount[a]
    BY <1>1, <1>4 DEF PassesOK, ByCount
  <2> QED
    BY <1>1, <1>2, <2>1 DEF ByCount
<1>5. ASSUME passes' = [passes EXCEPT ![0] = @ + 1], blind' = [blind EXCEPT ![0] = @ + 1]
      PROVE  ByCount' = ByCount
  <2>1. \A a \in Age : passes'[a] - blind'[a] = passes[a] - blind[a]
    BY <1>1, <1>5 DEF PassesOK
  <2> QED
    BY <1>2, <2>1 DEF ByCount
<1>6. ASSUME passes' = [a \in Age |-> IF a = 0 THEN 0 ELSE passes[a - 1]],
             blind' = [a \in Age |-> IF a = 0 THEN 0 ELSE blind[a - 1]]
      PROVE  ByCount' = [a \in Age |-> IF a = 0 THEN 0 ELSE ByCount[a - 1]]
  <2>1. \A a \in Age : a # 0 => a - 1 \in Age
    BY AgeTypes
  <2>2. \A a \in Age : passes'[a] - blind'[a] = IF a = 0 THEN 0 ELSE ByCount[a - 1]
    BY <1>6, <2>1 DEF ByCount
  <2> QED
    BY <1>2, <2>2
<1> QED
  BY <1>3, <1>4, <1>5, <1>6

\* PassesInv as numbers.
LEMMA PassesAre ==
  ASSUME TypeOK, NEW n, n = PassedNow, NEW m, m = ttl["rl"]
  PROVE  PassesInv <=> /\ Young(Window - 1) < Limit["rl"] + n
                       /\ m > 0 => Young(Window - m - 1) < n
  BY AgeTypes DEF PassesInv, Young

LEMMA PassesAreNext ==
  ASSUME TypeOK', NEW n, n = PassedNow', NEW m, m = ttl'["rl"]
  PROVE  PassesInv' <=> /\ Young(Window - 1)' < Limit["rl"] + n
                        /\ m > 0 => Young(Window - m - 1)' < n
  BY AgeTypes DEF PassesInv, Young

\* The requests that pass keep below the limit; the others change no pass.
LEMMA PassesNext == PassesInv /\ [Next]_vars => PassesInv'
<1> SUFFICES ASSUME PassesInv, [Next]_vars PROVE PassesInv'
  OBVIOUS
<1> PICK L \in Nat \ {0}, W \in Nat \ {0} : L = Limit["rl"] /\ W = Window
  BY AgeTypes
<1> PICK c \in Nat, t \in Nat : c = count["rl"] /\ t = ttl["rl"]
  BY DEF PassesInv, TypeOK, Counter
<1>0. /\ TypeOK /\ TypeOK' /\ PassesOK /\ ByCount \in [Age -> Nat]
      /\ c <= L + 1 /\ t <= W /\ (c = 0 => t = 0)
      /\ count \in [Counter -> Nat] /\ ttl \in [Counter -> Nat] /\ "rl" \in Counter
      /\ req \in [Worker -> Request]
  BY TypeNext, ByCountType DEF PassesInv, TypeOK, PassesOK, Counter
<1> PICK n \in Nat : n = PassedNow /\ n = IF c <= L THEN c ELSE L
  BY DEF PassedNow
<1>1. /\ Young(W - 1) \in Nat /\ Young(W - 1) < L + n
      /\ t > 0 => Young(W - t - 1) < n
      /\ \A m \in Int : m < W => Young(m) \in Nat /\ Young(m) <= Young(W - 1) /\ (m < 0 => Young(m) = 0)
  <2>1. \A m \in Int : m < W => Young(m) \in Nat /\ Young(m) <= Young(W - 1) /\ (m < 0 => Young(m) = 0)
    BY <1>0, YoungType
  <2>2. Young(W - 1) < L + n /\ (t > 0 => Young(W - t - 1) < n)
    BY <1>0, PassesAre
  <2> QED
    BY <2>1, <2>2
<1>2. ASSUME ByCount' = ByCount, count'["rl"] = c, ttl'["rl"] = t PROVE PassesInv'
  <2>1. PassedNow' = n /\ Young(W - 1)' = Young(W - 1) /\ Young(W - t - 1)' = Young(W - t - 1)
    BY <1>2 DEF PassedNow, Young
  <2> QED
    BY <1>0, <1>1, <1>2, <2>1, PassesAreNext
<1>3. ASSUME NEW w \in Worker, NEW k \in Counter, Count(w, k) PROVE PassesInv'
  <2>1. CASE k # "rl"
    <3>1. count'["rl"] = c /\ ttl'["rl"] = t /\ UNCHANGED <<passes, blind>>
      BY <1>0, <1>3, <2>1 DEF Count
    <3> QED
      BY <1>0, <1>2, <3>1, ByCountMoves
  <2>2. CASE k = "rl" /\ c < L
    <3>0. /\ count'["rl"] = c + 1 /\ ttl' = ttl
          /\ passes' = [passes EXCEPT ![0] = @ + 1] /\ blind' = blind
      BY <1>0, <1>3, <2>2 DEF Count, Incr, Passes
    <3>1. /\ count'["rl"] = c + 1 /\ ttl' = ttl
          /\ ByCount' = [ByCount EXCEPT ![0] = @ + 1]
      BY <1>0, <3>0, ByCountMoves
    <3>2. PassedNow' = n + 1 /\ n = c
      BY <2>2, <3>1 DEF PassedNow
    <3>3. \A m \in Nat : m < W => Young(m)' = Young(m) + 1
      BY <1>0, <3>1, YoungPlus
    <3>4. Young(W - 1)' < L + (n + 1)
      <4>1. Young(W - 1)' = Young(W - 1) + 1
        BY <3>3
      <4> QED
        BY <1>1, <4>1
    <3>5. ASSUME t > 0 PROVE Young(W - t - 1)' < n + 1
      <4>1. CASE t = W
        <5>1. Young(W - t - 1)' = 0
          BY <4>1, AgeTypes, SumEmpty DEF Young
        <5> QED
          BY <5>1
      <4>2. CASE t < W
        <5>1. W - t - 1 \in Nat /\ W - t - 1 < W
          BY <3>5, <4>2
        <5>2. Young(W - t - 1)' = Young(W - t - 1) + 1 /\ Young(W - t - 1) \in Nat
          BY <1>1, <3>3, <5>1
        <5> QED
          BY <1>1, <3>5, <5>2
      <4> QED
        BY <1>0, <4>1, <4>2
    <3> QED
      BY <1>0, <3>1, <3>2, <3>4, <3>5, PassesAreNext
  <2>3. CASE k = "rl" /\ c >= L
    <3>0. /\ count'["rl"] = L + 1 /\ ttl' = ttl /\ UNCHANGED <<passes, blind>>
      BY <1>0, <1>3, <2>3 DEF Count, Incr, Passes
    <3>1. /\ count'["rl"] = L + 1 /\ ttl' = ttl /\ ByCount' = ByCount
      BY <1>0, <3>0, ByCountMoves
    <3>2. PassedNow' = n
      BY <2>3, <3>1 DEF PassedNow
    <3>3. Young(W - 1)' = Young(W - 1) /\ Young(W - t - 1)' = Young(W - t - 1)
      BY <3>1 DEF Young
    <3> QED
      BY <1>0, <1>1, <3>1, <3>2, <3>3, PassesAreNext
  <2> QED
    BY <2>1, <2>2, <2>3
<1>4. ASSUME NEW w \in Worker, Expire(w) PROVE PassesInv'
  <2>1. count' = count /\ ByCount' = ByCount
        /\ ttl'["rl"] \in {t, IF c = 0 THEN 0 ELSE W}
    BY <1>0, <1>4, ByCountMoves DEF Expire
  <2>2. PassedNow' = n /\ Young(W - 1)' = Young(W - 1) /\ Young(W - t - 1)' = Young(W - t - 1)
    BY <2>1 DEF PassedNow, Young
  <2>3. CASE ttl'["rl"] = t
    BY <1>2, <2>1, <2>3
  <2>4. CASE c = 0 /\ ttl'["rl"] = 0
    BY <1>0, <1>1, <2>2, <2>4, PassesAreNext
  <2>5. CASE c # 0 /\ ttl'["rl"] = W
    <3>1. Young(W - W - 1)' = 0 /\ n > 0
      BY <2>5, AgeTypes, SumEmpty DEF Young
    <3> QED
      BY <1>0, <1>1, <2>2, <2>5, <3>1, PassesAreNext
  <2> QED
    BY <2>1, <2>3, <2>4, <2>5
<1>5. CASE ClearLoginFailures
  <2>1. ByCount' = ByCount /\ count'["rl"] = c /\ ttl'["rl"] = t
    BY <1>0, <1>5, ByCountMoves DEF ClearLoginFailures
  <2> QED
    BY <1>2, <2>1
<1>6. ASSUME NEW w \in Worker,
             \/ ExpireLost(w) \/ TrackView(w) \/ SetMark(w) \/ MarkFails(w) \/ MarkLost(w)
             \/ LogView(w) \/ ShowView(w) \/ ViewFails(w)
      PROVE  PassesInv'
  <2>1. UNCHANGED <<count, ttl, passes, blind>>
    BY <1>6 DEF ExpireLost, TrackView, SetMark, MarkFails, MarkLost, LogView, ShowView, ViewFails
  <2> QED
    BY <1>0, <1>2, <2>1, ByCountMoves
<1>7. CASE Tick
  <2>0. /\ passes' = [a \in Age |-> IF a = 0 THEN 0 ELSE passes[a - 1]]
        /\ blind' = [a \in Age |-> IF a = 0 THEN 0 ELSE blind[a - 1]]
        /\ count'["rl"] = IF t = 1 THEN 0 ELSE c
        /\ ttl'["rl"] = OneLess(t)
    BY <1>0, <1>7 DEF Tick
  <2>1. /\ ByCount' = [a \in Age |-> IF a = 0 THEN 0 ELSE ByCount[a - 1]]
        /\ count'["rl"] = IF t = 1 THEN 0 ELSE c
        /\ ttl'["rl"] = OneLess(t)
    BY <1>0, <2>0, ByCountMoves
  <2>2. \A m \in Int : m + 1 < W /\ m + 1 >= 0 => Young(m + 1)' = Young(m)
    BY <1>0, <2>1, YoungOlder
  <2>3. Young(W - 1)' = Young(W - 2)
    <3>1. W - 2 \in Int /\ W - 2 + 1 = W - 1 /\ W - 1 >= 0
      OBVIOUS
    <3> QED
      BY <2>2, <3>1
  <2>4. Young(W - 2) \in Nat /\ Young(W - 2) <= Young(W - 1)
    BY <1>1
  <2>5. CASE t = 0
    <3>1. ttl'["rl"] = 0 /\ count'["rl"] = c
      BY <2>1, <2>5 DEF OneLess
    <3>2. PassedNow' = n
      BY <3>1 DEF PassedNow
    <3> QED
      BY <1>0, <1>1, <2>3, <2>4, <3>1, <3>2, PassesAreNext
  <2>6. CASE t = 1
    <3>1. ttl'["rl"] = 0 /\ count'["rl"] = 0
      BY <2>1, <2>6 DEF OneLess
    <3>2. PassedNow' = 0
      BY <3>1 DEF PassedNow
    <3>3. Young(W - 2) < n /\ n <= L
      BY <1>1, <2>6
    <3> QED
      BY <1>0, <2>3, <2>4, <3>1, <3>2, <3>3, PassesAreNext
  <2>7. CASE t > 1
    <3>1. ttl'["rl"] = t - 1 /\ count'["rl"] = c
      BY <2>1, <2>7 DEF OneLess
    <3>2. PassedNow' = n
      BY <3>1 DEF PassedNow
    <3>3. Young(W - (t - 1) - 1)' = Young(W - t - 1)
      <4>1. W - t - 1 \in Int /\ W - t - 1 + 1 = W - (t - 1) - 1
            /\ W - t - 1 + 1 < W /\ W - t - 1 + 1 >= 0
        BY <1>0, <2>7
      <4> QED
        BY <2>2, <4>1
    <3> QED
      BY <1>0, <1>1, <2>3, <2>4, <2>7, <3>1, <3>2, <3>3, PassesAreNext
  <2> QED
    BY <2>5, <2>6, <2>7
<1>8. CASE UNCHANGED vars
  BY <1>0, <1>2, <1>8, ByCountMoves DEF vars
<1>9. ASSUME NEW w \in Worker, CountFails(w) PROVE PassesInv'
  BY <1>0, <1>2, <1>9, ByCountMoves DEF CountFails
<1>10. ASSUME NEW k \in Counter, CountLost(k) PROVE PassesInv'
  <2>1. /\ count'["rl"] = (IF k = "rl" /\ c <= L THEN c + 1 ELSE c) /\ ttl'["rl"] = t
        /\ UNCHANGED <<passes, blind>>
    BY <1>0, <1>10 DEF CountLost, Incr
  <2>2. PassedNow' \in {n, n + 1}
    BY <2>1 DEF PassedNow
  <2>3. ByCount' = ByCount
    BY <1>0, <2>1, ByCountMoves
  <2>4. Young(W - 1)' = Young(W - 1) /\ Young(W - t - 1)' = Young(W - t - 1)
    BY <2>3 DEF Young
  <2>5. t > 0 => W - t - 1 \in Int /\ W - t - 1 < W
    OBVIOUS
  <2> QED
    BY <1>0, <1>1, <2>1, <2>2, <2>4, <2>5, PassesAreNext
<1> QED
  BY <1>3, <1>4, <1>5, <1>6, <1>7, <1>8, <1>9, <1>10 DEF Next

\* In a time as long as the window fewer than twice the limit pass, and those whose INCR
\* failed, however late the EXPIRE comes (middleware/ratelimit.go:25-36).
THEOREM PassesAreBounded == Spec => []PassesBounded
<1>1. Init => PassesInv
  <2> SUFFICES ASSUME Init PROVE PassesInv
    OBVIOUS
  <2>1. TypeOK /\ ttl["rl"] = 0 /\ PassedNow = 0 /\ ByCount = [a \in Age |-> 0]
    BY TypeInit, AgeTypes DEF Init, PassedNow, Counter, ByCount
  <2>2. Young(Window - 1) = 0
    BY <2>1, AgeTypes, SumZero DEF Young
  <2> QED
    BY <2>1, <2>2, AgeTypes, PassesAre
<1>2. PassesInv => PassesBounded
  <2> SUFFICES ASSUME PassesInv PROVE PassesBounded
    OBVIOUS
  <2>1. PassedNow <= Limit["rl"] /\ PassedNow \in Nat
    BY AgeTypes DEF PassesInv, TypeOK, PassedNow, Counter
  <2>2. PassesOK /\ ByCount \in [Age -> Nat] /\ IsFiniteSet(Age)
    <3>1. PassesOK
      BY DEF PassesInv, TypeOK, PassesOK
    <3>2. IsFiniteSet(0 .. Window - 1)
      BY AgeTypes
    <3> QED
      BY <3>1, <3>2, AgeTypes, ByCountType
  <2>3. \A a \in Age : passes[a] = ByCount[a] + blind[a]
    BY <2>2 DEF PassesOK, ByCount
  <2>4. IntOn(ByCount, Age) /\ IntOn(blind, Age)
    BY <2>2 DEF PassesOK, IntOn
  <2>5. SumFunctionOnSet(passes, Age) = SumFunctionOnSet(ByCount, Age) + SumFunctionOnSet(blind, Age)
    BY <2>2, <2>3, <2>4, SumPlus
  <2>6. SumFunctionOnSet(ByCount, Age) \in Int /\ SumFunctionOnSet(blind, Age) \in Int
    BY <2>2, <2>4, SumType
  <2> QED
    BY <2>1, <2>5, <2>6, AgeTypes DEF PassesInv, PassesBounded
<1> QED
  BY <1>1, <1>2, PassesNext, PTL DEF Spec

=============================================================================
