----------------------------- MODULE ClientKeys -----------------------------
(***************************************************************************)
(* What Redis keeps for one client: the counter of the rate limit          *)
(* (middleware/ratelimit.go), the counter of failed logins                 *)
(* (handlers/auth.go) and the marks of the views that were tracked         *)
(* (handlers/traffic.go), with the tables that count the views.            *)
(*                                                                         *)
(* A counter is an INCR and, when it created the key, an EXPIRE; a view is *)
(* a SETNX and two statements of the database.  Redis may fail at any      *)
(* command, before or after it has run it, and go-redis may have sent the  *)
(* command a second time before it gives up: all three go on without it.   *)
(*                                                                         *)
(* There is no clock.  Keys have the time they still live, passes have     *)
(* their age, views the day they belong to: today (0) or yesterday (1).    *)
(***************************************************************************)
EXTENDS Integers, FiniteSets, Functions

CONSTANTS
    Worker,          \* requests of the client that are in progress at once
    Limit,           \* of each counter: 100 requests, 10 failures
    Window,          \* the life of a counter: a minute
    DayLength,
    MaxBlind         \* bound: requests let through without a count, in one window

Counter == {"rl", "login"}

ASSUME ClientKeysAssumption ==
    /\ IsFiniteSet(Worker)
    /\ Limit \in [Counter -> Nat \ {0}]
    /\ Window \in Nat \ {0}
    /\ DayLength \in Nat \ {0}
    /\ MaxBlind \in Nat

VARIABLES
    count,           \* the counters' values, 0 without a key
    ttl,             \* what is left of a counter's life, 0 without expiry
    views,           \* the views of one comic by the client, by day
    req,             \* what each worker is doing
    phase,           \* the time of day
    passes,          \* history: requests the rate limit let through, by their age
    blind,           \* history: those of them that had no count, as INCR failed
    cut              \* history: an EXPIRE of the counter's key was lost or never sent

vars == <<count, ttl, views, req, phase, passes, blind, cut>>

Day == {0, 1}
Age == 0 .. Window - 1

\* mark: the life left of the key, 0 without one; logged, shown: how often the view is
\* in traffic_logs and in comics.views, 2 for more; fault: history, see ViewCountedOnce.
\* Nothing is said of the counts of a day with a fault, and they are not kept.
NoView == [mark |-> 0, logged |-> 0, shown |-> 0, fault |-> FALSE]
View   == [mark : 0 .. DayLength, logged : 0 .. 2, shown : 0 .. 2, fault : BOOLEAN]

Faulty(v) == [mark |-> v.mark, logged |-> 0, shown |-> 0, fault |-> TRUE]

\* Mutant: the mark lives for two days.
Marked_TwoDays(v) == [v EXCEPT !.mark = 2 * DayLength]

Marked(v) == [v EXCEPT !.mark = DayLength]

(***************************************************************************)
(* A request in progress.  stage says which command comes next:            *)
(*   expire  EXPIRE of counter key                                         *)
(*   mark    SETNX of the view's key                                       *)
(*   log     INSERT into traffic_logs                                      *)
(*   show    UPDATE of comics.views                                        *)
(***************************************************************************)
Request == [stage : {"idle", "expire", "mark", "log", "show"}, key : Counter, day : Day]
NoRequest == [stage |-> "idle", key |-> "rl", day |-> 0]

Goto(w, s) == req' = [req EXCEPT ![w] = [@ EXCEPT !.stage = s]]
Done(w)    == req' = [req EXCEPT ![w] = NoRequest]

Idle(w) == req[w].stage = "idle"

Tracking(d) == {w \in Worker : req[w].stage \in {"mark", "log", "show"} /\ req[w].day = d}
Expiring(k) == {w \in Worker : req[w].stage = "expire" /\ req[w].key = k}

Init ==
    /\ count = [k \in Counter |-> 0]
    /\ ttl = [k \in Counter |-> 0]
    /\ views = [d \in Day |-> NoView]
    /\ req = [w \in Worker |-> NoRequest]
    /\ phase = 0
    /\ passes = [a \in Age |-> 0]
    /\ blind = [a \in Age |-> 0]
    /\ cut = [k \in Counter |-> FALSE]

-----------------------------------------------------------------------------
(***************************************************************************)
(* The counters.                                                           *)
(***************************************************************************)

\* INCR.  All that is looked at is whether the result is 1 or passes the limit.
Incr(n, k) == IF n <= Limit[k] THEN n + 1 ELSE n

\* Mutant: the limit is passed by one.
Passes_OneMore(n) == n <= Limit["rl"] + 1

\* RateLimit calls the handler; otherwise the answer is 429.
Passes(n) == n <= Limit["rl"]

\* RateLimit, and markLoginFailure, whose result only chooses between 401 and 429:
\* Login looks at no counter before it compares the password.
Count(w, k) ==
    LET n == Incr(count[k], k) IN
    /\ Idle(w)
    /\ count' = [count EXCEPT ![k] = n]
    /\ req' = IF n = 1 THEN [req EXCEPT ![w] = [stage |-> "expire", key |-> k, day |-> 0]]
                       ELSE req
    /\ passes' = IF k = "rl" /\ Passes(n) THEN [passes EXCEPT ![0] = @ + 1] ELSE passes
    /\ UNCHANGED <<ttl, views, phase, blind, cut>>

\* INCR fails and RateLimit calls the handler all the same.  A login whose INCR fails
\* is answered 401 and changes nothing.
CountFails(w) ==
    /\ Idle(w)
    /\ SumFunctionOnSet(blind, Age) < MaxBlind
    /\ passes' = [passes EXCEPT ![0] = @ + 1]
    /\ blind' = [blind EXCEPT ![0] = @ + 1]
    /\ UNCHANGED <<count, ttl, views, req, phase, cut>>

\* Redis runs an INCR whose answer is lost, before the command is sent again or given
\* up.  Nobody learns that it created the key, and no EXPIRE follows.
CountLost(k) ==
    /\ count' = [count EXCEPT ![k] = Incr(@, k)]
    /\ cut' = [cut EXCEPT ![k] = @ \/ count[k] = 0]
    /\ UNCHANGED <<ttl, views, req, phase, passes, blind>>

\* Mutant: no EXPIRE.
Expire_Skipped(w) ==
    LET k == req[w].key IN
    /\ req[w].stage = "expire"
    /\ Done(w)
    /\ UNCHANGED <<count, ttl, views, phase, passes, blind, cut>>

\* EXPIRE; nothing happens to a key that is not there any more.
Expire(w) ==
    LET k == req[w].key IN
    /\ req[w].stage = "expire"
    /\ ttl' = [ttl EXCEPT ![k] = IF count[k] = 0 THEN 0 ELSE Window]
    /\ Done(w)
    /\ UNCHANGED <<count, views, phase, passes, blind, cut>>

\* EXPIRE fails, which nobody looks at, or the process stops before it.
ExpireLost(w) ==
    /\ req[w].stage = "expire"
    /\ cut' = [cut EXCEPT ![req[w].key] = count[req[w].key] # 0]
    /\ Done(w)
    /\ UNCHANGED <<count, ttl, views, phase, passes, blind>>

\* The DEL after a login that succeeded.
ClearLoginFailures ==
    /\ count["login"] # 0
    /\ count' = [count EXCEPT !["login"] = 0]
    /\ ttl' = [ttl EXCEPT !["login"] = 0]
    /\ cut' = [cut EXCEPT !["login"] = FALSE]
    /\ UNCHANGED <<views, req, phase, passes, blind>>

-----------------------------------------------------------------------------
(***************************************************************************)
(* The views.                                                              *)
(***************************************************************************)

\* The day is computed.
TrackView(w) ==
    /\ Idle(w)
    /\ req' = [req EXCEPT ![w] = [stage |-> "mark", key |-> "rl", day |-> 0]]
    /\ UNCHANGED <<count, ttl, views, phase, passes, blind, cut>>

\* Mutant: SET instead of SETNX.
SetMark_Always(w) ==
    LET d == req[w].day IN
    /\ req[w].stage = "mark"
    /\ Goto(w, "log")
    /\ views' = [views EXCEPT ![d] = IF d = 0 THEN Marked(@) ELSE Marked(Faulty(@))]
    /\ UNCHANGED <<count, ttl, phase, passes, blind, cut>>

\* SETNX for a day.  A request whose day was over finds the key, or sets one when the
\* key has expired.
SetMark(w) ==
    LET d == req[w].day IN
    /\ req[w].stage = "mark"
    /\ IF views[d].mark # 0
         THEN /\ Done(w)
              /\ UNCHANGED views
         ELSE /\ Goto(w, "log")
              /\ views' = [views EXCEPT ![d] = IF d = 0 THEN Marked(@) ELSE Marked(Faulty(@))]
    /\ UNCHANGED <<count, ttl, phase, passes, blind, cut>>

\* SETNX fails: the view counts.
MarkFails(w) ==
    LET d == req[w].day IN
    /\ req[w].stage = "mark"
    /\ Goto(w, "log")
    /\ views' = [views EXCEPT ![d] = Faulty(@)]
    /\ UNCHANGED <<count, ttl, phase, passes, blind, cut>>

\* Redis sets the key and the answer is lost.  When the command is sent again it finds
\* the key, and the view is taken for one that was counted.
MarkLost(w) ==
    LET d == req[w].day IN
    /\ req[w].stage = "mark"
    /\ views[d].mark = 0
    /\ views' = [views EXCEPT ![d] = Marked(Faulty(@))]
    /\ UNCHANGED req
    /\ UNCHANGED <<count, ttl, phase, passes, blind, cut>>

Kept(n, fault) == IF fault \/ n = 2 THEN n ELSE n + 1

\* The INSERT, whose ON CONFLICT adds 1 to the row of the day.
LogView(w) ==
    LET d == req[w].day IN
    /\ req[w].stage = "log"
    /\ views' = [views EXCEPT ![d] = [@ EXCEPT !.logged = Kept(views[d].logged, views[d].fault)]]
    /\ Goto(w, "show")
    /\ UNCHANGED <<count, ttl, phase, passes, blind, cut>>

ShowView(w) ==
    LET d == req[w].day IN
    /\ req[w].stage = "show"
    /\ views' = [views EXCEPT ![d] = [@ EXCEPT !.shown = Kept(views[d].shown, views[d].fault)]]
    /\ Done(w)
    /\ UNCHANGED <<count, ttl, phase, passes, blind, cut>>

\* A statement fails, or the process stops.  The mark stays: a retry is answered
\* "deduped".
ViewFails(w) ==
    LET d == req[w].day IN
    /\ req[w].stage \in {"log", "show"}
    /\ views' = [views EXCEPT ![d] = Faulty(@)]
    /\ Done(w)
    /\ UNCHANGED <<count, ttl, phase, passes, blind, cut>>

-----------------------------------------------------------------------------
(***************************************************************************)
(* Time.                                                                   *)
(***************************************************************************)

OneLess(n) == IF n > 0 THEN n - 1 ELSE 0
Older(v)   == [v EXCEPT !.mark = OneLess(v.mark)]

\* Bound: a request takes less than a day.  A day that is over and that no request
\* belongs to is forgotten: the day is part of the key, nobody asks for it again.
Tick ==
    LET midnight == phase = DayLength - 1 IN
    /\ midnight => Tracking(1) = {}
    /\ phase' = IF midnight THEN 0 ELSE phase + 1
    /\ views' = [d \in Day |-> IF ~midnight THEN Older(views[d])
                               ELSE IF d = 1 /\ Tracking(0) # {} THEN Older(views[0])
                               ELSE NoView]
    /\ req' = [w \in Worker |-> IF midnight /\ w \in Tracking(0)
                                  THEN [req[w] EXCEPT !.day = 1] ELSE req[w]]
    /\ count' = [k \in Counter |-> IF ttl[k] = 1 THEN 0 ELSE count[k]]
    /\ ttl' = [k \in Counter |-> OneLess(ttl[k])]
    /\ passes' = [a \in Age |-> IF a = 0 THEN 0 ELSE passes[a - 1]]
    /\ blind' = [a \in Age |-> IF a = 0 THEN 0 ELSE blind[a - 1]]
    /\ cut' = [k \in Counter |-> cut[k] /\ ttl[k] # 1]

Next ==
    \/ \E w \in Worker, k \in Counter : Count(w, k)
    \/ \E w \in Worker : CountFails(w) \/ Expire(w) \/ ExpireLost(w)
    \/ \E k \in Counter : CountLost(k)
    \/ ClearLoginFailures
    \/ \E w \in Worker :
          \/ TrackView(w) \/ SetMark(w) \/ MarkFails(w) \/ MarkLost(w)
          \/ LogView(w) \/ ShowView(w) \/ ViewFails(w)
    \/ Tick

Spec == Init /\ [][Next]_vars

-----------------------------------------------------------------------------
(***************************************************************************)
(* Properties.                                                             *)
(***************************************************************************)

\* The counters, the views of both days and the requests keep their types; a counter
\* without a key has no life left.
TypeOK ==
    /\ count \in [Counter -> Nat] /\ \A k \in Counter : count[k] <= Limit[k] + 1
    /\ ttl \in [Counter -> Nat] /\ \A k \in Counter : ttl[k] <= Window
    /\ \A k \in Counter : count[k] = 0 => ttl[k] = 0
    /\ views \in [Day -> View]
    /\ req \in [Worker -> Request]
    /\ phase \in 0 .. DayLength - 1
    /\ passes \in [Age -> Nat]
    /\ blind \in [Age -> Nat] /\ \A a \in Age : blind[a] <= passes[a]
    /\ cut \in [Counter -> BOOLEAN]

\* The rate limit counts from the first request of a key on, not back from each
\* request: in a time as long as the window nearly twice the limit can pass.  More can
\* pass only by as many requests as had their INCR fail, however late the EXPIRE comes
\* and however often an INCR is repeated (middleware/ratelimit.go:25-36).
PassesBounded ==
    SumFunctionOnSet(passes, Age) < 2 * Limit["rl"] + SumFunctionOnSet(blind, Age)

\* A counter that never expires - the client would be refused for ever - is one whose
\* EXPIRE is still to come, or was lost, or was never sent because the answer of the
\* INCR that created it was lost: no DEL, expiry or INCR beside it leaves one
\* (middleware/ratelimit.go:25-31, auth.go:148-150, 161).
NoExpiryOnlyCutOff ==
    \A k \in Counter : count[k] # 0 /\ ttl[k] = 0 => Expiring(k) # {} \/ cut[k]

\* A device's view of a comic on a day is counted once, in both tables, when its mark
\* is there and no request is in progress - unless a command failed in between, which
\* loses it or counts it again, or a request set the mark after its day was over
\* (traffic.go:20, 39-58).
ViewCountedOnce ==
    \A d \in Day : ~views[d].fault /\ Tracking(d) = {} =>
       /\ views[d].logged = views[d].shown
       /\ views[d].logged <= 1
       /\ views[d].mark # 0 => views[d].logged = 1

-----------------------------------------------------------------------------
(***************************************************************************)
(* The inductive invariant behind PassesBounded (ClientKeys_proofs): what  *)
(* passed by its count under an earlier key and is still in the window is  *)
(* less than the limit, because the request whose INCR made that key is    *)
(* not in it any more.                                                     *)
(***************************************************************************)

\* Requests that passed because their count was within the limit, by their age.
ByCount == [a \in Age |-> passes[a] - blind[a]]

\* Those of them that passed under the key, at most.
PassedNow == IF count["rl"] <= Limit["rl"] THEN count["rl"] ELSE Limit["rl"]

PassesInv ==
    /\ TypeOK
    /\ SumFunctionOnSet(ByCount, Age) < Limit["rl"] + PassedNow
    /\ ttl["rl"] > 0 => SumFunctionOnSet(ByCount, 0 .. Window - ttl["rl"] - 1) < PassedNow

(***************************************************************************)
(* The inductive invariant behind ViewCountedOnce (ClientKeys_proofs).     *)
(***************************************************************************)
Counting(s, d) == {w \in Worker : req[w].stage = s /\ req[w].day = d}

\* One request at most counts a view, and the mark outlives the day it was set on.
CountedBy(d) ==
    LET v == views[d]
        log == Counting("log", d)
        show == Counting("show", d)
    IN
    /\ \A a, b \in log \cup show : a = b
    /\ log # {} => v.logged = 0 /\ v.shown = 0
    /\ show # {} => v.logged = 1 /\ v.shown = 0
    /\ log = {} /\ show = {} =>
          /\ v.logged = v.shown /\ v.logged <= 1
          /\ v.mark # 0 => v.logged = 1
    /\ d = 0 /\ v.mark = 0 => log = {} /\ show = {} /\ v.logged = 0 /\ v.shown = 0

ViewInv ==
    /\ TypeOK
    /\ views[0].mark # 0 => views[0].mark + phase >= DayLength
    /\ \A d \in Day : ~views[d].fault => CountedBy(d)
=============================================================================
