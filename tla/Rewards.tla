------------------------------- MODULE Rewards -------------------------------
(***************************************************************************)
(* Points for reading: RewardRead (internal/handlers/reward.go), the ad    *)
(* settings and ad-blocker reports it looks at (ads.go, admin_ads.go) and  *)
(* the admin's actions on points (admin.go).                               *)
(*                                                                         *)
(* RewardRead looks at the settings, at the user's ad-blocker report and   *)
(* at the number of rewards of the day, each with a SELECT of its own, and *)
(* only then opens the transaction that rewards the chapter.  The          *)
(* transaction takes no lock on what it read and reading_history has no    *)
(* unique key (models.go:103-112), so requests of one user interleave.     *)
(* What a transaction writes is visible from its commit.                   *)
(***************************************************************************)
EXTENDS Integers, FiniteSets, Functions

CONSTANTS
    User,        \* registered users
    Chapter,     \* chapters of comics
    Worker,      \* requests that can be in progress at once
    Setting,     \* primary keys of ads_settings, used or still free
    Limit,       \* rewards a day, 30 in the code
    Bonus,       \* points of AdminDistributeRewards, 5 in the code
    Amount,      \* bound: the points AdminManualPoints is asked for
    MaxDay,      \* bound: the last day
    MaxPoints,   \* bound: admins move balances and log sums within 0 .. MaxPoints only
    NoUser, NoChapter, NoSetting

ASSUME RewardsAssumption ==
    /\ NoUser \notin User /\ NoChapter \notin Chapter /\ NoSetting \notin Setting
    /\ Setting \subseteq Nat
    /\ IsFiniteSet(Worker)
    /\ Limit \in Nat \ {0}
    /\ Bonus \in Nat
    /\ Amount \subseteq Int \ {0}
    /\ MaxDay \in Nat /\ MaxPoints \in Nat

VARIABLES
    day,         \* the UTC day, DayBoundsUTC(now)
    settings,    \* ads_settings.adsense_enabled of every row
    adblock,     \* user_adblock.adblock
    history,     \* reading_history: how many rows a user and chapter have
    readOn,      \* reading_history: the days of read_at in a user's rows
    points,      \* users.points
    logged,      \* points_log: the sum of a user's entries
    reads,       \* points_log: a user's entries of a day with reason read
    req,         \* what each worker is doing
    blocked,     \* history: rewards since a user's ad blocker shuts him out, but of
                 \* requests that could not read the report
    readToday,   \* history: a reading of the user was answered 409 or saved today
    dirty        \* history: the balance was reset, or a log entry was lost

tables == <<settings, adblock, history, readOn, points, logged, reads>>
ghosts == <<blocked, readToday, dirty>>
vars   == <<day, tables, req, ghosts>>

Day == 0 .. MaxDay

(***************************************************************************)
(* A request in progress.  stage says which statement comes next:          *)
(*   create   insert the ad settings that were not found                   *)
(*   status   read the user's ad-blocker report (RewardRead)               *)
(*   count    count the user's rewards of the day (RewardRead)             *)
(*   find     find the history row, save read_at (RewardRead, transaction) *)
(*   commit   the rest of the transaction and its commit (RewardRead)      *)
(*   update   write the ad settings (AdminUpdateAdsSettings)               *)
(*   report   write the ad-blocker report (AdsCheck)                       *)
(*   pay      the next recipient's balance (AdminDistributeRewards)        *)
(*   log      the log entry of a payment (AdminManualPoints, ...)          *)
(***************************************************************************)
Stage == {"idle", "create", "status", "count", "find", "commit", "update",
          "report", "pay", "log"}

Request == [stage : Stage, op : {"none", "reward", "unseen", "get", "update"},
            user : User \cup {NoUser}, chapter : Chapter \cup {NoChapter},
            value : BOOLEAN, found : BOOLEAN, row : Setting \cup {NoSetting},
            day : Day, amount : Int, todo : SUBSET User]

Idle == [stage |-> "idle", op |-> "none", user |-> NoUser, chapter |-> NoChapter,
         value |-> FALSE, found |-> FALSE, row |-> NoSetting,
         day |-> 0, amount |-> 0, todo |-> {}]

Goto(w, s) == req' = [req EXCEPT ![w].stage = s]
Finish(w)  == req' = [req EXCEPT ![w] = Idle]

-----------------------------------------------------------------------------
\* getOrCreateAdsSettings: First orders by primary key.
IsFirst(s) == settings[s] # "none" /\ \A r \in Setting : r < s => settings[r] = "none"
NoRows     == \A s \in Setting : settings[s] = "none"

AdsOff == \E s \in Setting : IsFirst(s) /\ settings[s] = "off"

\* RewardRead refuses a user with a report of an ad blocker while ads are on.
Blocking(u) == ~AdsOff /\ adblock[u] = "yes"

CountBlocked == blocked' = [u \in User |-> IF Blocking(u) /\ Blocking(u)' THEN blocked[u] ELSE 0]

Bounded(u, n) == {points[u] + n, logged[u] + n} \subseteq 0 .. MaxPoints

Init ==
    /\ day = 0
    /\ settings = [s \in Setting |-> "none"]
    /\ adblock = [u \in User |-> "none"]
    /\ history = [u \in User |-> [c \in Chapter |-> 0]]
    /\ readOn = [u \in User |-> {}]
    /\ points = [u \in User |-> 0]
    /\ logged = [u \in User |-> 0]
    /\ reads = [u \in User |-> [d \in Day |-> 0]]
    /\ req = [w \in Worker |-> Idle]
    /\ blocked = [u \in User |-> 0]
    /\ readToday = [u \in User |-> FALSE]
    /\ dirty = [u \in User |-> FALSE]

-----------------------------------------------------------------------------
(***************************************************************************)
(* RewardRead, from the settings to the commit.  The request itself says   *)
(* whether the browser has an ad blocker now (ab).                         *)
(***************************************************************************)

RewardRead(w, u, c, ab) ==
    /\ req[w].stage = "idle"
    /\ \E s \in {"create", "status", "count"} :
          /\ s = "create" => NoRows
          /\ s = "status" => ~NoRows /\ ~AdsOff /\ ~ab
          /\ s = "count" => AdsOff
          /\ req' = [req EXCEPT ![w] = [Idle EXCEPT !.stage = s, !.op = "reward", !.user = u,
                                                    !.chapter = c, !.value = ab]]
    /\ UNCHANGED <<day, tables, ghosts>>

\* Mutant: an update does not keep the key of the row it created.
CreateSettings_NoRow(w) ==
    /\ req[w].stage = "create"
    /\ \E s \in Setting :
          /\ settings[s] = "none"
          /\ settings' = [settings EXCEPT ![s] = "on"]
          /\ \/ req[w].op = "get" /\ Finish(w)
             \/ req[w].op = "update" /\ Goto(w, "update")
             \/ req[w].op = "reward" /\ req[w].value /\ Finish(w)
             \/ req[w].op = "reward" /\ ~req[w].value /\ Goto(w, "status")
    /\ UNCHANGED adblock /\ CountBlocked
    /\ UNCHANGED <<day, history, readOn, points, logged, reads, readToday, dirty>>

\* The settings were not found: any free key, ads on.  Then each caller goes on.
CreateSettings(w) ==
    /\ req[w].stage = "create"
    /\ \E s \in Setting :
          /\ settings[s] = "none"
          /\ settings' = [settings EXCEPT ![s] = "on"]
          /\ \/ req[w].op = "get" /\ Finish(w)
             \/ /\ req[w].op = "update"
                /\ req' = [req EXCEPT ![w] = [@ EXCEPT !.stage = "update", !.row = s]]
             \/ req[w].op = "reward" /\ req[w].value /\ Finish(w)
             \/ req[w].op = "reward" /\ ~req[w].value /\ Goto(w, "status")
    /\ UNCHANGED adblock /\ CountBlocked
    /\ UNCHANGED <<day, history, readOn, points, logged, reads, readToday, dirty>>

\* Mutant: the stored report is not looked at.
ReadStatus_Ignored(w) ==
    /\ req[w].stage = "status"
    /\ Goto(w, "count")
    /\ UNCHANGED <<day, tables, ghosts>>

\* A report that cannot be read counts as none: the request goes on, unseen.
ReadStatus(w) ==
    /\ req[w].stage = "status"
    /\ \/ adblock[req[w].user] = "yes" /\ Finish(w)
       \/ adblock[req[w].user] # "yes" /\ Goto(w, "count")
       \/ req' = [req EXCEPT ![w] = [@ EXCEPT !.stage = "count", !.op = "unseen"]]
    /\ UNCHANGED <<day, tables, ghosts>>

\* Mutant: > for >=.
CountReads_OffByOne(w) ==
    /\ req[w].stage = "count"
    /\ \/ reads[req[w].user][day] > Limit /\ Finish(w)
       \/ reads[req[w].user][day] <= Limit /\ Goto(w, "find")
    /\ UNCHANGED <<day, tables, ghosts>>

CountReads(w) ==
    /\ req[w].stage = "count"
    /\ \/ reads[req[w].user][day] >= Limit /\ Finish(w)
       \/ reads[req[w].user][day] < Limit /\ Goto(w, "find")
    /\ UNCHANGED <<day, tables, ghosts>>

\* Mutant: a history row of an earlier day does not stop the reward.
FindHistory_Today(w) ==
    LET q == req[w] IN
    /\ q.stage = "find"
    /\ \/ /\ history[q.user][q.chapter] > 0 /\ day \in readOn[q.user]
          /\ readToday' = [readToday EXCEPT ![q.user] = TRUE]
          /\ Finish(w)
       \/ /\ history[q.user][q.chapter] = 0 \/ day \notin readOn[q.user]
          /\ req' = [req EXCEPT ![w] = [@ EXCEPT !.stage = "commit", !.day = day]]
          /\ UNCHANGED readToday
    /\ UNCHANGED <<day, tables, blocked, dirty>>

\* A row that is found was rewarded in the transaction that inserted it: read_at
\* is saved, then "chapter already rewarded" rolls the save back.  A row that is
\* not found is inserted with today's read_at.
FindHistory(w) ==
    LET q == req[w] IN
    /\ q.stage = "find"
    /\ \/ /\ history[q.user][q.chapter] > 0
          /\ readToday' = [readToday EXCEPT ![q.user] = TRUE]
          /\ Finish(w)
       \/ /\ history[q.user][q.chapter] = 0
          /\ req' = [req EXCEPT ![w] = [@ EXCEPT !.stage = "commit", !.day = day]]
          /\ UNCHANGED readToday
    /\ UNCHANGED <<day, tables, blocked, dirty>>

\* Mutant: the reward is not logged.
RewardCommit_NoLog(w) ==
    LET q == req[w] IN
    /\ q.stage = "commit"
    /\ history' = [history EXCEPT ![q.user][q.chapter] = @ + 1]
    /\ readOn' = [readOn EXCEPT ![q.user] = @ \cup {q.day}]
    /\ points' = [points EXCEPT ![q.user] = @ + 1]
    /\ readToday' = [readToday EXCEPT ![q.user] = @ \/ q.day = day]
    /\ blocked' = [blocked EXCEPT ![q.user] = @ + IF Blocking(q.user) /\ q.op # "unseen" THEN 1 ELSE 0]
    /\ Finish(w)
    /\ UNCHANGED <<day, settings, adblock, logged, reads, dirty>>

\* rewarded_at, the balance and the log entry; the entry's time was taken at
\* some point since the row was inserted.
RewardCommit(w) ==
    LET q == req[w] IN
    /\ q.stage = "commit"
    /\ history' = [history EXCEPT ![q.user][q.chapter] = @ + 1]
    /\ readOn' = [readOn EXCEPT ![q.user] = @ \cup {q.day}]
    /\ points' = [points EXCEPT ![q.user] = @ + 1]
    /\ logged' = [logged EXCEPT ![q.user] = @ + 1]
    /\ \E d \in q.day .. day : reads' = [reads EXCEPT ![q.user][d] = @ + 1]
    /\ readToday' = [readToday EXCEPT ![q.user] = @ \/ q.day = day]
    /\ blocked' = [blocked EXCEPT ![q.user] = @ + IF Blocking(q.user) /\ q.op # "unseen" THEN 1 ELSE 0]
    /\ Finish(w)
    /\ UNCHANGED <<day, settings, adblock, dirty>>

-----------------------------------------------------------------------------
(***************************************************************************)
(* Ad settings and ad-blocker reports.                                     *)
(***************************************************************************)

AdminGetAdsSettings(w) ==
    /\ req[w].stage = "idle"
    /\ NoRows
    /\ req' = [req EXCEPT ![w] = [Idle EXCEPT !.stage = "create", !.op = "get"]]
    /\ UNCHANGED <<day, tables, ghosts>>

AdminUpdateAdsSettings(w, on) ==
    /\ req[w].stage = "idle"
    /\ \/ /\ NoRows
          /\ req' = [req EXCEPT ![w] = [Idle EXCEPT !.stage = "create", !.op = "update",
                                                    !.value = on]]
       \/ \E s \in Setting :
             /\ IsFirst(s)
             /\ req' = [req EXCEPT ![w] = [Idle EXCEPT !.stage = "update", !.op = "update",
                                                       !.value = on, !.row = s]]
    /\ UNCHANGED <<day, tables, ghosts>>

UpdateSettings(w) ==
    /\ req[w].stage = "update"
    /\ settings' = [settings EXCEPT ![req[w].row] = IF req[w].value THEN "on" ELSE "off"]
    /\ Finish(w)
    /\ UNCHANGED adblock /\ CountBlocked
    /\ UNCHANGED <<day, history, readOn, points, logged, reads, readToday, dirty>>

\* AdsCheck finds the user's row or not ...
AdsCheck(w, u, ab) ==
    /\ req[w].stage = "idle"
    /\ req' = [req EXCEPT ![w] = [Idle EXCEPT !.stage = "report", !.user = u, !.value = ab,
                                              !.found = adblock[u] # "none"]]
    /\ UNCHANGED <<day, tables, ghosts>>

\* ... and saves or inserts it; user_id is unique, and a second insert fails.
ReportAdblock(w) ==
    LET q == req[w] IN
    /\ q.stage = "report"
    /\ \/ ~q.found /\ adblock[q.user] # "none" /\ UNCHANGED adblock
       \/ /\ q.found \/ adblock[q.user] = "none"
          /\ adblock' = [adblock EXCEPT ![q.user] = IF q.value THEN "yes" ELSE "no"]
    /\ Finish(w)
    /\ UNCHANGED settings /\ CountBlocked
    /\ UNCHANGED <<day, history, readOn, points, logged, reads, readToday, dirty>>

-----------------------------------------------------------------------------
(***************************************************************************)
(* The admin's actions on points.                                          *)
(***************************************************************************)

AdminResetPoints(u) ==
    /\ points' = [points EXCEPT ![u] = 0]
    /\ dirty' = [dirty EXCEPT ![u] = TRUE]
    /\ UNCHANGED <<day, settings, adblock, history, readOn, logged, reads, req, blocked, readToday>>

\* The balance first, the log entry in a second statement.
AdminManualPoints(w, u, n) ==
    /\ req[w].stage = "idle"
    /\ Bounded(u, n)
    /\ points' = [points EXCEPT ![u] = @ + n]
    /\ req' = [req EXCEPT ![w] = [Idle EXCEPT !.stage = "log", !.user = u, !.amount = n]]
    /\ UNCHANGED <<day, settings, adblock, history, readOn, logged, reads, ghosts>>

\* The recipients, and the loop over them.
AdminDistributeRewards(w) ==
    /\ req[w].stage = "idle"
    /\ req' = [req EXCEPT ![w] = [Idle EXCEPT !.stage = "pay",
                                              !.todo = {u \in User : day \in readOn[u]}]]
    /\ UNCHANGED <<day, tables, ghosts>>

Distributed(w) ==
    /\ req[w].stage = "pay"
    /\ req[w].todo = {}
    /\ Finish(w)
    /\ UNCHANGED <<day, tables, ghosts>>

\* Errors of the loop's statements are ignored: an UPDATE that fails is logged all the same.
PayBonus(w) ==
    /\ req[w].stage = "pay"
    /\ \E u \in req[w].todo :
          /\ Bounded(u, Bonus)
          /\ req' = [req EXCEPT ![w] = [req[w] EXCEPT !.stage = "log", !.user = u,
                                                      !.amount = Bonus,
                                                      !.todo = req[w].todo \ {u}]]
          /\ \/ points' = [points EXCEPT ![u] = @ + Bonus] /\ UNCHANGED dirty
             \/ dirty' = [dirty EXCEPT ![u] = TRUE] /\ UNCHANGED points
    /\ UNCHANGED <<day, settings, adblock, history, readOn, logged, reads, blocked, readToday>>

\* The insert of the log entry, of which errors are ignored, too.
LogPoints(w) ==
    LET q == req[w] IN
    /\ q.stage = "log"
    /\ \/ logged' = [logged EXCEPT ![q.user] = @ + q.amount] /\ UNCHANGED dirty
       \/ dirty' = [dirty EXCEPT ![q.user] = TRUE] /\ UNCHANGED logged
    /\ \/ q.todo = {} /\ Finish(w)
       \/ q.todo # {} /\ Goto(w, "pay")
    /\ UNCHANGED <<day, settings, adblock, history, readOn, points, reads, blocked, readToday>>

\* The request ends early: a statement fails or the process stops.  An open
\* transaction rolls back; a payment that was to be logged is not.
Abort(w) ==
    /\ req[w].stage # "idle"
    /\ dirty' = [u \in User |-> dirty[u] \/ (req[w].stage = "log" /\ req[w].user = u)]
    /\ Finish(w)
    /\ UNCHANGED <<day, tables, blocked, readToday>>

NextDay ==
    /\ day < MaxDay
    /\ day' = day + 1
    /\ readToday' = [u \in User |-> FALSE]
    /\ UNCHANGED <<tables, req, blocked, dirty>>

Next ==
    \/ \E w \in Worker :
          \/ \E u \in User, c \in Chapter, ab \in BOOLEAN : RewardRead(w, u, c, ab)
          \/ CreateSettings(w) \/ ReadStatus(w) \/ CountReads(w)
          \/ FindHistory(w) \/ RewardCommit(w)
          \/ AdminGetAdsSettings(w)
          \/ \E on \in BOOLEAN : AdminUpdateAdsSettings(w, on)
          \/ UpdateSettings(w)
          \/ \E u \in User, ab \in BOOLEAN : AdsCheck(w, u, ab)
          \/ ReportAdblock(w)
          \/ \E u \in User, n \in Amount : AdminManualPoints(w, u, n)
          \/ AdminDistributeRewards(w) \/ PayBonus(w) \/ LogPoints(w) \/ Distributed(w)
          \/ Abort(w)
    \/ \E u \in User : AdminResetPoints(u)
    \/ NextDay

Spec == Init /\ [][Next]_vars

-----------------------------------------------------------------------------
(***************************************************************************)
(* Properties.                                                             *)
(***************************************************************************)

\* What later statements of a request need of the earlier ones.
RequestOK(q) ==
    /\ q.stage \in {"status", "count", "find", "commit", "report", "log"} => q.user \in User
    /\ q.stage \in {"status", "count", "find", "commit"} => q.chapter \in Chapter
    /\ q.stage = "create" /\ q.op = "reward" => q.user \in User /\ q.chapter \in Chapter
    /\ q.stage = "commit" => q.day <= day
    /\ q.stage = "update" => q.row \in Setting /\ settings[q.row] # "none"

\* The values the tables and the requests can hold; an update of the settings
\* writes a row that exists (reward.go, ads.go:17-44, admin_ads.go:27-53, 165-179).
TypeOK ==
    /\ day \in Day
    /\ settings \in [Setting -> {"none", "on", "off"}]
    /\ adblock \in [User -> {"none", "yes", "no"}]
    /\ history \in [User -> [Chapter -> Nat]]
    /\ readOn \in [User -> SUBSET Day]
    /\ points \in [User -> Int]
    /\ logged \in [User -> Int]
    /\ reads \in [User -> [Day -> Nat]]
    /\ req \in [Worker -> Request]
    /\ \A w \in Worker : RequestOK(req[w])
    /\ blocked \in [User -> Nat]
    /\ readToday \in [User -> BOOLEAN]
    /\ dirty \in [User -> BOOLEAN]

\* The count of the day's rewards is read before the transaction, so requests at
\* once can pass the limit together: by no more than they are, less one, also
\* when they cross midnight (reward.go:48-57 against 90-110).
DailyLimit ==
    \A u \in User, d \in Day : reads[u][d] <= Limit - 1 + Cardinality(Worker)

\* A user is rewarded for a chapter once, or once for each request that was in
\* progress before the first reward was committed: the search for the history row
\* sees no row that another transaction is still to commit (reward.go:61-88).
ChapterLimit ==
    \A u \in User, c \in Chapter : history[u][c] <= Cardinality(Worker)

\* While ads are on and a user's report says he blocks them, only requests that
\* were past the check are still rewarded: one for each.  A request whose look at
\* the report failed goes on, and is not counted (reward.go:36-46).
AdblockStopsRewards ==
    \A u \in User : Blocking(u) => blocked[u] <= Cardinality(Worker)

\* The payments to u that are still to be logged, and what they add up to.
Logging(u) == {w \in Worker : req[w].stage = "log" /\ req[w].user = u}
Owed(u)    == SumFunctionOnSet([w \in Worker |-> req[w].amount], Logging(u))

\* A user's balance is the sum of the user's log entries and of the payments that
\* are just being logged, unless it was reset or a statement of an admin's
\* payment was lost (reward.go:95-110, admin.go:383-393, 904-911).
LedgerMatches == \A u \in User : ~dirty[u] => points[u] = logged[u] + Owed(u)

\* "Distribute 5 bonus points to all users who read at least 1 chapter today"
\* (admin.go:889): every user of whom RewardRead took in a chapter today is a
\* recipient, when no request of the user is in progress.
DistributePaysReaders ==
    [][\A w \in Worker : AdminDistributeRewards(w) =>
          \A u \in User :
             readToday[u] /\ (\A v \in Worker : req[v].user # u) => u \in req'[w].todo]_vars

-----------------------------------------------------------------------------
(***************************************************************************)
(* The inductive invariants behind the limits (Rewards_proofs): what was   *)
(* rewarded and what is past the check never exceed the bound together.    *)
(***************************************************************************)

\* Can still log a reward on day d.
Counting(u, d) ==
    {w \in Worker : /\ req[w].user = u
                    /\ \/ req[w].stage = "find" /\ day <= d
                       \/ req[w].stage = "commit" /\ req[w].day <= d}

LimitInv ==
    /\ TypeOK
    /\ \A u \in User, d \in Day :
          /\ d > day => reads[u][d] = 0
          /\ reads[u][d] + Cardinality(Counting(u, d)) <= Limit - 1 + Cardinality(Worker)

\* Past the search for the history row of chapter c.
Inserting(u, c) ==
    {w \in Worker : req[w].stage = "commit" /\ req[w].user = u /\ req[w].chapter = c}

ChapterInv ==
    /\ TypeOK
    /\ \A u \in User, c \in Chapter :
          history[u][c] + Cardinality(Inserting(u, c)) <= Cardinality(Worker)

\* Past the look at the ad-blocker report.
PastReport(u) ==
    {w \in Worker : /\ req[w].user = u /\ req[w].op # "unseen"
                    /\ req[w].stage \in {"count", "find", "commit"}}

BlockInv ==
    /\ TypeOK
    /\ \A u \in User : Blocking(u) =>
          blocked[u] + Cardinality(PastReport(u)) <= Cardinality(Worker)
=============================================================================
