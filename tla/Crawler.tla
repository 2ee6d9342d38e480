------------------------------- MODULE Crawler -------------------------------
(***************************************************************************)
(* Who crawls a comic, and when: the scheduler (internal/crawler/          *)
(* scheduler.go), the service that runs one comic (service.go, helpers.go, *)
(* runner.go) and the admin's actions on comics (handlers/admin.go).       *)
(*                                                                         *)
(* The scheduler is one goroutine; AdminRunCrawlerNow and AdminCreateComic *)
(* start goroutines of their own.  All of them run RunComic, with a copy   *)
(* of the comic's row and no lock, and write the row again when the job    *)
(* has ended.  What the job does to the chapters is left out.              *)
(*                                                                         *)
(* Instead of a clock the model keeps ages, the time since something       *)
(* happened, up to the longest interval: due() compares no more than that. *)
(***************************************************************************)
EXTENDS Integers, FiniteSets

CONSTANTS
    Comic,             \* primary keys of comics, in use or still free
    Manual,            \* goroutines of the admin's requests at once
    Sched,             \* the scheduler's goroutine
    NoComic,
    DailyInterval,     \* CRAWLER_INTERVAL_DAILY_MINUTES, in units of the clock
    ScheduleInterval,  \* CRAWLER_INTERVAL_SCHEDULE_MINUTES, in the same units
    WeekDays,          \* days of a week, 7 in the code
    Form,              \* the crawler settings that requests of the admin carry
    Fields,            \* sets of fields of a form that an update carries
    MaxAge,            \* bound: ages are counted up to here, the longest interval
    Deleting,          \* bound: whether comics are deleted
    Failing,           \* bound: whether statements fail and the process stops
    MaxLost            \* bound: log rows of a comic left at running

Task == Manual \cup {Sched}

FullSync == 1
Daily    == 2
Schedule == 3
Mode     == {FullSync, Daily, Schedule}

\* Mutant: the mode is stored as it comes.
Setting_RawMode(f) == [enabled |-> f.enabled, mode |-> f.mode, source |-> f.source,
                       interval |-> IF f.interval < 0 THEN 0 ELSE f.interval,
                       days |-> f.days \cap 1 .. WeekDays]

\* normalizeCrawlerMode, maxInt(.., 0) and WeekdaysToMask
Setting(f) == [enabled  |-> f.enabled,
               mode     |-> IF f.mode \in Mode THEN f.mode ELSE FullSync,
               source   |-> f.source,
               interval |-> IF f.interval < 0 THEN 0 ELSE f.interval,
               days     |-> f.days \cap 1 .. WeekDays]

\* pickInterval
Interval(s) ==
    IF s.interval > 0 THEN s.interval
    ELSE IF s.mode = Daily THEN DailyInterval ELSE ScheduleInterval

ASSUME CrawlerAssumption ==
    /\ IsFiniteSet(Comic) /\ IsFiniteSet(Manual) /\ Sched \notin Manual
    /\ NoComic \notin Comic
    /\ DailyInterval \in Nat \ {0} /\ ScheduleInterval \in Nat \ {0}
    /\ WeekDays \in Nat \ {0}
    /\ \A f \in Form : /\ f.enabled \in BOOLEAN /\ f.source \in BOOLEAN
                       /\ f.mode \in Int /\ f.interval \in Int /\ f.days \subseteq Int
                       /\ Interval(Setting(f)) <= MaxAge
    /\ \A p \in Fields : p \subseteq {"enabled", "mode", "source", "interval", "days"}
    /\ MaxAge \in Nat
    /\ Deleting \in BOOLEAN /\ Failing \in BOOLEAN
    /\ MaxLost \in Nat

VARIABLES
    there,       \* comics: "free", "there" or "deleted"
    conf,        \* comics: the crawler settings
    checked,     \* comics.crawler_last_checked_at, as an age; Never for NULL
    running,     \* crawler_logs: how many rows of a comic say running
    day,         \* the weekday in CRAWLER_TIMEZONE
    pending,     \* the ticker's channel holds a tick
    loop,        \* the scheduler: waiting for a tick, loading comics or running them
    queue,       \* the scheduler: copies of the comics still to run
    task,        \* the runs in progress
    begun,       \* history: the age of the scheduler's latest run of a comic; Never if
                 \* there is none, or nothing says any more that it holds back the next
    lost         \* history: rows of crawler_logs whose run ended without an update

comics == <<there, conf, checked>>
ghosts == <<begun, lost>>
sched  == <<pending, loop, queue>>
vars   == <<comics, running, day, sched, task, ghosts>>

Never == -1
Age   == 0 .. MaxAge
Older(a) == IF a = Never THEN Never ELSE IF a < MaxAge THEN a + 1 ELSE MaxAge

(***************************************************************************)
(* A run in progress.  stage says what comes next:                         *)
(*   fetch   read the comic (RunComicByID)                                 *)
(*   begin   take the time and insert the log row (RunComic)               *)
(*   job     the crawl job runs (JobRunner)                                *)
(*   log     update the log row (RunComic)                                 *)
(*   update  update the comic (RunComic)                                   *)
(* age is the time since the run took it; changed says that an admin wrote *)
(* the comic since the run copied it.                                      *)
(***************************************************************************)
Run == [stage : {"idle", "fetch", "begin", "job", "log", "update"},
        comic : Comic \cup {NoComic}, mode : Mode, age : Age,
        ok : BOOLEAN, logged : BOOLEAN, changed : BOOLEAN]

Idle == [stage |-> "idle", comic |-> NoComic, mode |-> FullSync, age |-> 0,
         ok |-> FALSE, logged |-> FALSE, changed |-> FALSE]

Copy == [comic : Comic, mode : Mode, changed : BOOLEAN]

Goto(t, s) == task' = [task EXCEPT ![t].stage = s]
Finish(t)  == task' = [task EXCEPT ![t] = Idle]

Unset == [enabled |-> FALSE, mode |-> FullSync, source |-> FALSE, interval |-> 0, days |-> {}]

\* The process starts on a database with or without comics, not crawled so far.
Init ==
    /\ there \in [Comic -> {"free", "there"}]
    /\ conf \in [Comic -> {Unset} \cup {Setting(f) : f \in Form}]
    /\ \A c \in Comic : there[c] = "free" => conf[c] = Unset
    /\ checked = [c \in Comic |-> Never]
    /\ running = [c \in Comic |-> 0]
    /\ day \in 1 .. WeekDays
    /\ pending = FALSE /\ loop = "wait" /\ queue = {}
    /\ task = [t \in Task |-> Idle]
    /\ begun = [c \in Comic |-> Never]
    /\ lost = [c \in Comic |-> 0]

-----------------------------------------------------------------------------
(***************************************************************************)
(* The scheduler.                                                          *)
(***************************************************************************)

\* The ticker's channel holds one tick; further ones are dropped.
Fire ==
    /\ ~pending
    /\ pending' = TRUE
    /\ UNCHANGED <<comics, running, day, loop, queue, task, ghosts>>

\* The loop receives a tick.  It runs runOnce itself, so it never finds its flag
\* running set, and the branch that skips a tick is dead.
TakeTick ==
    /\ loop = "wait" /\ pending
    /\ pending' = FALSE
    /\ loop' = "load"
    /\ UNCHANGED <<comics, running, day, queue, task, ghosts>>

IsDue(c, s) == checked[c] = Never \/ checked[c] >= Interval(s)

ShouldRun(c) ==
    LET s == conf[c] IN
    /\ there[c] = "there" /\ s.enabled /\ s.source
    /\ \/ s.mode = FullSync /\ checked[c] = Never
       \/ s.mode = Daily /\ IsDue(c, s)
       \/ s.mode = Schedule /\ day \in s.days /\ IsDue(c, s)

\* runOnce: one SELECT, and one time for all comics.  ShouldRun looks at nothing
\* else, so which of the comics are to run is known here.
LoadComics ==
    /\ loop = "load"
    /\ queue' = {[comic |-> c, mode |-> conf[c].mode, changed |-> FALSE] :
                    c \in {d \in Comic : ShouldRun(d)}}
    /\ loop' = "run"
    /\ UNCHANGED <<comics, running, day, pending, task, ghosts>>

LoadFails ==
    /\ Failing
    /\ loop = "load"
    /\ loop' = "wait"
    /\ UNCHANGED <<comics, running, day, pending, queue, task, ghosts>>

\* Mutant: the loop does not move on to the next comic.
RunNext_Again ==
    /\ loop = "run" /\ task[Sched].stage = "idle"
    /\ \E q \in queue :
          task' = [task EXCEPT ![Sched] =
                     [Idle EXCEPT !.stage = "begin", !.comic = q.comic, !.mode = q.mode,
                                  !.changed = q.changed]]
    /\ UNCHANGED <<comics, running, day, sched, ghosts>>

\* The next comic, in no particular order; the copy of its row is as old as the tick.
RunNext ==
    /\ loop = "run" /\ task[Sched].stage = "idle"
    /\ \E q \in queue :
          /\ queue' = queue \ {q}
          /\ task' = [task EXCEPT ![Sched] =
                        [Idle EXCEPT !.stage = "begin", !.comic = q.comic, !.mode = q.mode,
                                     !.changed = q.changed]]
    /\ UNCHANGED <<comics, running, day, pending, loop, ghosts>>

RunOnceReturns ==
    /\ loop = "run" /\ task[Sched].stage = "idle"
    /\ queue = {}
    /\ loop' = "wait"
    /\ UNCHANGED <<comics, running, day, pending, queue, task, ghosts>>

-----------------------------------------------------------------------------
(***************************************************************************)
(* RunComic.                                                               *)
(***************************************************************************)

\* RunComicByID: the row of the moment; RunComic refuses an empty source url.
Fetch(t) ==
    LET c == task[t].comic IN
    /\ task[t].stage = "fetch"
    /\ \/ /\ there[c] = "there" /\ conf[c].source
          /\ task' = [task EXCEPT ![t] = [@ EXCEPT !.stage = "begin", !.mode = conf[c].mode,
                                                   !.changed = FALSE]]
       \/ /\ there[c] # "there" \/ ~conf[c].source \/ Failing
          /\ Finish(t)
    /\ UNCHANGED <<comics, running, day, sched, ghosts>>

\* now, and the log row with status running; a run without a log row goes on.
Begin(t) ==
    LET c == task[t].comic IN
    /\ task[t].stage = "begin"
    /\ \E logged \in BOOLEAN :
          /\ logged \/ Failing
          /\ running' = [running EXCEPT ![c] = @ + IF logged THEN 1 ELSE 0]
          /\ task' = [task EXCEPT ![t] = [@ EXCEPT !.stage = "job", !.age = 0,
                                                   !.logged = logged]]
    /\ begun' = [begun EXCEPT ![c] = IF t = Sched THEN 0 ELSE @]
    /\ UNCHANGED <<comics, day, sched, lost>>

\* The job succeeds, fails, or is ended by the timeout.
JobEnds(t) ==
    /\ task[t].stage = "job"
    /\ \E ok \in BOOLEAN : task' = [task EXCEPT ![t] = [@ EXCEPT !.stage = "log", !.ok = ok]]
    /\ UNCHANGED <<comics, running, day, sched, ghosts>>

\* A failed full sync writes nothing to the comic and is tried again.
AfterLog(t) ==
    IF task[t].mode = FullSync /\ ~task[t].ok THEN Finish(t) ELSE Goto(t, "update")

\* Mutant: only a run that succeeded updates its log row.
UpdateLog_OnlySuccess(t) ==
    LET c == task[t].comic IN
    /\ task[t].stage = "log"
    /\ running' = [running EXCEPT ![c] = @ - IF task[t].logged /\ task[t].ok THEN 1 ELSE 0]
    /\ UNCHANGED lost
    /\ AfterLog(t)
    /\ begun' = [begun EXCEPT ![c] =
                   IF t = Sched /\ task[t].mode = FullSync /\ ~task[t].ok THEN Never ELSE @]
    /\ UNCHANGED <<comics, day, sched>>

\* success or failed, and the rest of the log row; an error is ignored.
UpdateLog(t) ==
    LET c == task[t].comic IN
    /\ task[t].stage = "log"
    /\ \/ /\ running' = [running EXCEPT ![c] = @ - IF task[t].logged THEN 1 ELSE 0]
          /\ UNCHANGED lost
       \/ /\ Failing /\ task[t].logged /\ lost[c] < MaxLost
          /\ lost' = [lost EXCEPT ![c] = @ + 1]
          /\ UNCHANGED running
    /\ AfterLog(t)
    /\ begun' = [begun EXCEPT ![c] =
                   IF t = Sched /\ task[t].mode = FullSync /\ ~task[t].ok THEN Never ELSE @]
    /\ UNCHANGED <<comics, day, sched>>

\* The comic's row, by its key: the time the run took, whatever other runs wrote
\* since, and after a full sync the crawler off, whatever the mode is now.
WriteComic(t) ==
    LET c == task[t].comic IN
    IF there[c] = "there"
      THEN /\ checked' = [checked EXCEPT ![c] = task[t].age]
           /\ conf' = IF task[t].mode = FullSync THEN [conf EXCEPT ![c].enabled = FALSE] ELSE conf
      ELSE UNCHANGED <<checked, conf>>

\* History: run t, begun before the scheduler's latest, writes its own time.
Overtaken(t) ==
    [begun EXCEPT ![task[t].comic] = IF task[t].age > @ THEN Never ELSE @]

\* Mutant: a run that failed does not count as a check.
UpdateComic_NotOnFailure(t) ==
    LET c == task[t].comic IN
    /\ task[t].stage = "update"
    /\ IF task[t].ok THEN WriteComic(t) ELSE UNCHANGED <<checked, conf>>
    /\ begun' = Overtaken(t)
    /\ Finish(t)
    /\ UNCHANGED <<there, running, day, sched, lost>>

\* Mutant: every successful run turns the crawler off.
UpdateComic_AlwaysOff(t) ==
    LET c == task[t].comic IN
    /\ task[t].stage = "update"
    /\ checked' = [checked EXCEPT ![c] = task[t].age]
    /\ conf' = [conf EXCEPT ![c].enabled = @ /\ ~task[t].ok]
    /\ begun' = Overtaken(t)
    /\ Finish(t)
    /\ UNCHANGED <<there, running, day, sched, lost>>

\* Mutant: the scheduler stops at the first comic that fails.
UpdateComic_EndsRunOnce(t) ==
    /\ task[t].stage = "update"
    /\ WriteComic(t)
    /\ begun' = Overtaken(t)
    /\ queue' = IF t = Sched /\ ~task[t].ok THEN {} ELSE queue
    /\ Finish(t)
    /\ UNCHANGED <<there, running, day, pending, loop, lost>>

UpdateComic(t) ==
    LET c == task[t].comic IN
    /\ task[t].stage = "update"
    /\ \/ /\ WriteComic(t)
          /\ begun' = Overtaken(t)
       \/ /\ Failing
          /\ begun' = [begun EXCEPT ![c] = Never]
          /\ UNCHANGED <<checked, conf>>
    /\ Finish(t)
    /\ UNCHANGED <<there, running, day, sched, lost>>

-----------------------------------------------------------------------------
(***************************************************************************)
(* The admin's actions on comics.                                          *)
(***************************************************************************)

\* A copy of comic c's row, or a run with one, after an admin has written the row.
OutOfDate(q, c) == IF q.comic = c THEN [q EXCEPT !.changed = TRUE] ELSE q

\* A new comic whose crawler is on and set to full sync is crawled at once.
AdminCreateComic(t, c, f) ==
    LET s == Setting(f) IN
    /\ there[c] = "free" /\ task[t].stage = "idle"
    /\ there' = [there EXCEPT ![c] = "there"]
    /\ conf' = [conf EXCEPT ![c] = s]
    /\ IF s.enabled /\ s.source /\ s.mode = FullSync
         THEN task' = [task EXCEPT ![t] = [Idle EXCEPT !.stage = "begin", !.comic = c]]
         ELSE UNCHANGED task
    /\ UNCHANGED <<checked, running, day, sched, ghosts>>

\* One UPDATE of the columns whose fields p the request carries;
\* crawler_last_checked_at is not among them.
AdminUpdateComic(c, f, p) ==
    LET Col(name, new, old) == IF name \in p THEN new ELSE old
        s == Setting(f)
        o == conf[c]
    IN
    /\ there[c] = "there"
    /\ conf' = [conf EXCEPT ![c] = [enabled  |-> Col("enabled", s.enabled, o.enabled),
                                    mode     |-> Col("mode", s.mode, o.mode),
                                    source   |-> Col("source", s.source, o.source),
                                    interval |-> Col("interval", s.interval, o.interval),
                                    days     |-> Col("days", s.days, o.days)]]
    /\ begun' = [begun EXCEPT ![c] = Never]
    /\ queue' = {OutOfDate(q, c) : q \in queue}
    /\ task' = [t \in Task |-> OutOfDate(task[t], c)]
    /\ UNCHANGED <<there, checked, running, day, pending, loop, lost>>

AdminDeleteComic(c) ==
    /\ Deleting
    /\ there[c] = "there"
    /\ there' = [there EXCEPT ![c] = "deleted"]
    /\ UNCHANGED <<conf, checked, running, day, sched, task, ghosts>>

\* 202, and a goroutine; the look at the source url is repeated there.
AdminRunCrawlerNow(t, c) ==
    /\ task[t].stage = "idle"
    /\ there[c] = "there" /\ conf[c].source
    /\ task' = [task EXCEPT ![t] = [Idle EXCEPT !.stage = "fetch", !.comic = c]]
    /\ UNCHANGED <<comics, running, day, sched, ghosts>>

-----------------------------------------------------------------------------
\* Rows of crawler_logs that say running and have a run.
Logging(c) == {t \in Task : task[t].comic = c /\ task[t].logged /\ task[t].stage \in {"job", "log"}}

\* The process stops and starts again: the goroutines are gone, the tables stay.
Crash ==
    /\ Failing
    /\ \A c \in Comic : lost[c] + Cardinality(Logging(c)) <= MaxLost
    /\ lost' = [c \in Comic |-> lost[c] + Cardinality(Logging(c))]
    /\ task' = [t \in Task |-> Idle]
    /\ pending' = FALSE /\ loop' = "wait" /\ queue' = {}
    /\ begun' = [c \in Comic |-> Never]
    /\ UNCHANGED <<comics, running, day>>

\* Time passes, and the day may be over.
Pass ==
    /\ checked' = [c \in Comic |-> Older(checked[c])]
    /\ begun' = [c \in Comic |-> Older(begun[c])]
    /\ task' = [t \in Task |->
                  IF task[t].stage \in {"job", "log", "update"}
                    THEN [task[t] EXCEPT !.age = Older(task[t].age)] ELSE task[t]]
    /\ day' \in {day, (day % WeekDays) + 1}
    /\ UNCHANGED <<there, conf, running, sched, lost>>

Scheduler == TakeTick \/ LoadComics \/ LoadFails \/ RunNext \/ RunOnceReturns

RunComic(t) == Fetch(t) \/ Begin(t) \/ JobEnds(t) \/ UpdateLog(t) \/ UpdateComic(t)

Admin ==
    \/ \E t \in Manual, c \in Comic : AdminRunCrawlerNow(t, c)
    \/ \E t \in Manual, c \in Comic, f \in Form : AdminCreateComic(t, c, f)
    \/ \E c \in Comic, f \in Form, p \in Fields : AdminUpdateComic(c, f, p)
    \/ \E c \in Comic : AdminDeleteComic(c)

Next ==
    \/ Fire \/ Scheduler
    \/ \E t \in Task : RunComic(t)
    \/ Admin
    \/ Crash \/ Pass

Spec == Init /\ [][Next]_vars

\* The ticker fires, goroutines that can go on do, and every job ends: RunComic
\* gives it a deadline.  Nothing is assumed of the admin.
Fairness ==
    /\ WF_vars(Fire) /\ WF_vars(Pass)
    /\ WF_vars(Scheduler)
    /\ \A t \in Task : WF_vars(RunComic(t))

LiveSpec == Spec /\ Fairness

-----------------------------------------------------------------------------
(***************************************************************************)
(* Properties.                                                             *)
(***************************************************************************)

SettingType == [enabled : BOOLEAN, mode : Mode, source : BOOLEAN, interval : Nat,
                days : SUBSET (1 .. WeekDays)]

\* The values the tables, the scheduler and the runs can hold: the settings are
\* those the admin handlers let through (admin.go:454-470, 536-552), an idle run
\* has no comic, and only a busy scheduler has comics to run or a run of its own.
TypeOK ==
    /\ there \in [Comic -> {"free", "there", "deleted"}]
    /\ conf \in [Comic -> SettingType]
    /\ checked \in [Comic -> Age \cup {Never}]
    /\ running \in [Comic -> Nat]
    /\ day \in 1 .. WeekDays
    /\ pending \in BOOLEAN
    /\ loop \in {"wait", "load", "run"}
    /\ queue \subseteq Copy
    /\ task \in [Task -> Run]
    /\ \A t \in Task : task[t].stage = "idle" <=> task[t].comic = NoComic
    /\ loop # "run" => queue = {} /\ task[Sched].stage = "idle"
    /\ begun \in [Comic -> Age \cup {Never}]
    /\ lost \in [Comic -> Nat]

\* A row of crawler_logs says running only while its run is in progress, except
\* those whose run was cut off by a stop of the process or whose UPDATE failed
\* (service.go:116, 135, 140): however runs of a comic overlap, none finishes the
\* row of another.
RunningLogs == \A c \in Comic : running[c] = Cardinality(Logging(c)) + lost[c]

\* The scheduler leaves at least the interval between the beginnings of two runs
\* of a comic that is not in full sync, also when the first failed and whatever
\* the admin's goroutines run beside it - unless in between an admin changed the
\* comic, the process stopped, the row could not be written, or a run that had
\* begun before the scheduler's wrote its older time after it
\* (scheduler.go:79-86, service.go:99, 126-147).
SpacedRuns ==
    [][\A c \in Comic :
          Begin(Sched) /\ task[Sched].comic = c /\ task[Sched].mode # FullSync
             => begun[c] = Never \/ begun[c] >= Interval(conf[c])]_vars

\* A run turns the crawler of a comic off only when the comic is in full sync, or
\* an admin has written the comic since the run copied it (service.go:132 looks at
\* the copy).
OffOnlyByFullSync ==
    [][\A t \in Task, c \in Comic :
          (UpdateComic(t) /\ task[t].comic = c /\ conf[c].enabled /\ ~conf'[c].enabled)
             => conf[c].mode = FullSync \/ task[t].changed]_vars

\* The loop always comes back to its ticker: no comic can hold it up, because
\* every job has a deadline (scheduler.go:63-66, service.go:118).
SchedulerReturns == loop # "wait" ~> loop = "wait"

\* The comics the scheduler has still to run, and what is left of its own run.
Waiting == {q.comic : q \in queue}
ToGo    == [idle |-> 0, update |-> 1, log |-> 2, job |-> 3, begin |-> 4, fetch |-> 5]

\* Steps of its own until the loop is back at its ticker, at most.
Work ==
    IF loop = "wait" THEN 0
    ELSE IF loop = "load" THEN 5 * Cardinality(Comic) + 2
    ELSE 5 * Cardinality(Waiting) + ToGo[task[Sched].stage] + 1

\* A round of the scheduler is of bounded length: each step of it brings the end
\* nearer, and neither the admin, nor other runs, nor the clock put the end off
\* (scheduler.go:63-87).  This is the part of SchedulerReturns that needs no fairness.
RoundsEnd ==
    [][loop # "wait" =>
          /\ Work' <= Work
          /\ Scheduler \/ RunComic(Sched) => Work' < Work]_vars

\* What the scheduler is to crawl whatever the weekday.
Wanted(c) ==
    LET s == conf[c] IN
    /\ there[c] = "there" /\ s.enabled /\ s.source
    /\ s.mode = FullSync => checked[c] = Never
    /\ s.mode = Schedule => s.days = 1 .. WeekDays

Crawling(c) == \E t \in Task : task[t].comic = c /\ task[t].stage = "job"

\* A comic that stays enabled is crawled again and again: other comics that fail or
\* time out do not starve it, and a full sync that failed is tried again
\* (scheduler.go:72-87, service.go:62-85, 136-139).
WantedIsCrawled == \A c \in Comic : []<>(~Wanted(c) \/ Crawling(c))

-----------------------------------------------------------------------------
(***************************************************************************)
(* The inductive invariants behind these properties (Crawler_proofs).      *)
(***************************************************************************)

\* Each row that says running is one run's own, or lost.
LogsInv == TypeOK /\ RunningLogs

\* A copy q has the mode of the comic's row, unless an admin wrote the row.
Faithful(q) == q.changed \/ q.mode = conf[q.comic].mode

CopiesInv ==
    /\ TypeOK
    /\ \A c \in Comic : there[c] = "free" => begun[c] = Never
    /\ \A q \in queue : there[q.comic] # "free" /\ Faithful(q)
    /\ \A t \in Task :
          /\ task[t].stage # "idle" => there[task[t].comic] # "free"
          /\ task[t].stage \notin {"idle", "fetch"} => Faithful(task[t])

\* The scheduler may begin a run of comic c that is not a full sync.
MayBegin(c) == begun[c] = Never \/ begun[c] >= Interval(conf[c])

\* The scheduler's latest run of comic c is in progress, or the row shows it or a
\* later run, and holds back the next.
HeldBack(c) ==
    \/ /\ task[Sched].comic = c /\ task[Sched].stage \in {"job", "log", "update"}
       /\ begun[c] = task[Sched].age
    \/ there[c] = "there" => checked[c] # Never /\ checked[c] <= begun[c]

SpacedInv ==
    /\ CopiesInv
    /\ task[Sched].stage # "fetch"
    /\ \A q, r \in queue : q.comic = r.comic => q = r
    /\ \A q \in queue : q.comic # task[Sched].comic
    /\ \A q \in queue : q.mode # FullSync => MayBegin(q.comic)
    /\ task[Sched].stage = "begin" /\ task[Sched].mode # FullSync => MayBegin(task[Sched].comic)
    /\ \A c \in Comic : begun[c] # Never => HeldBack(c)
=============================================================================
