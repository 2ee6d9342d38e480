--------------------------- MODULE Crawler_proofs ---------------------------
(***************************************************************************)
(* Proofs about Crawler, for any number of comics and of goroutines that   *)
(* admins start.                                                           *)
(***************************************************************************)
EXTENDS Crawler, FiniteSetTheorems, TLAPS

-----------------------------------------------------------------------------
(* Type correctness.                                                       *)

RunOK(x) == x \in Run /\ (x.stage = "idle" <=> x.comic = NoComic)

ComicsOK ==
    /\ there \in [Comic -> {"free", "there", "deleted"}]
    /\ conf \in [Comic -> SettingType]
    /\ checked \in [Comic -> Age \cup {Never}]

LogsOK == running \in [Comic -> Nat] /\ lost \in [Comic -> Nat]

SchedOK ==
    /\ day \in 1 .. WeekDays
    /\ pending \in BOOLEAN
    /\ loop \in {"wait", "load", "run"}
    /\ queue \subseteq Copy
    /\ loop # "run" => queue = {} /\ task[Sched].stage = "idle"

BegunOK == begun \in [Comic -> Age \cup {Never}]

RunsOK == task \in [Task -> Run] /\ \A t \in Task : RunOK(task[t])

LEMMA TypeSplit == TypeOK <=> ComicsOK /\ LogsOK /\ SchedOK /\ BegunOK /\ RunsOK
  BY DEF TypeOK, ComicsOK, LogsOK, SchedOK, BegunOK, RunsOK, RunOK

LEMMA TypeSplitNext == TypeOK' <=> ComicsOK' /\ LogsOK' /\ SchedOK' /\ BegunOK' /\ RunsOK'
  BY DEF TypeOK, ComicsOK, LogsOK, SchedOK, BegunOK, RunsOK, RunOK

LEMMA SettingTypes ==
  ASSUME NEW f \in Form
  PROVE  Setting(f) \in SettingType
<1>1. /\ f.enabled \in BOOLEAN /\ f.source \in BOOLEAN /\ f.interval \in Int
      /\ f.mode \in Int
  BY CrawlerAssumption
<1>2. (IF f.mode \in Mode THEN f.mode ELSE FullSync) \in Mode
  BY DEF Mode
<1>3. (IF f.interval < 0 THEN 0 ELSE f.interval) \in Nat
  BY <1>1
<1>4. f.days \cap 1 .. WeekDays \in SUBSET (1 .. WeekDays)
  OBVIOUS
<1> QED
  BY <1>1, <1>2, <1>3, <1>4 DEF Setting, SettingType

LEMMA SettingParts ==
  ASSUME NEW s \in SettingType
  PROVE  /\ s.enabled \in BOOLEAN /\ s.source \in BOOLEAN /\ s.mode \in Mode /\ s.interval \in Nat
         /\ s.days \in SUBSET (1 .. WeekDays)
  BY DEF SettingType

LEMMA AgeTypes ==
  /\ 0 \in Age /\ Never \notin Age /\ Age \subseteq Nat
  /\ \A a \in Age : Older(a) \in Age /\ a <= Older(a)
  /\ \A a \in Age \cup {Never} : Older(a) \in Age \cup {Never} /\ (Older(a) = Never <=> a = Never)
  /\ \A a, b \in Age : a <= b => Older(a) <= Older(b)
  BY CrawlerAssumption DEF Age, Older, Never

LEMMA IdleType == RunOK(Idle) /\ Idle.stage = "idle" /\ Idle.comic = NoComic
  BY CrawlerAssumption DEF RunOK, Idle, Run, Mode, FullSync, Age

LEMMA OneRun ==
  ASSUME RunsOK, NEW t \in Task, NEW x, RunOK(x), task' = [task EXCEPT ![t] = x]
  PROVE  RunsOK'
  BY DEF RunsOK, RunOK

\* A run that has left its first stages behind, and one that enters them.
LEMMA RunGoes ==
  ASSUME NEW q \in Run, NEW s \in {"job", "log", "update"}, RunOK(q), q.stage # "idle",
         NEW x, x = [q EXCEPT !.stage = s]
  PROVE  /\ RunOK(x) /\ x.stage = s /\ x.comic = q.comic /\ x.mode = q.mode /\ x.age = q.age
         /\ x.logged = q.logged /\ x.changed = q.changed
<1>1. x \in Run
  BY DEF Run
<1>2. /\ x.stage = s /\ x.comic = q.comic /\ x.mode = q.mode /\ x.age = q.age
      /\ x.logged = q.logged /\ x.changed = q.changed
  BY DEF Run
<1> QED
  BY <1>1, <1>2 DEF RunOK

Started(s, c, m, b) == [Idle EXCEPT !.stage = s, !.comic = c, !.mode = m, !.changed = b]

LEMMA RunStarts ==
  ASSUME NEW s \in {"fetch", "begin"}, NEW c \in Comic, NEW m \in Mode, NEW b \in BOOLEAN
  PROVE  LET x == Started(s, c, m, b)
         IN  RunOK(x) /\ x.stage = s /\ x.comic = c /\ x.mode = m /\ x.changed = b
<1>1. PICK x : x = Started(s, c, m, b)
  OBVIOUS
<1>2. /\ x.stage = s /\ x.comic = c /\ x.mode = m /\ x.changed = b /\ x.age = 0 /\ x.ok = FALSE /\ x.logged = FALSE
      /\ x = [stage |-> s, comic |-> c, mode |-> m, age |-> 0, ok |-> FALSE, logged |-> FALSE, changed |-> b]
  BY <1>1 DEF Idle, Started
<1>3. x \in Run
  BY <1>2, AgeTypes DEF Run
<1>4. RunOK(x)
  BY <1>2, <1>3, CrawlerAssumption DEF RunOK
<1> QED
  BY <1>1, <1>2, <1>4

\* A run that a goroutine of an admin's begins with.
Manually(s, c) == [Idle EXCEPT !.stage = s, !.comic = c]

LEMMA ManualStarts ==
  ASSUME NEW s \in {"fetch", "begin"}, NEW c \in Comic
  PROVE  LET x == Manually(s, c) IN RunOK(x) /\ x.stage = s /\ x.comic = c /\ x.mode = FullSync
<1>1. PICK x : x = Manually(s, c)
  OBVIOUS
<1>2. /\ x.stage = s /\ x.comic = c /\ x.mode = FullSync /\ x.changed = FALSE
      /\ x.age = 0 /\ x.ok = FALSE /\ x.logged = FALSE
      /\ x = [stage |-> s, comic |-> c, mode |-> FullSync, age |-> 0, ok |-> FALSE, logged |-> FALSE,
               changed |-> FALSE]
  BY <1>1 DEF Idle, Manually
<1>3. x \in Run
  BY <1>2, AgeTypes DEF Run, Mode
<1>4. RunOK(x)
  BY <1>2, <1>3, CrawlerAssumption DEF RunOK
<1> QED
  BY <1>1, <1>2, <1>4

LEMMA CopyOutOfDate ==
  ASSUME NEW q \in Copy, NEW c
  PROVE  /\ OutOfDate(q, c) \in Copy /\ OutOfDate(q, c).comic = q.comic /\ OutOfDate(q, c).mode = q.mode
         /\ (q.comic = c \/ q.changed => OutOfDate(q, c).changed)
  BY DEF OutOfDate, Copy

LEMMA RunOutOfDate ==
  ASSUME NEW q \in Run, RunOK(q), NEW c
  PROVE  /\ RunOK(OutOfDate(q, c))
         /\ OutOfDate(q, c).comic = q.comic /\ OutOfDate(q, c).mode = q.mode
         /\ OutOfDate(q, c).stage = q.stage /\ OutOfDate(q, c).age = q.age
         /\ OutOfDate(q, c).logged = q.logged
         /\ (q.comic = c \/ q.changed => OutOfDate(q, c).changed)
<1>1. CASE q.comic # c
  BY <1>1 DEF OutOfDate
<1>2. CASE q.comic = c
  <2>1. PICK x : x = [q EXCEPT !.changed = TRUE]
    OBVIOUS
  <2>2. x \in Run
    BY <2>1 DEF Run
  <2>3. /\ x.comic = q.comic /\ x.mode = q.mode /\ x.stage = q.stage /\ x.age = q.age
        /\ x.logged = q.logged /\ x.changed
    BY <2>1 DEF Run
  <2>4. OutOfDate(q, c) = x
    BY <1>2, <2>1 DEF OutOfDate
  <2> QED
    BY <2>2, <2>3, <2>4 DEF RunOK
<1> QED
  BY <1>1, <1>2

\* What the steps of a run make of it.
LEMMA FetchStep ==
  ASSUME RunsOK, ComicsOK, NEW t \in Task, NEW c \in Comic, c = task[t].comic, Fetch(t)
  PROVE  \E x : /\ task' = [task EXCEPT ![t] = x] /\ RunOK(x)
                /\ \/ x = Idle
                   \/ /\ x.stage = "begin" /\ x.comic = c /\ x.mode = conf[c].mode
                      /\ there[c] = "there"
<1>1. PICK q \in Run : q = task[t] /\ RunOK(q) /\ q.comic = c
  BY DEF RunsOK
<1>2. PICK m \in Mode : m = conf[c].mode
  BY SettingParts DEF ComicsOK
<1>3. CASE Finish(t)
  BY <1>3, IdleType DEF Finish
<1>4. CASE /\ there[c] = "there" /\ task' = [task EXCEPT ![t] = [q EXCEPT !.stage = "begin", !.mode = m,
                                                                         !.changed = FALSE]]
  <2>1. PICK x : x = [q EXCEPT !.stage = "begin", !.mode = m, !.changed = FALSE]
    OBVIOUS
  <2>2. x \in Run
    BY <1>2, <2>1 DEF Run
  <2>3. x.stage = "begin" /\ x.comic = c /\ x.mode = m
    BY <1>1, <2>1 DEF Run
  <2>4. RunOK(x)
    BY <2>2, <2>3, CrawlerAssumption DEF RunOK
  <2> QED
    BY <1>2, <1>4, <2>1, <2>3, <2>4
<1> QED
  BY <1>1, <1>2, <1>3, <1>4 DEF Fetch

LEMMA BeginStep ==
  ASSUME RunsOK, NEW t \in Task, Begin(t), NEW q, q = task[t]
  PROVE  \E x : /\ task' = [task EXCEPT ![t] = x] /\ RunOK(x)
                /\ x.stage = "job" /\ x.comic = q.comic /\ x.mode = q.mode /\ x.changed = q.changed
                /\ x.age = 0
                /\ running' = [running EXCEPT ![q.comic] = running[q.comic] + IF x.logged THEN 1 ELSE 0]
<1>1. q \in Run /\ RunOK(q) /\ q.stage = "begin"
  BY DEF RunsOK, Begin
<1>2. PICK b \in BOOLEAN : /\ task' = [task EXCEPT ![t] = [q EXCEPT !.stage = "job", !.age = 0, !.logged = b]]
                           /\ running' = [running EXCEPT ![q.comic] = running[q.comic] + IF b THEN 1 ELSE 0]
  BY Zenon DEF Begin
<1>3. PICK x : x = [q EXCEPT !.stage = "job", !.age = 0, !.logged = b]
  OBVIOUS
<1>4. x \in Run
  BY <1>1, <1>2, <1>3, AgeTypes DEF Run
<1>5. /\ x.stage = "job" /\ x.comic = q.comic /\ x.mode = q.mode /\ x.changed = q.changed
      /\ x.age = 0 /\ x.logged = b
  BY <1>1, <1>3 DEF Run
<1>6. RunOK(x)
  BY <1>1, <1>4, <1>5 DEF RunOK
<1> QED
  BY <1>2, <1>3, <1>5, <1>6

LEMMA JobStep ==
  ASSUME RunsOK, NEW t \in Task, JobEnds(t), NEW q, q = task[t]
  PROVE  \E x : /\ task' = [task EXCEPT ![t] = x] /\ RunOK(x)
                /\ x.stage = "log" /\ x.comic = q.comic /\ x.mode = q.mode /\ x.changed = q.changed
                /\ x.age = q.age /\ x.logged = q.logged
<1>1. q \in Run /\ RunOK(q) /\ q.stage = "job"
  BY DEF RunsOK, JobEnds
<1>2. PICK b \in BOOLEAN : task' = [task EXCEPT ![t] = [q EXCEPT !.stage = "log", !.ok = b]]
  BY Zenon DEF JobEnds
<1>3. PICK x : x = [q EXCEPT !.stage = "log", !.ok = b]
  OBVIOUS
<1>4. x \in Run
  BY <1>1, <1>2, <1>3 DEF Run
<1>5. /\ x.stage = "log" /\ x.comic = q.comic /\ x.mode = q.mode /\ x.changed = q.changed
      /\ x.age = q.age /\ x.logged = q.logged
  BY <1>1, <1>3 DEF Run
<1>6. RunOK(x)
  BY <1>1, <1>4, <1>5 DEF RunOK
<1> QED
  BY <1>2, <1>3, <1>5, <1>6

LEMMA LogStep ==
  ASSUME RunsOK, NEW t \in Task, UpdateLog(t), NEW q, q = task[t]
  PROVE  \E x : /\ task' = [task EXCEPT ![t] = x] /\ RunOK(x)
                /\ \/ x = Idle /\ q.mode = FullSync /\ ~q.ok
                   \/ /\ x.stage = "update" /\ x.comic = q.comic /\ x.mode = q.mode
                      /\ x.changed = q.changed /\ x.age = q.age
                      /\ ~(q.mode = FullSync /\ ~q.ok)
<1>1. q \in Run /\ RunOK(q) /\ q.stage = "log"
  BY DEF RunsOK, UpdateLog
<1>2. CASE q.mode = FullSync /\ ~q.ok
  BY <1>2, IdleType DEF UpdateLog, AfterLog, Finish
<1>3. CASE ~(q.mode = FullSync /\ ~q.ok)
  <2>1. PICK x : x = [q EXCEPT !.stage = "update"]
    OBVIOUS
  <2>2. task' = [task EXCEPT ![t] = x]
    BY <1>3, <2>1 DEF UpdateLog, AfterLog, Goto, RunsOK
  <2>3. /\ RunOK(x) /\ x.stage = "update" /\ x.comic = q.comic /\ x.mode = q.mode /\ x.age = q.age
        /\ x.changed = q.changed
    BY <1>1, <2>1, RunGoes
  <2> QED
    BY <1>3, <2>2, <2>3
<1> QED
  BY <1>2, <1>3

LEMMA NextStep ==
  ASSUME RunsOK, SchedOK, RunNext
  PROVE  \E q \in queue, x \in Run :
            /\ queue' = queue \ {q} /\ task' = [task EXCEPT ![Sched] = x] /\ RunOK(x)
            /\ x.stage = "begin" /\ x.comic = q.comic /\ x.mode = q.mode /\ x.changed = q.changed
<1>1. PICK q \in queue : /\ queue' = queue \ {q}
                         /\ task' = [task EXCEPT ![Sched] = Started("begin", q.comic, q.mode, q.changed)]
  BY DEF RunNext, Started
<1>2. PICK c \in Comic, m \in Mode, b \in BOOLEAN : c = q.comic /\ m = q.mode /\ b = q.changed
  BY <1>1 DEF SchedOK, Copy
<1>3. PICK x : x = Started("begin", c, m, b)
  OBVIOUS
<1>4. RunOK(x) /\ x.stage = "begin" /\ x.comic = c /\ x.mode = m /\ x.changed = b
  BY <1>3, RunStarts
<1> QED
  BY <1>1, <1>2, <1>3, <1>4 DEF RunOK

\* A run that an admin starts.
LEMMA AdminStarts ==
  ASSUME RunsOK, NEW t \in Manual, NEW c \in Comic,
         \/ AdminRunCrawlerNow(t, c)
         \/ \E f \in Form : AdminCreateComic(t, c, f) /\ ~UNCHANGED task
  PROVE  \E x : /\ task' = [task EXCEPT ![t] = x] /\ RunOK(x)
                /\ x.stage \in {"fetch", "begin"} /\ x.comic = c /\ x.mode = FullSync
                /\ AdminRunCrawlerNow(t, c) => x.stage = "fetch"
<1>1. PICK s \in {"fetch", "begin"} :
         /\ task' = [task EXCEPT ![t] = Manually(s, c)]
         /\ AdminRunCrawlerNow(t, c) => s = "fetch"
  BY Zenon DEF AdminRunCrawlerNow, AdminCreateComic, Manually
<1>2. PICK x : x = Manually(s, c)
  OBVIOUS
<1>3. RunOK(x) /\ x.stage = s /\ x.comic = c /\ x.mode = FullSync
  BY <1>2, ManualStarts
<1> QED
  BY <1>1, <1>2, <1>3

LEMMA TypeInit == Init => TypeOK
<1> SUFFICES ASSUME Init PROVE TypeOK
  OBVIOUS
<1>1. ComicsOK
  <2>1. Unset \in SettingType
    BY DEF Unset, SettingType, Mode
  <2>2. {Unset} \cup {Setting(f) : f \in Form} \subseteq SettingType
    BY <2>1, SettingTypes
  <2> QED
    BY <2>2 DEF Init, ComicsOK
<1>2. LogsOK /\ BegunOK
  BY DEF Init, LogsOK, BegunOK
<1>3. RunsOK
  BY IdleType DEF Init, RunsOK, RunOK
<1>4. SchedOK
  BY IdleType DEF Init, SchedOK, Task
<1> QED
  BY <1>1, <1>2, <1>3, <1>4, TypeSplit

LEMMA TaskFinite == IsFiniteSet(Task)
  BY CrawlerAssumption, FS_AddElement DEF Task

LEMMA LoggingFinite ==
  ASSUME NEW c
  PROVE  IsFiniteSet(Logging(c)) /\ Cardinality(Logging(c)) \in Nat
<1>1. Logging(c) \subseteq Task
  BY DEF Logging
<1> QED
  BY <1>1, TaskFinite, FS_Subset, FS_CardinalityType

LEMMA LoggingFiniteNext ==
  ASSUME NEW c
  PROVE  IsFiniteSet(Logging(c)') /\ Cardinality(Logging(c)') \in Nat
<1>1. Logging(c)' \subseteq Task
  BY DEF Logging
<1> QED
  BY <1>1, TaskFinite, FS_Subset, FS_CardinalityType

\* A run that has a log row is counted.
LEMMA RunningCounted ==
  ASSUME LogsOK, RunningLogs, NEW c \in Comic, NEW t \in Logging(c)
  PROVE  running[c] >= 1
<1>1. Cardinality(Logging(c)) # 0
  BY LoggingFinite, FS_EmptySet
<1> QED
  BY <1>1, LoggingFinite DEF LogsOK, RunningLogs

\* No run of the scheduler's outside a round.
LEMMA SchedSteps ==
  ASSUME TypeOK, NEW t \in Task, RunComic(t)
  PROVE  /\ task[t].stage # "idle" /\ task[t].comic \in Comic
         /\ t = Sched => loop = "run"
         /\ UNCHANGED <<day, pending, loop, queue, there>>
<1>1. task[t].stage # "idle"
  BY DEF RunComic, Fetch, Begin, JobEnds, UpdateLog, UpdateComic
<1>2. task[t] \in Run
  BY DEF TypeOK
<1>3. task[t].comic \in Comic
  BY <1>1, <1>2 DEF TypeOK, Run
<1>4. UNCHANGED <<day, pending, loop, queue, there>>
  <2>1. UNCHANGED <<day, pending, loop, queue>>
    BY DEF RunComic, Fetch, Begin, JobEnds, UpdateLog, UpdateComic, sched
  <2>2. UNCHANGED there
    BY DEF RunComic, Fetch, Begin, JobEnds, UpdateLog, UpdateComic, comics
  <2> QED
    BY <2>1, <2>2
<1> QED
  BY <1>1, <1>3, <1>4 DEF TypeOK

\* A step of a run replaces the run.
LEMMA RunReplaced ==
  ASSUME TypeOK, NEW t \in Task, RunComic(t)
  PROVE  \E x : task' = [task EXCEPT ![t] = x] /\ RunOK(x)
<1>1. RunsOK /\ ComicsOK
  BY TypeSplit
<1>2. PICK q : q = task[t]
  OBVIOUS
<1>3. PICK c \in Comic : c = task[t].comic
  BY SchedSteps
<1>4. UpdateComic(t) => task' = [task EXCEPT ![t] = Idle]
  BY DEF UpdateComic, Finish
<1> QED
  BY <1>1, <1>2, <1>3, <1>4, FetchStep, BeginStep, JobStep, LogStep, IdleType DEF RunComic

LEMMA RunTypes ==
  ASSUME TypeOK, RunningLogs, NEW t \in Task, RunComic(t)
  PROVE  TypeOK'
<1>1. RunsOK /\ ComicsOK /\ LogsOK /\ SchedOK /\ BegunOK
  BY TypeSplit
<1>2. PICK q \in Run, c \in Comic : q = task[t] /\ c = q.comic
  BY SchedSteps DEF TypeOK
<1>3. PICK x : task' = [task EXCEPT ![t] = x] /\ RunOK(x)
  BY RunReplaced
<1>4. RunsOK'
  BY <1>1, <1>3, OneRun
<1>5. SchedOK'
  BY <1>1, <1>3, SchedSteps DEF SchedOK, RunsOK, Task
<1>6. ComicsOK'
  <2>1. CASE WriteComic(t)
    <3>1. q.age \in Age
      BY <1>2 DEF Run
    <3>2. [conf[c] EXCEPT !.enabled = FALSE] \in SettingType
      BY <1>1 DEF ComicsOK, SettingType
    <3>3. conf' = conf \/ conf' = [conf EXCEPT ![c] = [conf[c] EXCEPT !.enabled = FALSE]]
      BY <1>2, <2>1, Zenon DEF WriteComic
    <3>4. checked' = checked \/ checked' = [checked EXCEPT ![c] = q.age]
      BY <1>2, <2>1 DEF WriteComic
    <3>5. there' = there
      BY SchedSteps
    <3>6. checked' \in [Comic -> Age \cup {Never}]
      BY <1>1, <3>1, <3>4 DEF ComicsOK
    <3>7. conf' \in [Comic -> SettingType]
      BY <1>1, <3>2, <3>3 DEF ComicsOK
    <3> QED
      BY <1>1, <3>5, <3>6, <3>7 DEF ComicsOK
  <2>2. CASE UNCHANGED <<checked, conf>>
    BY <1>1, <2>2, SchedSteps DEF ComicsOK
  <2> QED
    BY <2>1, <2>2 DEF RunComic, Fetch, Begin, JobEnds, UpdateLog, UpdateComic, comics
<1>7. BegunOK'
  <2>1. q.age \in Age
    BY <1>2 DEF Run
  <2>2. \/ begun' = begun
        \/ begun' = [begun EXCEPT ![c] = 0]
        \/ begun' = [begun EXCEPT ![c] = Never]
        \/ begun' = [begun EXCEPT ![c] = begun[c]]
    BY <1>2 DEF RunComic, Fetch, Begin, JobEnds, UpdateLog, UpdateComic, Overtaken, ghosts
  <2> QED
    BY <1>1, <2>2, AgeTypes DEF BegunOK
<1>8. LogsOK'
  <2>1. CASE UNCHANGED <<running, lost>>
    BY <1>1, <2>1 DEF LogsOK
  <2>2. CASE Begin(t)
    <3>1. PICK k \in {0, 1} : running' = [running EXCEPT ![c] = running[c] + k]
      BY <1>2, <2>2 DEF Begin
    <3>2. lost' = lost
      BY <2>2 DEF Begin
    <3> QED
      BY <1>1, <3>1, <3>2 DEF LogsOK
  <2>3. CASE UpdateLog(t)
    <3>1. CASE /\ running' = [running EXCEPT ![c] = running[c] - IF q.logged THEN 1 ELSE 0]
               /\ lost' = lost
      <4>1. q.logged => t \in Logging(c)
        BY <1>2, <2>3 DEF UpdateLog, Logging
      <4>2. q.logged => running[c] >= 1
        BY <1>1, <4>1, RunningCounted
      <4>3. running[c] - (IF q.logged THEN 1 ELSE 0) \in Nat
        BY <1>1, <4>2 DEF LogsOK
      <4> QED
        BY <1>1, <3>1, <4>3 DEF LogsOK
    <3>2. CASE running' = running /\ lost' = [lost EXCEPT ![c] = lost[c] + 1]
      BY <1>1, <3>2 DEF LogsOK
    <3> QED
      BY <1>2, <2>3, <3>1, <3>2 DEF UpdateLog
  <2> QED
    BY <2>1, <2>2, <2>3 DEF RunComic, Fetch, JobEnds, UpdateComic, ghosts
<1> QED
  BY <1>4, <1>5, <1>6, <1>7, <1>8, TypeSplitNext

\* Every run after an admin's update, and a tick of the clock later.
LEMMA RunsOutOfDate ==
  ASSUME RunsOK, NEW c, task' = [t \in Task |-> OutOfDate(task[t], c)], NEW t \in Task
  PROVE  /\ RunOK(task'[t]) /\ task'[t] = OutOfDate(task[t], c)
         /\ task'[t].comic = task[t].comic /\ task'[t].mode = task[t].mode
         /\ task'[t].stage = task[t].stage /\ task'[t].age = task[t].age
         /\ task'[t].logged = task[t].logged
         /\ (task[t].comic = c \/ task[t].changed => task'[t].changed)
<1>1. PICK q \in Run : q = task[t] /\ RunOK(q)
  BY DEF RunsOK
<1>2. PICK x : x = OutOfDate(q, c)
  OBVIOUS
<1>3. task'[t] = x
  BY <1>1, <1>2
<1> QED
  BY <1>1, <1>2, <1>3, RunOutOfDate

InProgress(q) == q.stage \in {"job", "log", "update"}

LEMMA RunsOlder ==
  ASSUME RunsOK, Pass, NEW t \in Task
  PROVE  /\ RunOK(task'[t])
         /\ task'[t].comic = task[t].comic /\ task'[t].mode = task[t].mode
         /\ task'[t].stage = task[t].stage /\ task'[t].changed = task[t].changed
         /\ task'[t].logged = task[t].logged
         /\ task'[t].age = IF InProgress(task[t]) THEN Older(task[t].age) ELSE task[t].age
<1>1. PICK q \in Run : q = task[t] /\ RunOK(q)
  BY DEF RunsOK
<1>2. CASE InProgress(q)
  <2>1. PICK a : a = Older(q.age)
    OBVIOUS
  <2>2. a \in Age
    BY <2>1, AgeTypes DEF Run
  <2>3. PICK x : x = [q EXCEPT !.age = a]
    OBVIOUS
  <2>4. x \in Run
    BY <2>2, <2>3 DEF Run
  <2>5. /\ x.comic = q.comic /\ x.mode = q.mode /\ x.stage = q.stage /\ x.changed = q.changed
        /\ x.logged = q.logged /\ x.age = a
    BY <2>3 DEF Run
  <2>6. task'[t] = x
    BY <1>1, <1>2, <2>1, <2>3 DEF Pass, InProgress
  <2> QED
    BY <1>1, <1>2, <2>1, <2>4, <2>5, <2>6 DEF RunOK
<1>3. CASE ~InProgress(q)
  <2>1. task'[t] = q
    BY <1>1, <1>3 DEF Pass, InProgress
  <2> QED
    BY <1>1, <1>3, <2>1
<1> QED
  BY <1>2, <1>3

LEMMA TypeNext ==
  ASSUME TypeOK, RunningLogs, [Next]_vars
  PROVE  TypeOK'
<1>0. ComicsOK /\ LogsOK /\ SchedOK /\ BegunOK /\ RunsOK /\ Sched \notin Manual /\ WeekDays \in Nat \ {0}
  BY TypeSplit, CrawlerAssumption
<1>1. ASSUME UNCHANGED <<comics, running, ghosts>>, SchedOK', RunsOK' PROVE TypeOK'
  BY <1>0, <1>1, TypeSplitNext DEF ComicsOK, LogsOK, BegunOK, comics, ghosts
<1>2. CASE Fire \/ TakeTick \/ LoadFails \/ RunOnceReturns
  BY <1>0, <1>1, <1>2 DEF Fire, TakeTick, LoadFails, RunOnceReturns, SchedOK, RunsOK, RunOK
<1>3. CASE LoadComics
  <2>1. \A c \in Comic : [comic |-> c, mode |-> conf[c].mode, changed |-> FALSE] \in Copy
    BY <1>0, SettingParts DEF ComicsOK, Copy
  <2>2. queue' \subseteq Copy
    BY <1>3, <2>1 DEF LoadComics
  <2> QED
    BY <1>0, <1>1, <1>3, <2>2 DEF LoadComics, SchedOK, RunsOK, RunOK
<1>4. CASE RunNext
  <2>1. RunsOK'
    BY <1>0, <1>4, NextStep, OneRun DEF Task
  <2>2. loop' = "run" /\ queue' \subseteq queue /\ UNCHANGED <<comics, running, day, pending, ghosts>>
    BY <1>4 DEF RunNext
  <2> QED
    BY <1>0, <1>1, <2>1, <2>2 DEF SchedOK
<1>5. ASSUME NEW t \in Task, RunComic(t) PROVE TypeOK'
  BY <1>5, RunTypes
<1>6. ASSUME NEW t \in Manual, NEW c \in Comic, AdminRunCrawlerNow(t, c) PROVE TypeOK'
  <2>1. PICK x : task' = [task EXCEPT ![t] = x] /\ RunOK(x)
    BY <1>0, <1>6, AdminStarts
  <2>2. RunsOK'
    BY <1>0, <2>1, OneRun DEF Task
  <2>3. SchedOK'
    BY <1>0, <1>6, <2>1 DEF AdminRunCrawlerNow, SchedOK, RunsOK, Task, sched
  <2> QED
    BY <1>1, <1>6, <2>2, <2>3 DEF AdminRunCrawlerNow
<1>7. ASSUME NEW t \in Manual, NEW c \in Comic, NEW f \in Form, AdminCreateComic(t, c, f) PROVE TypeOK'
  <2>1. ComicsOK'
    BY <1>0, <1>7, SettingTypes DEF AdminCreateComic, ComicsOK
  <2>2. CASE UNCHANGED task
    BY <1>0, <1>7, <2>1, <2>2, TypeSplitNext
       DEF AdminCreateComic, LogsOK, BegunOK, SchedOK, RunsOK, RunOK, sched, ghosts
  <2>3. CASE ~UNCHANGED task
    <3>1. PICK x : task' = [task EXCEPT ![t] = x] /\ RunOK(x)
      BY <1>0, <1>7, <2>3, AdminStarts
    <3>2. RunsOK'
      BY <1>0, <3>1, OneRun DEF Task
    <3>3. SchedOK'
      BY <1>0, <1>7, <3>1 DEF AdminCreateComic, SchedOK, RunsOK, Task, sched
    <3> QED
      BY <1>0, <1>7, <2>1, <3>2, <3>3, TypeSplitNext DEF AdminCreateComic, LogsOK, BegunOK, ghosts
  <2> QED
    BY <2>2, <2>3
<1>8. ASSUME NEW c \in Comic, NEW f \in Form, NEW p \in Fields, AdminUpdateComic(c, f, p) PROVE TypeOK'
  <2>1. PICK x : /\ conf' = [conf EXCEPT ![c] = x]
                 /\ x = [enabled  |-> IF "enabled" \in p THEN Setting(f).enabled ELSE conf[c].enabled,
                         mode     |-> IF "mode" \in p THEN Setting(f).mode ELSE conf[c].mode,
                         source   |-> IF "source" \in p THEN Setting(f).source ELSE conf[c].source,
                         interval |-> IF "interval" \in p THEN Setting(f).interval ELSE conf[c].interval,
                         days     |-> IF "days" \in p THEN Setting(f).days ELSE conf[c].days]
    BY <1>8, Zenon DEF AdminUpdateComic
  <2>2. PICK s \in SettingType, o \in SettingType : s = Setting(f) /\ o = conf[c]
    BY <1>0, SettingTypes DEF ComicsOK
  <2>3. x \in SettingType
    <3>1. /\ (IF "enabled" \in p THEN s.enabled ELSE o.enabled) \in BOOLEAN
          /\ (IF "source" \in p THEN s.source ELSE o.source) \in BOOLEAN
          /\ (IF "mode" \in p THEN s.mode ELSE o.mode) \in Mode
          /\ (IF "interval" \in p THEN s.interval ELSE o.interval) \in Nat
          /\ (IF "days" \in p THEN s.days ELSE o.days) \in SUBSET (1 .. WeekDays)
      BY SettingParts
    <3> QED
      BY <2>1, <2>2, <3>1 DEF SettingType
  <2>4. ComicsOK'
    BY <1>0, <1>8, <2>1, <2>3 DEF AdminUpdateComic, ComicsOK
  <2>5. \A t \in Task : RunOK(task'[t]) /\ task'[t].stage = task[t].stage
    BY <1>0, <1>8, RunsOutOfDate DEF AdminUpdateComic
  <2>6. RunsOK'
    BY <1>8, <2>5 DEF AdminUpdateComic, RunsOK, RunOK
  <2>7. queue' \subseteq Copy /\ (queue = {} => queue' = {})
    BY <1>0, <1>8, CopyOutOfDate DEF AdminUpdateComic, SchedOK
  <2>8. SchedOK'
    BY <1>0, <1>8, <2>5, <2>7 DEF AdminUpdateComic, SchedOK, Task
  <2>9. BegunOK' /\ LogsOK'
    BY <1>0, <1>8 DEF AdminUpdateComic, BegunOK, LogsOK
  <2> QED
    BY <2>4, <2>6, <2>8, <2>9, TypeSplitNext
<1>9. ASSUME NEW c \in Comic, AdminDeleteComic(c) PROVE TypeOK'
  BY <1>0, <1>9, TypeSplitNext DEF AdminDeleteComic, ComicsOK, LogsOK, BegunOK, SchedOK, RunsOK, RunOK, sched, ghosts
<1>10. CASE Crash
  <2>1. RunsOK' /\ task'[Sched].stage = "idle"
    BY <1>10, IdleType DEF Crash, RunsOK, RunOK, Task
  <2>2. SchedOK' /\ BegunOK' /\ ComicsOK'
    BY <1>0, <1>10, <2>1 DEF Crash, SchedOK, BegunOK, ComicsOK, comics
  <2>3. \A c \in Comic : lost[c] + Cardinality(Logging(c)) \in Nat
    BY <1>0, LoggingFinite DEF LogsOK
  <2>4. LogsOK'
    BY <1>0, <1>10, <2>3 DEF Crash, LogsOK
  <2> QED
    BY <2>1, <2>2, <2>4, TypeSplitNext
<1>11. CASE Pass
  <2>1. \A t \in Task : RunOK(task'[t]) /\ task'[t].stage = task[t].stage
    BY <1>0, <1>11, RunsOlder
  <2>2. RunsOK'
    BY <1>11, <2>1 DEF Pass, RunsOK, RunOK
  <2>3. ComicsOK' /\ BegunOK' /\ LogsOK'
    BY <1>0, <1>11, AgeTypes DEF Pass, ComicsOK, BegunOK, LogsOK
  <2>4. day' \in 1 .. WeekDays
    <3>1. day % WeekDays \in 0 .. (WeekDays - 1)
      BY <1>0 DEF SchedOK
    <3> QED
      BY <1>0, <1>11, <3>1 DEF Pass, SchedOK
  <2>5. SchedOK'
    BY <1>0, <1>11, <2>1, <2>4 DEF Pass, SchedOK, Task, sched
  <2> QED
    BY <2>2, <2>3, <2>5, TypeSplitNext
<1>12. CASE UNCHANGED vars
  BY <1>0, <1>12, <1>1 DEF vars, SchedOK, RunsOK, RunOK, sched
<1> QED
  BY <1>2, <1>3, <1>4, <1>5, <1>6, <1>7, <1>8, <1>9, <1>10, <1>11, <1>12 DEF Next, Scheduler, Admin

\* Nothing but the type and the log rows is needed for the type.
LEMMA LogsInit == Init => LogsInv
<1> SUFFICES ASSUME Init PROVE LogsInv
  OBVIOUS
<1>1. \A c \in Comic : Logging(c) = {}
  BY IdleType DEF Init, Logging
<1>2. RunningLogs
  BY <1>1, FS_EmptySet DEF Init, RunningLogs
<1> QED
  BY <1>2, TypeInit DEF LogsInv

-----------------------------------------------------------------------------
(* The rows of crawler_logs.                                               *)

Logs(x, c) == x.comic = c /\ x.logged /\ x.stage \in {"job", "log"}

\* Runs that log go on, or one begins to, or one ends.
LEMMA SameLogging ==
  ASSUME NEW c, \A t \in Task : Logs(task'[t], c) <=> Logs(task[t], c)
  PROVE  Logging(c)' = Logging(c)
  BY DEF Logging, Logs

LEMMA MoreLogging ==
  ASSUME NEW c, NEW t \in Task, ~Logs(task[t], c), Logs(task'[t], c),
         \A s \in Task \ {t} : task'[s] = task[s]
  PROVE  Cardinality(Logging(c)') = Cardinality(Logging(c)) + 1
<1>1. t \notin Logging(c) /\ Logging(c)' = Logging(c) \cup {t}
  BY DEF Logging, Logs
<1> QED
  BY <1>1, LoggingFinite, FS_AddElement

LEMMA LessLogging ==
  ASSUME NEW c, NEW t \in Task, Logs(task[t], c), ~Logs(task'[t], c),
         \A s \in Task \ {t} : task'[s] = task[s]
  PROVE  Cardinality(Logging(c)') = Cardinality(Logging(c)) - 1
<1>1. t \in Logging(c) /\ Logging(c)' = Logging(c) \ {t}
  BY DEF Logging, Logs
<1> QED
  BY <1>1, LoggingFinite, FS_RemoveElement

LEMMA RunLogs ==
  ASSUME LogsInv, NEW t \in Task, RunComic(t), NEW c \in Comic
  PROVE  running'[c] = Cardinality(Logging(c)') + lost'[c]
<1>0. /\ TypeOK /\ RunsOK /\ ComicsOK /\ LogsOK /\ running[c] = Cardinality(Logging(c)) + lost[c]
      /\ Cardinality(Logging(c)) \in Nat
  BY TypeSplit, LoggingFinite DEF LogsInv, RunningLogs
<1>1. PICK q \in Run, d \in Comic : q = task[t] /\ d = q.comic
  BY <1>0, SchedSteps DEF TypeOK
<1> DEFINE Goal == running'[c] = Cardinality(Logging(c)') + lost'[c]
<1>2. ASSUME NEW x, task' = [task EXCEPT ![t] = x]
      PROVE  /\ task'[t] = x
             /\ \A s \in Task \ {t} : task'[s] = task[s]
             /\ (Logs(x, c) <=> Logs(q, c)) => Logging(c)' = Logging(c)
  <2>1. task'[t] = x /\ \A s \in Task \ {t} : task'[s] = task[s]
    BY <1>0, <1>2 DEF RunsOK
  <2>2. ASSUME Logs(x, c) <=> Logs(q, c) PROVE \A s \in Task : Logs(task'[s], c) <=> Logs(task[s], c)
    <3>1. \A s \in Task : s = t \/ s \in Task \ {t}
      OBVIOUS
    <3> QED
      BY <1>1, <2>1, <2>2, <3>1
  <2> QED
    BY <2>1, <2>2, SameLogging
<1>3. ASSUME NEW x, task' = [task EXCEPT ![t] = x], Logs(x, c) <=> Logs(q, c),
             running'[c] = running[c], lost'[c] = lost[c]
      PROVE  Goal
  BY <1>0, <1>2, <1>3
<1>4. ASSUME NEW x, x = Idle PROVE ~Logs(x, c)
  BY <1>4, IdleType DEF Logs
<1>5. CASE Fetch(t)
  <2>1. PICK x : task' = [task EXCEPT ![t] = x] /\ (x = Idle \/ x.stage = "begin")
    BY <1>0, <1>1, <1>5, FetchStep
  <2>2. ~Logs(x, c) /\ ~Logs(q, c)
    BY <1>1, <1>4, <1>5, <2>1 DEF Fetch, Logs
  <2> QED
    BY <1>3, <1>5, <2>1, <2>2 DEF Fetch, ghosts
<1>6. CASE Begin(t)
  <2>1. PICK x : /\ task' = [task EXCEPT ![t] = x] /\ x.stage = "job" /\ x.comic = d
                 /\ running' = [running EXCEPT ![d] = running[d] + IF x.logged THEN 1 ELSE 0]
    BY <1>0, <1>1, <1>6, BeginStep
  <2>2. ~Logs(q, c) /\ lost' = lost
    BY <1>1, <1>6 DEF Begin, Logs
  <2>3. CASE c = d /\ x.logged
    <3>1. Logs(x, c)
      BY <2>1, <2>3 DEF Logs
    <3>2. Cardinality(Logging(c)') = Cardinality(Logging(c)) + 1
      BY <1>1, <1>2, <2>1, <2>2, <3>1, MoreLogging
    <3>3. running'[c] = running[c] + 1
      BY <1>0, <2>1, <2>3 DEF LogsOK
    <3> QED
      BY <1>0, <2>2, <3>2, <3>3 DEF LogsOK
  <2>4. CASE ~(c = d /\ x.logged)
    <3>1. ~Logs(x, c)
      BY <2>1, <2>4 DEF Logs
    <3>2. running'[c] = running[c]
      BY <1>0, <2>1, <2>4 DEF LogsOK
    <3> QED
      BY <1>3, <2>1, <2>2, <3>1, <3>2
  <2> QED
    BY <2>3, <2>4
<1>7. CASE JobEnds(t)
  <2>1. PICK x : /\ task' = [task EXCEPT ![t] = x] /\ x.stage = "log" /\ x.comic = q.comic
                 /\ x.logged = q.logged
    BY <1>0, <1>1, <1>7, JobStep
  <2>2. Logs(x, c) <=> Logs(q, c)
    BY <1>1, <1>7, <2>1 DEF JobEnds, Logs
  <2> QED
    BY <1>3, <1>7, <2>1, <2>2 DEF JobEnds, ghosts
<1>8. CASE UpdateLog(t)
  <2>1. PICK x : task' = [task EXCEPT ![t] = x] /\ (x = Idle \/ x.stage = "update")
    BY <1>0, <1>1, <1>8, LogStep
  <2>2. ~Logs(x, c) /\ q.stage = "log"
    BY <1>1, <1>4, <1>8, <2>1 DEF UpdateLog, Logs
  <2>3. \/ /\ running' = [running EXCEPT ![d] = running[d] - IF q.logged THEN 1 ELSE 0]
           /\ lost' = lost
        \/ q.logged /\ lost' = [lost EXCEPT ![d] = lost[d] + 1] /\ running' = running
    BY <1>1, <1>8 DEF UpdateLog
  <2>4. CASE c = d /\ q.logged
    <3>1. Logs(q, c)
      BY <1>1, <2>2, <2>4 DEF Logs
    <3>2. Cardinality(Logging(c)') = Cardinality(Logging(c)) - 1
      BY <1>1, <1>2, <2>1, <2>2, <3>1, LessLogging
    <3>3. \/ running'[c] = running[c] - 1 /\ lost'[c] = lost[c]
          \/ running'[c] = running[c] /\ lost'[c] = lost[c] + 1
      BY <1>0, <2>3, <2>4 DEF LogsOK
    <3>4. running[c] \in Nat /\ lost[c] \in Nat
      BY <1>0 DEF LogsOK
    <3> QED
      BY <1>0, <3>2, <3>3, <3>4
  <2>5. CASE ~(c = d /\ q.logged)
    <3>1. ~Logs(q, c)
      BY <1>1, <2>5 DEF Logs
    <3>2. running'[c] = running[c] /\ lost'[c] = lost[c]
      BY <1>0, <2>3, <2>5 DEF LogsOK
    <3> QED
      BY <1>3, <2>1, <2>2, <3>1, <3>2
  <2> QED
    BY <2>4, <2>5
<1>9. CASE UpdateComic(t)
  <2>1. task' = [task EXCEPT ![t] = Idle]
    BY <1>9 DEF UpdateComic, Finish
  <2>2. ~Logs(Idle, c) /\ ~Logs(q, c)
    BY <1>1, <1>4, <1>9 DEF UpdateComic, Logs
  <2> QED
    BY <1>3, <1>9, <2>1, <2>2 DEF UpdateComic
<1> QED
  BY <1>5, <1>6, <1>7, <1>8, <1>9 DEF RunComic

LEMMA LogsNext == LogsInv /\ [Next]_vars => LogsInv'
<1> SUFFICES ASSUME LogsInv, [Next]_vars PROVE LogsInv'
  OBVIOUS
<1>0. TypeOK /\ RunsOK /\ SchedOK /\ LogsOK /\ RunningLogs /\ TypeOK'
  BY TypeSplit, TypeNext DEF LogsInv
<1> SUFFICES ASSUME NEW c \in Comic PROVE running'[c] = Cardinality(Logging(c)') + lost'[c]
  BY <1>0 DEF LogsInv, RunningLogs
<1> DEFINE Goal == running'[c] = Cardinality(Logging(c)') + lost'[c]
<1>1. ASSUME UNCHANGED <<running, lost>>, \A t \in Task : Logs(task'[t], c) <=> Logs(task[t], c)
      PROVE  Goal
  BY <1>0, <1>1, SameLogging DEF RunningLogs
<1>2. ASSUME UNCHANGED <<running, lost, task>> PROVE Goal
  BY <1>1, <1>2
<1>3. ASSUME UNCHANGED <<running, lost>>, NEW t \in Task, NEW x, task' = [task EXCEPT ![t] = x],
             ~Logs(x, c), task[t].stage = "idle"
      PROVE  Goal
  <2>1. ~Logs(task[t], c)
    BY <1>3 DEF Logs
  <2>2. \A s \in Task : s # t => task'[s] = task[s]
    BY <1>0, <1>3 DEF RunsOK
  <2>3. task'[t] = x
    BY <1>0, <1>3 DEF RunsOK
  <2>4. \A s \in Task : Logs(task'[s], c) <=> Logs(task[s], c)
    BY <1>3, <2>1, <2>2, <2>3
  <2> QED
    BY <1>1, <1>3, <2>4
<1>4. ASSUME NEW t \in Task, RunComic(t) PROVE Goal
  BY <1>4, RunLogs
<1>5. CASE RunNext
  <2>1. PICK x : task' = [task EXCEPT ![Sched] = x] /\ x.stage = "begin"
    BY <1>0, <1>5, NextStep
  <2>2. ~Logs(x, c)
    BY <2>1 DEF Logs
  <2> QED
    BY <1>3, <1>5, <2>1, <2>2 DEF RunNext, Task, ghosts
<1>6. ASSUME NEW t \in Manual, NEW d \in Comic, AdminRunCrawlerNow(t, d) PROVE Goal
  <2>1. PICK x : task' = [task EXCEPT ![t] = x] /\ x.stage \in {"fetch", "begin"}
    BY <1>0, <1>6, AdminStarts
  <2>2. ~Logs(x, c)
    BY <2>1 DEF Logs
  <2> QED
    BY <1>3, <1>6, <2>1, <2>2 DEF AdminRunCrawlerNow, Task, ghosts
<1>7. ASSUME NEW t \in Manual, NEW d \in Comic, NEW f \in Form, AdminCreateComic(t, d, f) PROVE Goal
  <2>1. CASE UNCHANGED task
    BY <1>2, <1>7, <2>1 DEF AdminCreateComic, ghosts
  <2>2. CASE ~UNCHANGED task
    <3>1. PICK x : task' = [task EXCEPT ![t] = x] /\ x.stage \in {"fetch", "begin"}
      BY <1>0, <1>7, <2>2, AdminStarts
    <3>2. ~Logs(x, c)
      BY <3>1 DEF Logs
    <3> QED
      BY <1>3, <1>7, <3>1, <3>2 DEF AdminCreateComic, Task, ghosts
  <2> QED
    BY <2>1, <2>2
<1>8. ASSUME NEW d \in Comic, NEW f \in Form, NEW p \in Fields, AdminUpdateComic(d, f, p) PROVE Goal
  <2>1. \A t \in Task : /\ task'[t].comic = task[t].comic /\ task'[t].stage = task[t].stage
                        /\ task'[t].logged = task[t].logged
    BY <1>0, <1>8, RunsOutOfDate DEF AdminUpdateComic
  <2> QED
    BY <1>1, <1>8, <2>1 DEF AdminUpdateComic, Logs
<1>9. CASE Pass
  <2>1. \A t \in Task : /\ task'[t].comic = task[t].comic /\ task'[t].stage = task[t].stage
                        /\ task'[t].logged = task[t].logged
    BY <1>0, <1>9, RunsOlder
  <2> QED
    BY <1>1, <1>9, <2>1 DEF Pass, Logs
<1>10. CASE Crash
  <2>1. Logging(c)' = {}
    BY <1>10, IdleType DEF Crash, Logging
  <2>2. Cardinality(Logging(c)') = 0
    BY <2>1, FS_EmptySet
  <2>3. lost'[c] = lost[c] + Cardinality(Logging(c)) /\ running'[c] = running[c]
    BY <1>10 DEF Crash
  <2> QED
    BY <1>0, <2>2, <2>3, LoggingFinite DEF RunningLogs, LogsOK
<1>11. CASE Fire \/ TakeTick \/ LoadComics \/ LoadFails \/ RunOnceReturns
            \/ (\E d \in Comic : AdminDeleteComic(d)) \/ UNCHANGED vars
  BY <1>2, <1>11 DEF Fire, TakeTick, LoadComics, LoadFails, RunOnceReturns, AdminDeleteComic, vars, ghosts
<1> QED
  BY <1>4, <1>5, <1>6, <1>7, <1>8, <1>9, <1>10, <1>11 DEF Next, Scheduler, Admin

\* The tables, the scheduler and the runs keep their types: no UPDATE of a log row
\* is without a row that says running (service.go:99-151, scheduler.go:51-87).
THEOREM TypeCorrect == Spec => []TypeOK
<1> QED
  BY LogsInit, LogsNext, PTL DEF Spec, LogsInv

\* However runs overlap, each finishes its own row (service.go:116, 135, 140).
THEOREM LogsTold == Spec => []RunningLogs
<1> QED
  BY LogsInit, LogsNext, PTL DEF Spec, LogsInv

-----------------------------------------------------------------------------
(* Copies of the comics' rows.                                             *)

Updates(c) == \E f \in Form, p \in Fields : AdminUpdateComic(c, f, p)

\* The row of a comic that is in use keeps its mode and interval but for an admin's update.
LEMMA RowKept ==
  ASSUME TypeOK, [Next]_vars, NEW c \in Comic, ~Updates(c), there[c] # "free"
  PROVE  /\ there'[c] # "free"
         /\ conf'[c].mode = conf[c].mode /\ conf'[c].interval = conf[c].interval
<1>0. /\ there \in [Comic -> {"free", "there", "deleted"}] /\ conf \in [Comic -> SettingType]
      /\ \A t \in Task : task[t].stage # "idle" => task[t].comic \in Comic
  BY DEF TypeOK, Run
<1> DEFINE Goal == /\ there'[c] # "free"
                   /\ conf'[c].mode = conf[c].mode /\ conf'[c].interval = conf[c].interval
<1>1. ASSUME UNCHANGED <<there, conf>> PROVE Goal
  BY <1>1
<1>2. ASSUME NEW t \in Task, RunComic(t) PROVE Goal
  <2>1. UNCHANGED there
    BY <1>2, SchedSteps
  <2>2. CASE UNCHANGED conf
    BY <1>1, <2>1, <2>2
  <2>3. CASE WriteComic(t) /\ conf' = [conf EXCEPT ![task[t].comic].enabled = FALSE]
    <3>1. PICK d : d = task[t].comic
      OBVIOUS
    <3>2. conf' = [conf EXCEPT ![d] = [conf[d] EXCEPT !.enabled = FALSE]]
      BY <2>3, <3>1, Zenon
    <3>3. [conf[c] EXCEPT !.enabled = FALSE].mode = conf[c].mode
          /\ [conf[c] EXCEPT !.enabled = FALSE].interval = conf[c].interval
      BY <1>0 DEF SettingType
    <3>4. conf'[c] = conf[c] \/ conf'[c] = [conf[c] EXCEPT !.enabled = FALSE]
      BY <1>0, <3>2
    <3> QED
      BY <2>1, <3>3, <3>4
  <2> QED
    BY <1>2, <2>2, <2>3 DEF RunComic, Fetch, Begin, JobEnds, UpdateLog, UpdateComic, WriteComic, comics
<1>3. ASSUME NEW t \in Manual, NEW d \in Comic, NEW f \in Form, AdminCreateComic(t, d, f) PROVE Goal
  <2>1. there' = [there EXCEPT ![d] = "there"] /\ conf' = [conf EXCEPT ![d] = Setting(f)] /\ d # c
    BY <1>3 DEF AdminCreateComic
  <2> QED
    BY <1>0, <2>1
<1>4. ASSUME NEW d \in Comic, NEW f \in Form, NEW p \in Fields, AdminUpdateComic(d, f, p) PROVE Goal
  <2>1. d # c
    BY <1>4 DEF Updates
  <2>2. there' = there /\ conf'[c] = conf[c]
    BY <1>0, <1>4, <2>1 DEF AdminUpdateComic
  <2> QED
    BY <2>2
<1>5. ASSUME NEW d \in Comic, AdminDeleteComic(d) PROVE Goal
  BY <1>0, <1>5 DEF AdminDeleteComic
<1>6. \/ Fire \/ Scheduler \/ Crash \/ Pass \/ UNCHANGED vars
      \/ \E t \in Manual, d \in Comic : AdminRunCrawlerNow(t, d)
      => UNCHANGED <<there, conf>>
  BY DEF Fire, Scheduler, TakeTick, LoadComics, LoadFails, RunNext, RunOnceReturns, Crash, Pass, vars,
     AdminRunCrawlerNow, comics
<1> QED
  BY <1>1, <1>2, <1>3, <1>4, <1>5, <1>6 DEF Next, Admin

Sound(x) ==
    /\ x.stage # "idle" => there[x.comic] # "free"
    /\ x.stage \notin {"idle", "fetch"} => Faithful(x)

LEMMA FaithfulKept ==
  ASSUME TypeOK, [Next]_vars, NEW x, x.comic \in Comic, ~Updates(x.comic), there[x.comic] # "free", Faithful(x)
  PROVE  Faithful(x)' /\ there'[x.comic] # "free"
<1>1. PICK c \in Comic : c = x.comic
  OBVIOUS
<1>2. conf'[c].mode = conf[c].mode /\ there'[c] # "free"
  BY <1>1, RowKept
<1> QED
  BY <1>1, <1>2 DEF Faithful

LEMMA SoundKept ==
  ASSUME TypeOK, [Next]_vars, NEW x \in Run, RunOK(x), ~Updates(x.comic), Sound(x)
  PROVE  Sound(x)'
<1>1. CASE x.stage = "idle"
  BY <1>1 DEF Sound
<1>2. CASE x.stage # "idle"
  <2>1. PICK c \in Comic : c = x.comic
    BY <1>2 DEF RunOK, Run
  <2>2. there[c] # "free" /\ there'[c] # "free"
    BY <1>2, <2>1, RowKept DEF Sound
  <2>3. x.stage # "fetch" => Faithful(x)'
    BY <1>2, <2>1, <2>2, FaithfulKept DEF Sound
  <2> QED
    BY <2>1, <2>2, <2>3 DEF Sound
<1> QED
  BY <1>1, <1>2

\* A copy or a run, and what an admin's update of comic c makes of it.
LEMMA FaithfulUpdated ==
  ASSUME TypeOK, NEW c \in Comic, Updates(c), NEW q, q.comic \in Comic, there[q.comic] # "free", Faithful(q),
         NEW x, x.comic = q.comic, x.mode = q.mode, q.comic = c \/ q.changed => x.changed
  PROVE  Faithful(x)' /\ there'[x.comic] # "free"
<1>1. /\ there' = there
      /\ \A d \in Comic : d # c => conf'[d] = conf[d]
  BY DEF TypeOK, Updates, AdminUpdateComic
<1> QED
  BY <1>1 DEF Faithful

LEMMA QueueFaithful ==
  ASSUME CopiesInv, [Next]_vars, NEW r \in queue'
  PROVE  there'[r.comic] # "free" /\ Faithful(r)'
<1> DEFINE Goal == there'[r.comic] # "free" /\ Faithful(r)'
<1>0. /\ TypeOK /\ ComicsOK /\ SchedOK
      /\ \A q \in queue : q \in Copy /\ q.comic \in Comic /\ there[q.comic] # "free" /\ Faithful(q)
  BY TypeSplit DEF CopiesInv, SchedOK, Copy
<1>1. ASSUME r \in queue, \A c \in Comic : ~Updates(c) PROVE Goal
  BY <1>0, <1>1, FaithfulKept
<1>2. ASSUME NEW c \in Comic, Updates(c) PROVE Goal
  <2>1. PICK q \in queue : r = OutOfDate(q, c)
    BY <1>2 DEF Updates, AdminUpdateComic
  <2>2. r.comic = q.comic /\ r.mode = q.mode /\ (q.comic = c \/ q.changed => r.changed)
    BY <1>0, <2>1, CopyOutOfDate
  <2> QED
    BY <1>0, <1>2, <2>2, FaithfulUpdated
<1>3. CASE LoadComics
  <2>1. PICK c \in Comic : ShouldRun(c) /\ r = [comic |-> c, mode |-> conf[c].mode, changed |-> FALSE]
    BY <1>3 DEF LoadComics
  <2>2. there[c] = "there" /\ UNCHANGED <<there, conf>>
    BY <1>3, <2>1 DEF ShouldRun, LoadComics, comics
  <2> QED
    BY <2>1, <2>2 DEF Faithful
<1>4. ASSUME ~LoadComics, \A c \in Comic : ~Updates(c) PROVE r \in queue
  <2>1. ASSUME NEW t \in Task, RunComic(t) PROVE queue' = queue
    BY <2>1, SchedSteps DEF CopiesInv
  <2>2. ASSUME Admin PROVE queue' = queue
    BY <1>4, <2>2 DEF Admin, AdminRunCrawlerNow, AdminCreateComic, AdminDeleteComic, Updates, sched
  <2>3. Fire \/ Scheduler \/ Crash \/ Pass \/ UNCHANGED vars => queue' \subseteq queue
    BY <1>4 DEF Fire, Scheduler, TakeTick, LoadFails, RunNext, RunOnceReturns, Crash, Pass, vars, sched
  <2> QED
    BY <2>1, <2>2, <2>3 DEF Next
<1> QED
  BY <1>1, <1>2, <1>3, <1>4

LEMMA RunSound ==
  ASSUME CopiesInv, [Next]_vars, NEW t \in Task, RunComic(t)
  PROVE  \E x : task'[t] = x /\ Sound(x)'
<1>0. /\ TypeOK /\ ComicsOK /\ RunsOK /\ Sound(task[t])
  BY TypeSplit DEF CopiesInv, Sound
<1>1. PICK q \in Run, c \in Comic : q = task[t] /\ c = q.comic
  BY <1>0, SchedSteps DEF TypeOK
<1>2. there' = there /\ Sound(q) /\ q.stage # "idle" /\ there[c] # "free"
  BY <1>0, <1>1, SchedSteps DEF Sound
<1>3. ASSUME NEW x, task' = [task EXCEPT ![t] = x], Sound(x)' PROVE \E y : task'[t] = y /\ Sound(y)'
  BY <1>0, <1>3 DEF RunsOK
<1>4. Sound(Idle)'
  BY IdleType DEF Sound
<1>5. CASE Fetch(t)
  <2>1. PICK x : /\ task' = [task EXCEPT ![t] = x]
                 /\ x = Idle \/ (x.comic = c /\ x.mode = conf[c].mode)
    BY <1>0, <1>1, <1>5, FetchStep
  <2>2. conf' = conf
    BY <1>5 DEF Fetch, comics
  <2>3. Sound(x)'
    BY <1>2, <1>4, <2>1, <2>2 DEF Sound, Faithful
  <2> QED
    BY <1>3, <2>1, <2>3
<1>6. ASSUME NEW x, task' = [task EXCEPT ![t] = x], x.comic = q.comic, x.mode = q.mode, x.changed = q.changed,
             q.stage # "fetch", conf' = conf
      PROVE  \E y : task'[t] = y /\ Sound(y)'
  <2>1. Sound(x)'
    BY <1>1, <1>2, <1>6 DEF Sound, Faithful
  <2> QED
    BY <1>3, <1>6, <2>1
<1>7. CASE Begin(t)
  <2>1. PICK x : task' = [task EXCEPT ![t] = x] /\ x.comic = q.comic /\ x.mode = q.mode /\ x.changed = q.changed
    BY <1>0, <1>1, <1>7, BeginStep
  <2>2. q.stage # "fetch" /\ conf' = conf
    BY <1>1, <1>7 DEF Begin, comics
  <2> QED
    BY <1>6, <2>1, <2>2
<1>8. CASE JobEnds(t)
  <2>1. PICK x : task' = [task EXCEPT ![t] = x] /\ x.comic = q.comic /\ x.mode = q.mode /\ x.changed = q.changed
    BY <1>0, <1>1, <1>8, JobStep
  <2>2. q.stage # "fetch" /\ conf' = conf
    BY <1>1, <1>8 DEF JobEnds, comics
  <2> QED
    BY <1>6, <2>1, <2>2
<1>9. CASE UpdateLog(t)
  <2>1. PICK x : /\ task' = [task EXCEPT ![t] = x]
                 /\ x = Idle \/ (x.comic = q.comic /\ x.mode = q.mode /\ x.changed = q.changed)
    BY <1>0, <1>1, <1>9, LogStep
  <2>2. q.stage # "fetch" /\ conf' = conf
    BY <1>1, <1>9 DEF UpdateLog, comics
  <2>3. CASE x = Idle
    BY <1>3, <1>4, <2>1, <2>3
  <2>4. CASE x # Idle
    BY <1>6, <2>1, <2>2, <2>4
  <2> QED
    BY <2>3, <2>4
<1>10. CASE UpdateComic(t)
  BY <1>3, <1>4, <1>10 DEF UpdateComic, Finish
<1> QED
  BY <1>5, <1>7, <1>8, <1>9, <1>10 DEF RunComic

LEMMA TaskSound ==
  ASSUME CopiesInv, [Next]_vars, NEW t \in Task
  PROVE  \E x : task'[t] = x /\ Sound(x)'
<1> DEFINE Goal == \E x : task'[t] = x /\ Sound(x)'
<1>0. TypeOK /\ ComicsOK /\ SchedOK /\ RunsOK /\ Sound(task[t])
  BY TypeSplit DEF CopiesInv, Sound
<1>1. PICK q \in Run : q = task[t] /\ RunOK(q) /\ Sound(q) /\ (q.comic \in Comic \/ q.stage = "idle")
  BY <1>0 DEF RunsOK, RunOK, Run
<1>2. ASSUME task'[t] = q, \A c \in Comic : ~Updates(c) PROVE Goal
  <2>1. q.stage = "idle" => Sound(q)'
    BY DEF Sound
  <2>2. q.stage # "idle" => Sound(q)'
    BY <1>0, <1>1, <1>2, SoundKept
  <2> QED
    BY <1>2, <2>1, <2>2
<1>3. ASSUME NEW s \in Task, RunComic(s) PROVE Goal
  <2>1. CASE s = t
    BY <1>3, <2>1, RunSound
  <2>2. CASE s # t
    <3>1. PICK x : task' = [task EXCEPT ![s] = x]
      BY <1>0, <1>3, RunReplaced
    <3>2. task'[t] = q /\ there' = there
      BY <1>0, <1>1, <1>3, <2>2, <3>1, SchedSteps DEF RunsOK
    <3>3. \A c \in Comic : there[c] # "free" => conf'[c].mode = conf[c].mode
      <4>1. \/ UNCHANGED conf
            \/ conf' = [conf EXCEPT ![task[s].comic] = [conf[task[s].comic] EXCEPT !.enabled = FALSE]]
        BY <1>3, Zenon DEF RunComic, Fetch, Begin, JobEnds, UpdateLog, UpdateComic, WriteComic, comics
      <4>2. \A c \in Comic : [conf[c] EXCEPT !.enabled = FALSE].mode = conf[c].mode
        BY <1>0 DEF ComicsOK, SettingType
      <4> QED
        BY <1>0, <4>1, <4>2 DEF ComicsOK
    <3>4. Sound(q)'
      BY <1>1, <3>2, <3>3 DEF Sound, Faithful
    <3> QED
      BY <3>2, <3>4
  <2> QED
    BY <2>1, <2>2
<1>4. CASE RunNext
  <2>1. PICK r \in queue, x \in Run : /\ task' = [task EXCEPT ![Sched] = x]
                                       /\ x.comic = r.comic /\ x.mode = r.mode /\ x.changed = r.changed
    BY <1>0, <1>4, NextStep
  <2>2. there[r.comic] # "free" /\ Faithful(r) /\ UNCHANGED <<there, conf>>
    BY <1>4 DEF CopiesInv, RunNext, comics
  <2>3. Sound(x)'
    BY <2>1, <2>2 DEF Sound, Faithful
  <2>4. CASE t = Sched
    BY <1>0, <2>1, <2>3, <2>4 DEF RunsOK
  <2>5. CASE t # Sched
    <3>1. task'[t] = q
      BY <1>0, <1>1, <2>1, <2>5 DEF RunsOK
    <3>2. Sound(q)'
      BY <1>1, <2>2 DEF Sound, Faithful
    <3> QED
      BY <3>1, <3>2
  <2> QED
    BY <2>4, <2>5
<1>5. ASSUME NEW s \in Manual, NEW c \in Comic, AdminRunCrawlerNow(s, c) PROVE Goal
  <2>1. PICK x : task' = [task EXCEPT ![s] = x] /\ x.stage = "fetch" /\ x.comic = c
    BY <1>0, <1>5, AdminStarts
  <2>2. there[c] # "free" /\ UNCHANGED <<there, conf>>
    BY <1>5 DEF AdminRunCrawlerNow, comics
  <2>3. Sound(x)' /\ Sound(q)'
    BY <1>1, <2>1, <2>2 DEF Sound, Faithful
  <2>4. task'[t] = x \/ task'[t] = q
    BY <1>0, <1>1, <2>1 DEF RunsOK
  <2> QED
    BY <2>3, <2>4
<1>6. ASSUME NEW s \in Manual, NEW c \in Comic, NEW f \in Form, AdminCreateComic(s, c, f) PROVE Goal
  <2>1. /\ there[c] = "free" /\ there' = [there EXCEPT ![c] = "there"]
        /\ conf' = [conf EXCEPT ![c] = Setting(f)]
    BY <1>6 DEF AdminCreateComic
  <2>2. Sound(q)'
    <3>1. CASE q.stage = "idle"
      BY <3>1 DEF Sound
    <3>2. CASE q.stage # "idle"
      <4>1. q.comic \in Comic /\ q.comic # c
        BY <1>1, <2>1, <3>2 DEF Sound
      <4>2. there'[q.comic] = there[q.comic] /\ conf'[q.comic] = conf[q.comic]
        BY <1>0, <2>1, <4>1 DEF ComicsOK
      <4> QED
        BY <1>1, <4>2 DEF Sound, Faithful
    <3> QED
      BY <3>1, <3>2
  <2>3. CASE UNCHANGED task
    BY <1>1, <2>2, <2>3
  <2>4. CASE ~UNCHANGED task
    <3>1. PICK x : task' = [task EXCEPT ![s] = x] /\ x.comic = c /\ x.mode = FullSync
      BY <1>0, <1>6, <2>4, AdminStarts
    <3>2. Setting(f).mode = FullSync
      BY <1>6, <2>4 DEF AdminCreateComic
    <3>3. there'[c] = "there" /\ conf'[c].mode = FullSync
      BY <1>0, <2>1, <3>2 DEF ComicsOK
    <3>4. Sound(x)'
      BY <3>1, <3>3 DEF Sound, Faithful
    <3>5. task'[t] = x \/ task'[t] = q
      BY <1>0, <1>1, <3>1 DEF RunsOK
    <3> QED
      BY <2>2, <3>4, <3>5
  <2> QED
    BY <2>3, <2>4
<1>7. ASSUME NEW c \in Comic, NEW f \in Form, NEW p \in Fields, AdminUpdateComic(c, f, p) PROVE Goal
  <2>1. PICK x : x = task'[t]
    OBVIOUS
  <2>2. /\ x.comic = q.comic /\ x.mode = q.mode /\ x.stage = q.stage
        /\ (q.comic = c \/ q.changed => x.changed)
    BY <1>0, <1>1, <1>7, <2>1, RunsOutOfDate DEF AdminUpdateComic
  <2>3. there' = there /\ \A d \in Comic : d # c => conf'[d] = conf[d]
    BY <1>0, <1>7 DEF AdminUpdateComic, ComicsOK
  <2>4. Sound(x)'
    BY <1>1, <2>2, <2>3 DEF Sound, Faithful
  <2> QED
    BY <2>1, <2>4
<1>8. ASSUME NEW c \in Comic, AdminDeleteComic(c) PROVE Goal
  <2>1. task' = task /\ conf' = conf /\ \A d \in Comic : there[d] # "free" => there'[d] # "free"
    BY <1>0, <1>8 DEF AdminDeleteComic, ComicsOK
  <2>2. Sound(q)'
    BY <1>1, <2>1 DEF Sound, Faithful
  <2> QED
    BY <1>1, <2>1, <2>2
<1>9. CASE Pass
  <2>1. PICK x : x = task'[t]
    OBVIOUS
  <2>2. x.comic = q.comic /\ x.mode = q.mode /\ x.stage = q.stage /\ x.changed = q.changed
    BY <1>0, <1>1, <1>9, <2>1, RunsOlder
  <2>3. there' = there /\ conf' = conf
    BY <1>9 DEF Pass
  <2>4. Sound(x)'
    BY <1>1, <2>2, <2>3 DEF Sound, Faithful
  <2> QED
    BY <2>1, <2>4
<1>10. CASE Crash
  BY <1>10, IdleType DEF Crash, Sound
<1>11. CASE Fire \/ TakeTick \/ LoadComics \/ LoadFails \/ RunOnceReturns \/ UNCHANGED vars
  <2>1. UNCHANGED <<task, there, conf>>
    BY <1>11 DEF Fire, TakeTick, LoadComics, LoadFails, RunOnceReturns, vars, comics
  <2>2. Sound(q)'
    BY <1>1, <2>1 DEF Sound, Faithful
  <2> QED
    BY <1>1, <2>1, <2>2
<1> QED
  BY <1>3, <1>4, <1>5, <1>6, <1>7, <1>8, <1>9, <1>10, <1>11 DEF Next, Scheduler, Admin

\* What becomes of the age of the scheduler's latest run.
LEMMA BegunSteps ==
  ASSUME TypeOK, [Next]_vars, NEW c \in Comic
  PROVE  /\ \/ begun'[c] \in {Never, begun[c]}
            \/ Pass /\ begun'[c] = Older(begun[c])
            \/ Begin(Sched) /\ task[Sched].comic = c /\ begun'[c] = 0
         /\ Updates(c) => begun'[c] = Never
<1>0. begun \in [Comic -> Age \cup {Never}]
  BY DEF TypeOK
<1>1. Updates(c) => begun'[c] = Never
  BY <1>0 DEF Updates, AdminUpdateComic
<1>2. ASSUME NEW t \in Task, RunComic(t)
      PROVE  \/ begun'[c] \in {Never, begun[c]}
             \/ Begin(Sched) /\ task[Sched].comic = c /\ begun'[c] = 0
  <2>1. CASE Begin(t)
    <3>1. begun' = [begun EXCEPT ![task[t].comic] = IF t = Sched THEN 0 ELSE begun[task[t].comic]]
      BY <2>1 DEF Begin
    <3> QED
      BY <1>0, <2>1, <3>1
  <2>2. CASE ~Begin(t)
    BY <1>0, <1>2, <2>2 DEF RunComic, Fetch, JobEnds, UpdateLog, UpdateComic, Overtaken, ghosts
  <2> QED
    BY <2>1, <2>2
<1>3. ASSUME NEW d \in Comic, Updates(d) PROVE begun'[c] \in {Never, begun[c]}
  BY <1>0, <1>3 DEF Updates, AdminUpdateComic
<1>4. \/ Fire \/ Scheduler \/ UNCHANGED vars
      \/ \E t \in Manual, d \in Comic : AdminRunCrawlerNow(t, d)
      \/ \E t \in Manual, d \in Comic, f \in Form : AdminCreateComic(t, d, f)
      \/ \E d \in Comic : AdminDeleteComic(d)
      => begun' = begun
  BY DEF Fire, Scheduler, TakeTick, LoadComics, LoadFails, RunNext, RunOnceReturns, vars, ghosts,
     AdminRunCrawlerNow, AdminCreateComic, AdminDeleteComic
<1>5. Crash => begun'[c] = Never
  BY DEF Crash
<1>6. Pass => begun'[c] = Older(begun[c])
  BY DEF Pass
<1> QED
  BY <1>1, <1>2, <1>3, <1>4, <1>5, <1>6 DEF Next, Admin, Updates

LEMMA CopiesInit == Init => CopiesInv
<1> SUFFICES ASSUME Init PROVE CopiesInv
  OBVIOUS
<1> QED
  BY TypeInit, IdleType DEF Init, CopiesInv

LEMMA CopiesNext == CopiesInv /\ TypeOK' /\ [Next]_vars => CopiesInv'
<1> SUFFICES ASSUME CopiesInv, TypeOK', [Next]_vars PROVE CopiesInv'
  OBVIOUS
<1>1. ASSUME NEW c \in Comic, there'[c] = "free" PROVE begun'[c] = Never
  <2>1. TypeOK /\ begun \in [Comic -> Age \cup {Never}] /\ there \in [Comic -> {"free", "there", "deleted"}]
    BY DEF CopiesInv, TypeOK
  <2>2. there[c] = "free"
    <3>1. Updates(c) => there' = there
      BY DEF Updates, AdminUpdateComic
    <3> QED
      BY <1>1, <2>1, <3>1, RowKept
  <2>3. begun[c] = Never
    BY <2>2 DEF CopiesInv
  <2>4. ~(Begin(Sched) /\ task[Sched].comic = c)
    BY <2>2 DEF CopiesInv, Begin, Task
  <2> QED
    BY <2>1, <2>3, <2>4, BegunSteps, AgeTypes
<1>2. \A q \in queue' : there'[q.comic] # "free" /\ Faithful(q)'
  BY QueueFaithful
<1>3. ASSUME NEW t \in Task
      PROVE  /\ task'[t].stage # "idle" => there'[task'[t].comic] # "free"
             /\ task'[t].stage \notin {"idle", "fetch"} =>
                   task'[t].changed \/ task'[t].mode = conf'[task'[t].comic].mode
  <2>1. PICK x : task'[t] = x /\ Sound(x)'
    BY TaskSound
  <2> QED
    BY <2>1 DEF Sound, Faithful
<1> QED
  BY <1>1, <1>2, <1>3 DEF CopiesInv, Faithful

\* A run turns the crawler off only of a comic in full sync, or one an admin has
\* written since the run copied it (service.go:132).
THEOREM OffByFullSync == Spec => OffOnlyByFullSync
<1>1. ASSUME CopiesInv, NEW t \in Task, NEW c \in Comic, UpdateComic(t), task[t].comic = c,
             conf[c].enabled, ~conf'[c].enabled
      PROVE  conf[c].mode = FullSync \/ task[t].changed
  <2>1. task[t].mode = FullSync
    BY <1>1 DEF UpdateComic, WriteComic
  <2>2. Faithful(task[t])
    BY <1>1 DEF CopiesInv, UpdateComic
  <2> QED
    BY <1>1, <2>1, <2>2 DEF Faithful
<1>2. CopiesInv /\ [Next]_vars =>
        [\A t \in Task, c \in Comic :
            (UpdateComic(t) /\ task[t].comic = c /\ conf[c].enabled /\ ~conf'[c].enabled)
               => conf[c].mode = FullSync \/ task[t].changed]_vars
  BY <1>1
<1> QED
  BY <1>2, TypeCorrect, CopiesInit, CopiesNext, PTL DEF Spec, OffOnlyByFullSync

-----------------------------------------------------------------------------
(* The scheduler's runs of a comic.                                        *)

LEMMA SpacedInit == Init => SpacedInv
<1> SUFFICES ASSUME Init PROVE SpacedInv
  OBVIOUS
<1>1. task[Sched] = Idle
  BY DEF Init, Task
<1>2. queue = {} /\ \A c \in Comic : begun[c] = Never
  BY DEF Init
<1> QED
  BY <1>1, <1>2, CopiesInit, IdleType DEF SpacedInv

LEMMA MayBeginKept ==
  ASSUME CopiesInv, [Next]_vars, NEW c \in Comic, there[c] # "free", MayBegin(c),
         ~(Begin(Sched) /\ task[Sched].comic = c)
  PROVE  MayBegin(c)'
<1>0. TypeOK /\ begun[c] \in Age \cup {Never}
  BY DEF CopiesInv, TypeOK
<1>1. CASE begun'[c] = Never
  BY <1>1 DEF MayBegin
<1>2. CASE begun'[c] # Never
  <2>1. ~Updates(c) /\ begun'[c] \in {begun[c], Older(begun[c])}
    BY <1>0, <1>2, BegunSteps
  <2>2. begun[c] \in Age
    BY <1>0, <1>2, <2>1, AgeTypes
  <2>3. conf'[c].mode = conf[c].mode /\ conf'[c].interval = conf[c].interval
    BY <1>0, <2>1, RowKept
  <2>4. PICK i : i = Interval(conf[c])
    OBVIOUS
  <2>5. i = Interval(conf'[c])
    BY <2>3, <2>4 DEF Interval
  <2>6. i \in Int
    BY <1>0, <2>4, SettingParts, CrawlerAssumption DEF Interval, TypeOK
  <2>7. begun[c] >= i
    <3>1. begun[c] # Never
      BY <2>2, AgeTypes
    <3> QED
      BY <2>4, <3>1 DEF MayBegin
  <2>8. begun[c] \in Int /\ begun'[c] \in Int /\ begun'[c] >= begun[c]
    <3>1. PICK a \in Age : a = begun[c]
      BY <2>2
    <3>2. Older(a) \in Age /\ a <= Older(a) /\ Age \subseteq Nat
      BY AgeTypes
    <3>3. PICK b : b = begun'[c]
      OBVIOUS
    <3>4. b \in {a, Older(a)}
      BY <2>1, <3>1, <3>3
    <3>5. a \in Int /\ b \in Int /\ b >= a
      BY <3>2, <3>4
    <3> QED
      BY <3>1, <3>3, <3>5
  <2>9. begun'[c] >= i
    BY <2>6, <2>7, <2>8
  <2> QED
    BY <2>5, <2>9 DEF MayBegin
<1> QED
  BY <1>1, <1>2

\* What the scheduler's own run may become.
LEMMA SchedMoves ==
  ASSUME SpacedInv, [Next]_vars
  PROVE  \/ /\ task'[Sched].stage = task[Sched].stage /\ task'[Sched].comic = task[Sched].comic
            /\ task'[Sched].mode = task[Sched].mode
            /\ ~RunComic(Sched)
         \/ RunNext
         \/ RunComic(Sched)
         \/ task'[Sched].stage = "idle" /\ task'[Sched].comic = NoComic /\ queue' = {} /\ Crash
<1>0. TypeOK /\ RunsOK /\ Sched \in Task /\ Sched \notin Manual
  BY TypeSplit, CrawlerAssumption DEF SpacedInv, CopiesInv, Task
<1> DEFINE Same == /\ task'[Sched].stage = task[Sched].stage /\ task'[Sched].comic = task[Sched].comic
                   /\ task'[Sched].mode = task[Sched].mode
<1>1. ASSUME NEW t \in Task, RunComic(t), t # Sched PROVE Same
  <2>1. PICK x : task' = [task EXCEPT ![t] = x]
    BY <1>0, <1>1, RunReplaced
  <2> QED
    BY <1>0, <1>1, <2>1 DEF RunsOK
<1>2. ASSUME Admin PROVE Same
  <2>1. ASSUME NEW t \in Manual, NEW c \in Comic, AdminRunCrawlerNow(t, c) PROVE Same
    BY <1>0, <2>1 DEF AdminRunCrawlerNow, RunsOK
  <2>2. ASSUME NEW t \in Manual, NEW c \in Comic, NEW f \in Form, AdminCreateComic(t, c, f) PROVE Same
    BY <1>0, <2>2 DEF AdminCreateComic, RunsOK
  <2>3. ASSUME NEW c \in Comic, NEW f \in Form, NEW p \in Fields, AdminUpdateComic(c, f, p) PROVE Same
    BY <1>0, <2>3, RunsOutOfDate DEF AdminUpdateComic
  <2>4. ASSUME NEW c \in Comic, AdminDeleteComic(c) PROVE Same
    BY <2>4 DEF AdminDeleteComic
  <2> QED
    BY <1>2, <2>1, <2>2, <2>3, <2>4 DEF Admin
<1>3. CASE Pass
  BY <1>0, <1>3, RunsOlder
<1>4. CASE Crash
  BY <1>0, <1>4, IdleType DEF Crash
<1>5. CASE Fire \/ TakeTick \/ LoadComics \/ LoadFails \/ RunOnceReturns \/ UNCHANGED vars
  BY <1>5 DEF Fire, TakeTick, LoadComics, LoadFails, RunOnceReturns, vars
<1> QED
  BY <1>1, <1>2, <1>3, <1>4, <1>5 DEF Next, Scheduler

\* The scheduler's run goes on with its comic, or ends.
LEMMA SchedRun ==
  ASSUME SpacedInv, RunComic(Sched)
  PROVE  /\ task'[Sched].stage \in {"idle", "job", "log", "update"}
         /\ task'[Sched].comic \in {task[Sched].comic, NoComic}
         /\ queue' = queue
<1>0. TypeOK /\ RunsOK /\ ComicsOK /\ Sched \in Task /\ task[Sched].stage # "fetch"
  BY TypeSplit DEF SpacedInv, CopiesInv, Task
<1>1. queue' = queue
  BY <1>0, SchedSteps
<1>2. PICK q : q = task[Sched]
  OBVIOUS
<1>3. ASSUME NEW x, task' = [task EXCEPT ![Sched] = x],
             x = Idle \/ (x.stage \in {"job", "log", "update"} /\ x.comic = q.comic)
      PROVE  /\ task'[Sched].stage \in {"idle", "job", "log", "update"}
             /\ task'[Sched].comic \in {task[Sched].comic, NoComic}
  BY <1>0, <1>2, <1>3, IdleType DEF RunsOK
<1>4. CASE Begin(Sched)
  BY <1>0, <1>1, <1>2, <1>3, <1>4, BeginStep
<1>5. CASE JobEnds(Sched)
  BY <1>0, <1>1, <1>2, <1>3, <1>5, JobStep
<1>6. CASE UpdateLog(Sched)
  BY <1>0, <1>1, <1>2, <1>3, <1>6, LogStep
<1>7. CASE UpdateComic(Sched)
  BY <1>1, <1>3, <1>7 DEF UpdateComic, Finish
<1> QED
  BY <1>0, <1>4, <1>5, <1>6, <1>7 DEF RunComic, Fetch

\* The comics still to run are copies made at the tick, or those an admin has touched.
LEMMA QueueFrom ==
  ASSUME SpacedInv, [Next]_vars, ~LoadComics
  PROVE  \/ queue' \subseteq queue
         \/ \E c \in Comic : Updates(c) /\ queue' = {OutOfDate(q, c) : q \in queue}
<1>1. ASSUME NEW t \in Task, RunComic(t) PROVE queue' = queue
  BY <1>1, SchedSteps DEF SpacedInv, CopiesInv
<1>2. ASSUME NEW c \in Comic, Updates(c) PROVE queue' = {OutOfDate(q, c) : q \in queue}
  BY <1>2 DEF Updates, AdminUpdateComic
<1>3. ASSUME Admin, \A c \in Comic : ~Updates(c) PROVE queue' = queue
  BY <1>3 DEF Admin, AdminRunCrawlerNow, AdminCreateComic, AdminDeleteComic, Updates, sched
<1>4. Fire \/ TakeTick \/ LoadFails \/ RunNext \/ RunOnceReturns \/ Crash \/ Pass \/ UNCHANGED vars
        => queue' \subseteq queue
  BY DEF Fire, TakeTick, LoadFails, RunNext, RunOnceReturns, Crash, Pass, vars, sched
<1> QED
  BY <1>1, <1>2, <1>3, <1>4 DEF Next, Scheduler

\* The queue: one copy of a comic, none of the comic that is being run.
LEMMA QueueNext ==
  ASSUME SpacedInv, [Next]_vars
  PROVE  /\ \A q, r \in queue' : q.comic = r.comic => q = r
         /\ \A q \in queue' : q.comic # task'[Sched].comic
<1>0. /\ TypeOK /\ RunsOK /\ SchedOK /\ Sched \in Task /\ NoComic \notin Comic
      /\ \A q \in queue : q \in Copy /\ q.comic \in Comic /\ q.comic # task[Sched].comic
      /\ \A q, r \in queue : q.comic = r.comic => q = r
  BY TypeSplit, CrawlerAssumption DEF SpacedInv, CopiesInv, SchedOK, Copy, Task
<1>1. CASE LoadComics
  <2>1. \A q \in queue' : q.comic \in Comic /\ q = [comic |-> q.comic, mode |-> conf[q.comic].mode, changed |-> FALSE]
    BY <1>1 DEF LoadComics
  <2>2. task'[Sched].comic = NoComic
    BY <1>0, <1>1 DEF LoadComics, SchedOK, RunsOK, RunOK
  <2> QED
    BY <1>0, <2>1, <2>2
<1>2. CASE ~LoadComics
  <2>1. CASE queue' \subseteq queue
    <3>1. \A q, r \in queue' : q.comic = r.comic => q = r
      BY <1>0, <2>1
    <3>2. CASE RunNext
      <4>1. PICK q \in queue, x \in Run : /\ queue' = queue \ {q} /\ task' = [task EXCEPT ![Sched] = x]
                                           /\ x.comic = q.comic
        BY <1>0, <3>2, NextStep
      <4>2. task'[Sched].comic = q.comic
        BY <1>0, <4>1 DEF RunsOK
      <4>3. \A r \in queue' : r \in queue /\ r # q
        BY <4>1
      <4> QED
        BY <1>0, <3>1, <4>2, <4>3
    <3>3. CASE ~RunNext
      <4>1. task'[Sched].comic \in {task[Sched].comic, NoComic}
        BY <3>3, SchedMoves, SchedRun
      <4>2. \A q \in queue' : q.comic \in Comic /\ q.comic # task[Sched].comic
        BY <1>0, <2>1
      <4> QED
        BY <1>0, <3>1, <4>1, <4>2
    <3> QED
      BY <3>2, <3>3
  <2>2. ASSUME NEW c \in Comic, Updates(c), queue' = {OutOfDate(q, c) : q \in queue}
        PROVE  /\ \A q, r \in queue' : q.comic = r.comic => q = r
               /\ \A q \in queue' : q.comic # task'[Sched].comic
    <3>1. \A q \in queue : OutOfDate(q, c).comic = q.comic
      BY <1>0, CopyOutOfDate
    <3>2. task'[Sched].comic = task[Sched].comic
      BY <1>0, <2>2, RunsOutOfDate DEF Updates, AdminUpdateComic
    <3>3. \A q \in queue' : q.comic # task'[Sched].comic
      BY <1>0, <2>2, <3>1, <3>2
    <3>4. ASSUME NEW x \in queue', NEW y \in queue', x.comic = y.comic PROVE x = y
      <4>1. PICK q \in queue : x = OutOfDate(q, c)
        BY <2>2
      <4>2. PICK r \in queue : y = OutOfDate(r, c)
        BY <2>2
      <4>3. q = r
        BY <1>0, <3>1, <3>4, <4>1, <4>2
      <4> QED
        BY <4>1, <4>2, <4>3
    <3> QED
      BY <3>3, <3>4
  <2> QED
    BY <1>2, <2>1, <2>2, QueueFrom
<1> QED
  BY <1>1, <1>2

\* What the scheduler may run it may still run when it comes to it.
LEMMA QueueMayBegin ==
  ASSUME SpacedInv, [Next]_vars, NEW r \in queue', r.mode # FullSync
  PROVE  \E c \in Comic : c = r.comic /\ MayBegin(c)'
<1>0. /\ CopiesInv /\ TypeOK /\ SchedOK /\ ComicsOK /\ BegunOK
      /\ \A q \in queue : /\ q \in Copy /\ q.comic \in Comic /\ q.comic # task[Sched].comic
                          /\ there[q.comic] # "free" /\ (q.mode # FullSync => MayBegin(q.comic))
  BY TypeSplit DEF SpacedInv, CopiesInv, SchedOK, Copy
<1>1. ASSUME NEW q \in queue, q.comic = r.comic, q.mode = r.mode PROVE \E c \in Comic : c = r.comic /\ MayBegin(c)'
  BY <1>0, <1>1, MayBeginKept
<1>2. CASE LoadComics
  <2>1. PICK c \in Comic : ShouldRun(c) /\ r = [comic |-> c, mode |-> conf[c].mode, changed |-> FALSE]
    BY <1>2 DEF LoadComics
  <2>2. there[c] = "there" /\ IsDue(c, conf[c])
    BY <2>1 DEF ShouldRun
  <2>3. begun[c] = Never \/ (checked[c] # Never /\ checked[c] <= begun[c])
    BY <1>0, <1>2, <2>2 DEF SpacedInv, HeldBack, LoadComics, SchedOK
  <2>4. MayBegin(c)
    <3>1. CASE begun[c] = Never
      BY <3>1 DEF MayBegin
    <3>2. CASE begun[c] # Never
      <4>1. checked[c] # Never /\ checked[c] <= begun[c] /\ checked[c] >= Interval(conf[c])
        BY <2>2, <2>3, <3>2 DEF IsDue
      <4>2. PICK a \in Int, b \in Int, i \in Int : a = checked[c] /\ b = begun[c] /\ i = Interval(conf[c])
        <5>1. checked[c] \in Age /\ begun[c] \in Age /\ Age \subseteq Int
          <6>1. checked[c] \in Age \cup {Never} /\ begun[c] \in Age \cup {Never}
            BY <1>0 DEF ComicsOK, BegunOK
          <6> QED
            BY <3>2, <4>1, <6>1, AgeTypes
        <5>2. Interval(conf[c]) \in Int
          BY <1>0, SettingParts, CrawlerAssumption DEF Interval, ComicsOK
        <5> QED
          BY <5>1, <5>2
      <4> QED
        BY <4>1, <4>2 DEF MayBegin
    <3> QED
      BY <3>1, <3>2
  <2>5. begun' = begun /\ conf' = conf
    BY <1>2 DEF LoadComics, comics, ghosts
  <2> QED
    BY <2>1, <2>4, <2>5 DEF MayBegin
<1>3. CASE ~LoadComics
  <2>1. CASE r \in queue
    BY <1>1, <2>1
  <2>2. CASE r \notin queue
    <3>1. PICK d \in Comic : queue' = {OutOfDate(q, d) : q \in queue}
      BY <1>3, <2>2, QueueFrom
    <3>2. PICK q \in queue : r = OutOfDate(q, d)
      BY <3>1
    <3>3. q.comic = r.comic /\ q.mode = r.mode
      BY <1>0, <3>2, CopyOutOfDate
    <3> QED
      BY <1>1, <3>3
  <2> QED
    BY <2>1, <2>2
<1> QED
  BY <1>2, <1>3

\* The run the scheduler is about to begin.
LEMMA SchedMayBegin ==
  ASSUME SpacedInv, [Next]_vars, task'[Sched].stage = "begin", task'[Sched].mode # FullSync
  PROVE  \E c \in Comic : c = task'[Sched].comic /\ MayBegin(c)'
<1>0. /\ CopiesInv /\ TypeOK /\ RunsOK /\ SchedOK /\ Sched \in Task
      /\ task[Sched].stage = "begin" => task[Sched].comic \in Comic /\ there[task[Sched].comic] # "free"
      /\ task[Sched].stage = "begin" /\ task[Sched].mode # FullSync => MayBegin(task[Sched].comic)
      /\ \A q \in queue : q.comic \in Comic /\ (q.mode # FullSync => MayBegin(q.comic))
  BY TypeSplit DEF SpacedInv, CopiesInv, RunsOK, RunOK, Run, SchedOK, Copy, Task
<1>1. CASE /\ task'[Sched].stage = task[Sched].stage /\ task'[Sched].comic = task[Sched].comic
           /\ task'[Sched].mode = task[Sched].mode /\ ~RunComic(Sched)
  <2>1. PICK c \in Comic : c = task[Sched].comic /\ there[c] # "free" /\ MayBegin(c)
    BY <1>0, <1>1
  <2>2. ~Begin(Sched)
    BY <1>1 DEF RunComic
  <2>3. MayBegin(c)'
    BY <1>0, <2>1, <2>2, MayBeginKept
  <2> QED
    BY <1>1, <2>1, <2>3
<1>2. CASE RunNext
  <2>1. PICK q \in queue, x \in Run : /\ task' = [task EXCEPT ![Sched] = x]
                                       /\ x.comic = q.comic /\ x.mode = q.mode
    BY <1>0, <1>2, NextStep
  <2>2. task'[Sched] = x
    BY <1>0, <2>1 DEF RunsOK
  <2>3. PICK c \in Comic : c = q.comic /\ MayBegin(c)
    BY <1>0, <2>1, <2>2
  <2>4. begun' = begun /\ conf' = conf
    BY <1>2 DEF RunNext, comics, ghosts
  <2> QED
    BY <2>1, <2>2, <2>3, <2>4 DEF MayBegin
<1>3. ~RunComic(Sched)
  BY SchedRun
<1> QED
  BY <1>1, <1>2, <1>3, SchedMoves

LEMMA HeldKept ==
  ASSUME NEW c \in Comic, HeldBack(c), begun'[c] = begun[c],
         there'[c] = "there" => there[c] = "there" /\ checked'[c] = checked[c],
         task'[Sched].stage = task[Sched].stage, task'[Sched].comic = task[Sched].comic,
         task'[Sched].age = task[Sched].age
  PROVE  HeldBack(c)'
  BY DEF HeldBack

LEMMA ShownKept ==
  ASSUME NEW c \in Comic, HeldBack(c), begun'[c] = begun[c], there' = there, checked' = checked,
         task[Sched].comic # c \/ task[Sched].stage \notin {"job", "log", "update"}
  PROVE  HeldBack(c)'
  BY DEF HeldBack

\* A run that writes the row of its comic, or cannot.
LEMMA HeldByUpdate ==
  ASSUME SpacedInv, NEW t \in Task, UpdateComic(t), NEW c \in Comic, begun'[c] # Never
  PROVE  HeldBack(c)'
<1>0. /\ TypeOK /\ ComicsOK /\ BegunOK /\ RunsOK /\ there' = there /\ Sched \in Task
      /\ begun[c] # Never => HeldBack(c)
  BY TypeSplit DEF SpacedInv, CopiesInv, UpdateComic, Task
<1>1. PICK q \in Run, d \in Comic : q = task[t] /\ d = q.comic /\ q.age \in Age
  BY <1>0, SchedSteps DEF TypeOK, RunComic, Run
<1>2. task' = [task EXCEPT ![t] = Idle]
  BY DEF UpdateComic, Finish
<1>3. CASE c = d
  <2>1. begun' = [begun EXCEPT ![d] = IF q.age > begun[d] THEN Never ELSE begun[d]] /\ WriteComic(t)
    <3>1. begun' # [begun EXCEPT ![d] = Never]
      BY <1>0, <1>3 DEF BegunOK
    <3> QED
      BY <1>1, <3>1 DEF UpdateComic, Overtaken
  <2>2. begun'[c] = begun[c] /\ ~(q.age > begun[c]) /\ begun[c] \in Age
    BY <1>0, <1>3, <2>1 DEF BegunOK
  <2>3. q.age # Never /\ q.age <= begun[c]
    <3>1. PICK a \in Age, b \in Age : a = q.age /\ b = begun[c] /\ ~(a > b)
      BY <1>1, <2>2
    <3>2. a \in Int /\ b \in Int /\ a # Never
      BY <3>1, AgeTypes
    <3>3. a <= b
      BY <3>1, <3>2
    <3> QED
      BY <3>1, <3>2, <3>3
  <2>4. there[c] = "there" => checked'[c] = q.age
    BY <1>0, <1>1, <1>3, <2>1 DEF WriteComic, ComicsOK
  <2> QED
    BY <1>0, <2>2, <2>3, <2>4 DEF HeldBack
<1>4. CASE c # d
  <2>1. begun'[c] = begun[c] /\ checked'[c] = checked[c]
    BY <1>0, <1>1, <1>4 DEF UpdateComic, Overtaken, WriteComic, BegunOK, ComicsOK
  <2>2. HeldBack(c)
    BY <1>0, <2>1
  <2>3. CASE t = Sched
    BY <1>0, <1>1, <1>4, <2>1, <2>2, <2>3 DEF HeldBack
  <2>4. CASE t # Sched
    <3>1. task'[Sched] = task[Sched]
      BY <1>0, <1>2, <2>4 DEF RunsOK
    <3> QED
      BY <1>0, <2>1, <2>2, <3>1, HeldKept
  <2> QED
    BY <2>3, <2>4
<1> QED
  BY <1>3, <1>4

\* A step of a run that does not write the row.
LEMMA HeldByRun ==
  ASSUME SpacedInv, NEW t \in Task, RunComic(t), ~UpdateComic(t), NEW c \in Comic, begun'[c] # Never
  PROVE  HeldBack(c)'
<1>0. /\ TypeOK /\ ComicsOK /\ BegunOK /\ RunsOK /\ Sched \in Task
      /\ task[Sched].stage # "fetch"
      /\ begun[c] # Never => HeldBack(c)
  BY TypeSplit DEF SpacedInv, CopiesInv, Task
<1>1. there' = there /\ checked' = checked
  BY DEF RunComic, Fetch, Begin, JobEnds, UpdateLog, comics
<1>2. PICK q \in Run, d \in Comic : q = task[t] /\ d = q.comic
  BY <1>0, SchedSteps DEF TypeOK
<1>3. CASE t # Sched
  <2>1. task'[Sched] = task[Sched]
    <3>1. PICK x : task' = [task EXCEPT ![t] = x]
      BY <1>0, RunReplaced
    <3> QED
      BY <1>0, <1>3, <3>1 DEF RunsOK
  <2>2. begun'[c] = begun[c]
    BY <1>0, <1>3 DEF RunComic, Fetch, Begin, JobEnds, UpdateLog, ghosts, BegunOK
  <2> QED
    BY <1>0, <1>1, <2>1, <2>2, HeldKept
<1>4. CASE t = Sched /\ c # d
  <2>1. begun'[c] = begun[c]
    BY <1>0, <1>2, <1>4 DEF RunComic, Fetch, Begin, JobEnds, UpdateLog, ghosts, BegunOK
  <2> QED
    BY <1>0, <1>1, <1>2, <1>4, <2>1, ShownKept
<1>5. CASE t = Sched /\ c = d
  <2>1. CASE Begin(t)
    <3>1. PICK x : task' = [task EXCEPT ![t] = x] /\ x.stage = "job" /\ x.comic = d /\ x.age = 0
      BY <1>0, <1>2, <2>1, BeginStep
    <3>2. task'[Sched] = x
      BY <1>0, <1>5, <3>1 DEF RunsOK
    <3>3. begun'[c] = 0
      BY <1>0, <1>2, <1>5, <2>1 DEF Begin, BegunOK
    <3> QED
      BY <1>5, <3>1, <3>2, <3>3 DEF HeldBack
  <2>2. ASSUME NEW x, task' = [task EXCEPT ![t] = x], x.stage \in {"log", "update"}, x.comic = d, x.age = q.age,
               begun'[c] = begun[c]
        PROVE  HeldBack(c)'
    <3>1. task'[Sched] = x
      BY <1>0, <1>5, <2>2 DEF RunsOK
    <3> QED
      BY <1>0, <1>1, <1>2, <1>5, <2>2, <3>1 DEF HeldBack
  <2>3. CASE JobEnds(t)
    <3>1. begun' = begun
      BY <2>3 DEF JobEnds, ghosts
    <3> QED
      BY <1>0, <1>2, <2>2, <2>3, <3>1, JobStep
  <2>4. CASE UpdateLog(t)
    <3>1. begun' = [begun EXCEPT ![d] = IF q.mode = FullSync /\ ~q.ok THEN Never ELSE begun[d]]
      BY <1>2, <1>5, <2>4, Zenon DEF UpdateLog
    <3>2. ~(q.mode = FullSync /\ ~q.ok) /\ begun'[c] = begun[c]
      BY <1>0, <1>5, <3>1 DEF BegunOK
    <3> QED
      BY <1>0, <1>2, <2>2, <2>4, <3>2, LogStep
  <2> QED
    BY <1>0, <1>5, <2>1, <2>3, <2>4 DEF RunComic, Fetch
<1> QED
  BY <1>3, <1>4, <1>5

\* The clock moves the row and the history together.
LEMMA HeldByPass ==
  ASSUME SpacedInv, Pass, NEW c \in Comic, begun'[c] # Never
  PROVE  HeldBack(c)'
<1>0. /\ TypeOK /\ RunsOK /\ Sched \in Task
      /\ begun[c] # Never => HeldBack(c)
      /\ checked[c] \in Age \cup {Never} /\ begun[c] \in Age \cup {Never}
  BY TypeSplit DEF SpacedInv, CopiesInv, ComicsOK, BegunOK, Task
<1>1. PICK a, b : /\ a = checked[c] /\ b = begun[c]
                  /\ checked'[c] = Older(a) /\ begun'[c] = Older(b) /\ there' = there
  BY DEF Pass
<1>2. b \in Age /\ a \in Age \cup {Never}
  BY <1>0, <1>1, AgeTypes
<1>3. HeldBack(c)
  BY <1>0, <1>1, <1>2, AgeTypes
<1>4. CASE task[Sched].comic = c /\ task[Sched].stage \in {"job", "log", "update"} /\ b = task[Sched].age
  <2>1. /\ task'[Sched].comic = c /\ task'[Sched].stage \in {"job", "log", "update"}
        /\ task'[Sched].age = Older(task[Sched].age)
    BY <1>0, <1>4, RunsOlder DEF InProgress
  <2> QED
    BY <1>1, <1>4, <2>1 DEF HeldBack
<1>5. CASE there[c] = "there" => a # Never /\ a <= b
  <2>1. a # Never /\ a <= b => Older(a) # Never /\ Older(a) <= Older(b)
    BY <1>2, AgeTypes
  <2> QED
    BY <1>1, <1>5, <2>1 DEF HeldBack
<1> QED
  BY <1>1, <1>3, <1>4, <1>5 DEF HeldBack

LEMMA HeldBackNext ==
  ASSUME SpacedInv, [Next]_vars, NEW c \in Comic, begun'[c] # Never
  PROVE  HeldBack(c)'
<1>0. /\ TypeOK /\ RunsOK /\ BegunOK /\ ComicsOK /\ SchedOK /\ Sched \in Task /\ Sched \notin Manual
      /\ Manual \subseteq Task
      /\ begun[c] # Never => HeldBack(c)
      /\ there[c] = "free" => begun[c] = Never
  BY TypeSplit, CrawlerAssumption DEF SpacedInv, CopiesInv, Task
<1>1. ASSUME NEW t \in Task, RunComic(t) PROVE HeldBack(c)'
  BY <1>1, HeldByUpdate, HeldByRun
<1>2. CASE RunNext
  <2>1. begun' = begun /\ there' = there /\ checked' = checked /\ task[Sched].stage = "idle"
    BY <1>2 DEF RunNext, comics, ghosts
  <2> QED
    BY <1>0, <2>1, ShownKept
<1>3. ASSUME NEW t \in Manual, NEW d \in Comic, AdminRunCrawlerNow(t, d) PROVE HeldBack(c)'
  <2>1. begun' = begun /\ there' = there /\ checked' = checked
    BY <1>3 DEF AdminRunCrawlerNow, comics, ghosts
  <2>2. task'[Sched] = task[Sched]
    BY <1>0, <1>3 DEF AdminRunCrawlerNow, RunsOK
  <2> QED
    BY <1>0, <2>1, <2>2, HeldKept
<1>4. ASSUME NEW t \in Manual, NEW d \in Comic, NEW f \in Form, AdminCreateComic(t, d, f) PROVE HeldBack(c)'
  <2>1. /\ begun' = begun /\ checked' = checked /\ there[d] = "free"
        /\ there' = [there EXCEPT ![d] = "there"]
    BY <1>4 DEF AdminCreateComic, ghosts
  <2>2. task'[Sched] = task[Sched]
    BY <1>0, <1>4 DEF AdminCreateComic, RunsOK
  <2>3. c # d /\ there'[c] = there[c]
    BY <1>0, <2>1 DEF ComicsOK
  <2> QED
    BY <1>0, <2>1, <2>2, <2>3, HeldKept
<1>5. ASSUME NEW d \in Comic, NEW f \in Form, NEW p \in Fields, AdminUpdateComic(d, f, p) PROVE HeldBack(c)'
  <2>1. there' = there /\ checked' = checked /\ begun' = [begun EXCEPT ![d] = Never]
    BY <1>5 DEF AdminUpdateComic
  <2>2. begun'[c] = begun[c]
    BY <1>0, <2>1 DEF BegunOK
  <2>3. /\ task'[Sched].stage = task[Sched].stage /\ task'[Sched].comic = task[Sched].comic
        /\ task'[Sched].age = task[Sched].age
    BY <1>0, <1>5, RunsOutOfDate DEF AdminUpdateComic
  <2> QED
    BY <1>0, <2>1, <2>2, <2>3, HeldKept
<1>6. ASSUME NEW d \in Comic, AdminDeleteComic(d) PROVE HeldBack(c)'
  <2>1. begun' = begun /\ checked' = checked /\ task' = task /\ there' = [there EXCEPT ![d] = "deleted"]
    BY <1>6 DEF AdminDeleteComic, ghosts
  <2>2. there'[c] = "there" => there[c] = "there"
    BY <1>0, <2>1 DEF ComicsOK
  <2> QED
    BY <1>0, <2>1, <2>2, HeldKept
<1>7. CASE Crash
  BY <1>7 DEF Crash
<1>8. CASE Fire \/ TakeTick \/ LoadComics \/ LoadFails \/ RunOnceReturns \/ UNCHANGED vars
  <2>1. begun' = begun /\ there' = there /\ checked' = checked /\ task' = task
    BY <1>8 DEF Fire, TakeTick, LoadComics, LoadFails, RunOnceReturns, vars, comics, ghosts
  <2> QED
    BY <1>0, <2>1, HeldKept
<1> QED
  BY <1>1, <1>2, <1>3, <1>4, <1>5, <1>6, <1>7, <1>8, HeldByPass DEF Next, Scheduler, Admin

LEMMA SpacedNext == SpacedInv /\ TypeOK' /\ [Next]_vars => SpacedInv'
<1> SUFFICES ASSUME SpacedInv, TypeOK', [Next]_vars PROVE SpacedInv'
  OBVIOUS
<1>1. CopiesInv'
  BY CopiesNext DEF SpacedInv
<1>2. task'[Sched].stage # "fetch"
  <2>1. RunNext => task'[Sched].stage = "begin"
    <3>1. RunsOK /\ SchedOK /\ Sched \in Task
      BY TypeSplit DEF SpacedInv, CopiesInv, Task
    <3> QED
      BY <3>1, NextStep DEF RunsOK
  <2> QED
    BY <2>1, SchedMoves, SchedRun DEF SpacedInv
<1>3. \A q \in queue' : q.mode # FullSync => begun'[q.comic] = Never \/ begun'[q.comic] >= Interval(conf[q.comic])'
  BY QueueMayBegin DEF MayBegin
<1>4. task'[Sched].stage = "begin" /\ task'[Sched].mode # FullSync
        => begun'[task'[Sched].comic] = Never \/ begun'[task'[Sched].comic] >= Interval(conf'[task'[Sched].comic])
  BY SchedMayBegin DEF MayBegin
<1>5. \A c \in Comic : begun'[c] # Never => HeldBack(c)'
  BY HeldBackNext
<1> QED
  BY <1>1, <1>2, <1>3, <1>4, <1>5, QueueNext DEF SpacedInv, MayBegin

\* At least the interval lies between two beginnings of the scheduler's runs of a
\* comic that is not in full sync (scheduler.go:79-86, service.go:99, 126-147).
THEOREM RunsSpaced == Spec => SpacedRuns
<1>1. ASSUME SpacedInv, NEW c \in Comic, Begin(Sched), task[Sched].comic = c, task[Sched].mode # FullSync
      PROVE  begun[c] = Never \/ begun[c] >= Interval(conf[c])
  BY <1>1 DEF SpacedInv, Begin, MayBegin
<1>2. SpacedInv /\ [Next]_vars =>
        [\A c \in Comic :
            Begin(Sched) /\ task[Sched].comic = c /\ task[Sched].mode # FullSync
               => begun[c] = Never \/ begun[c] >= Interval(conf[c])]_vars
  BY <1>1
<1> QED
  BY <1>2, TypeCorrect, SpacedInit, SpacedNext, PTL DEF Spec, SpacedRuns

-----------------------------------------------------------------------------
(***************************************************************************)
(* A round of the scheduler ends: Work measures what is left of it.        *)
(***************************************************************************)

LEMMA SomeComics ==
  ASSUME NEW Q \in SUBSET Copy, NEW W, W = {q.comic : q \in Q}
  PROVE  /\ W \subseteq Comic /\ IsFiniteSet(W)
         /\ Cardinality(Comic) \in Nat /\ Cardinality(W) \in Nat
         /\ Cardinality(W) <= Cardinality(Comic)
<1>1. W \subseteq Comic
  BY DEF Copy
<1> QED
  BY <1>1, CrawlerAssumption, FS_Subset, FS_CardinalityType

LEMMA ToGoTypes ==
  /\ ToGo["idle"] = 0 /\ ToGo["update"] = 1 /\ ToGo["log"] = 2 /\ ToGo["job"] = 3
  /\ ToGo["begin"] = 4 /\ ToGo["fetch"] = 5
  /\ \A q \in Run : ToGo[q.stage] \in Nat
  BY DEF ToGo, Run

\* Work counts steps, and a loop that waits for a tick has none to take.
LEMMA WorkType ==
  ASSUME TypeOK
  PROVE  Work \in Nat /\ (Work = 0 <=> loop = "wait")
<1>1. PICK w : w = Cardinality(Waiting)
  OBVIOUS
<1>2. w \in Nat /\ Cardinality(Comic) \in Nat
  BY <1>1, SomeComics DEF TypeOK, Waiting
<1>3. PICK g : g = ToGo[task[Sched].stage]
  OBVIOUS
<1>4. g \in Nat
  BY <1>3, ToGoTypes DEF TypeOK, Task
<1>5. Work = IF loop = "wait" THEN 0
             ELSE IF loop = "load" THEN 5 * Cardinality(Comic) + 2 ELSE 5 * w + g + 1
  BY <1>1, <1>3 DEF Work
<1> QED
  BY <1>2, <1>4, <1>5

LEMMA WorkTypeNext == TypeOK' => (Work \in Nat)'
<1>1. TypeOK => Work \in Nat
  BY WorkType
<1> QED
  BY <1>1, PTL

\* One comic less, or one step less of the run.
LEMMA LessWork ==
  ASSUME NEW v \in Nat, NEW w \in Nat, NEW g \in Nat, NEW h \in Nat
  PROVE  /\ v <= w /\ g <= h => 5 * v + g + 1 <= 5 * w + h + 1
         /\ v <= w /\ g < h => 5 * v + g + 1 < 5 * w + h + 1
         /\ v < w /\ g <= 4 => 5 * v + g + 1 < 5 * w + h + 1
  OBVIOUS

\* No step but the tick's gives the scheduler more comics to run.
LEMMA WaitingKept ==
  ASSUME SpacedInv, [Next]_vars, ~LoadComics
  PROVE  Waiting' \subseteq Waiting
<1>1. queue \subseteq Copy
  BY DEF SpacedInv, CopiesInv, TypeOK
<1>2. CASE queue' \subseteq queue
  BY <1>2 DEF Waiting
<1>3. ASSUME NEW c \in Comic, queue' = {OutOfDate(q, c) : q \in queue}
      PROVE  Waiting' \subseteq Waiting
  BY <1>1, <1>3, CopyOutOfDate DEF Waiting
<1> QED
  BY <1>2, <1>3, QueueFrom

\* A step of the scheduler's own run leaves it less to do.
LEMMA SchedRunsOn ==
  ASSUME SpacedInv, RunComic(Sched)
  PROVE  ToGo[task'[Sched].stage] < ToGo[task[Sched].stage]
<1>0. TypeOK /\ RunsOK /\ ComicsOK /\ Sched \in Task /\ task[Sched].stage # "fetch"
  BY TypeSplit DEF SpacedInv, CopiesInv, Task
<1>1. PICK q : q = task[Sched]
  OBVIOUS
<1>2. ASSUME NEW x, task' = [task EXCEPT ![Sched] = x] PROVE task'[Sched] = x
  BY <1>0, <1>2 DEF RunsOK
<1>3. CASE Begin(Sched)
  <2>1. PICK x : task' = [task EXCEPT ![Sched] = x] /\ x.stage = "job"
    BY <1>0, <1>1, <1>3, BeginStep
  <2>2. task'[Sched].stage = "job"
    BY <1>2, <2>1
  <2>3. task[Sched].stage = "begin"
    BY <1>3 DEF Begin
  <2> QED
    BY <2>2, <2>3, ToGoTypes
<1>4. CASE JobEnds(Sched)
  <2>1. PICK x : task' = [task EXCEPT ![Sched] = x] /\ x.stage = "log"
    BY <1>0, <1>1, <1>4, JobStep
  <2>2. task'[Sched].stage = "log"
    BY <1>2, <2>1
  <2>3. task[Sched].stage = "job"
    BY <1>4 DEF JobEnds
  <2> QED
    BY <2>2, <2>3, ToGoTypes
<1>5. CASE UpdateLog(Sched)
  <2>1. PICK x : task' = [task EXCEPT ![Sched] = x] /\ x.stage \in {"idle", "update"}
    BY <1>0, <1>1, <1>5, LogStep, IdleType
  <2>2. task'[Sched].stage \in {"idle", "update"}
    BY <1>2, <2>1
  <2>3. task[Sched].stage = "log"
    BY <1>5 DEF UpdateLog
  <2> QED
    BY <2>2, <2>3, ToGoTypes
<1>6. CASE UpdateComic(Sched)
  <2>1. task'[Sched].stage = "idle" /\ task[Sched].stage = "update"
    BY <1>2, <1>6, IdleType DEF UpdateComic, Finish
  <2> QED
    BY <2>1, ToGoTypes
<1> QED
  BY <1>0, <1>3, <1>4, <1>5, <1>6 DEF RunComic, Fetch

\* Each step of the scheduler in a round brings the end nearer.
LEMMA RoundGoesOn ==
  ASSUME SpacedInv, TypeOK', [Next]_vars, loop # "wait", Scheduler \/ RunComic(Sched)
  PROVE  Work' < Work
<1>0. /\ TypeOK /\ RunsOK /\ SchedOK /\ Sched \in Task /\ queue \subseteq Copy /\ queue' \subseteq Copy
      /\ task[Sched] \in Run /\ task'[Sched] \in Run
  BY TypeSplit DEF SpacedInv, CopiesInv, TypeOK, Task
<1>1. PICK v, w : v = Cardinality(Waiting') /\ w = Cardinality(Waiting)
  OBVIOUS
<1>2. /\ v \in Nat /\ w \in Nat /\ Cardinality(Comic) \in Nat
      /\ v <= Cardinality(Comic) /\ IsFiniteSet(Waiting)
  BY <1>0, <1>1, SomeComics DEF Waiting
<1>3. PICK g, h : g = ToGo[task'[Sched].stage] /\ h = ToGo[task[Sched].stage]
  OBVIOUS
<1>4. g \in Nat /\ h \in Nat
  BY <1>0, <1>3, ToGoTypes
<1>5. loop = "run" => Work = 5 * w + h + 1
  BY <1>1, <1>3 DEF Work
<1>6. loop' = "run" => Work' = 5 * v + g + 1
  BY <1>1, <1>3 DEF Work
<1>7. CASE LoadComics
  <2>1. Work = 5 * Cardinality(Comic) + 2
    BY <1>7 DEF LoadComics, Work
  <2>2. loop' = "run" /\ g = 0
    BY <1>0, <1>3, <1>7, ToGoTypes DEF LoadComics, SchedOK
  <2> QED
    BY <1>2, <1>6, <2>1, <2>2
<1>8. CASE LoadFails \/ RunOnceReturns
  <2>1. Work' = 0
    BY <1>8 DEF LoadFails, RunOnceReturns, Work
  <2> QED
    BY <1>0, <2>1, WorkType
<1>9. CASE RunNext
  <2>1. PICK q \in queue, x \in Run : /\ queue' = queue \ {q} /\ task' = [task EXCEPT ![Sched] = x]
                                       /\ x.stage = "begin"
    BY <1>0, <1>9, NextStep
  <2>2. q.comic \in Waiting /\ Waiting' = Waiting \ {q.comic}
    <3>1. \A p \in queue : p.comic = q.comic => p = q
      BY <2>1 DEF SpacedInv
    <3> QED
      BY <2>1, <3>1 DEF Waiting
  <2>3. v = w - 1
    BY <1>1, <1>2, <2>2, FS_RemoveElement
  <2>4. g = 4
    BY <1>0, <1>3, <2>1, ToGoTypes DEF RunsOK
  <2>5. loop = "run" /\ loop' = "run"
    BY <1>9 DEF RunNext
  <2> QED
    BY <1>2, <1>4, <1>5, <1>6, <2>3, <2>4, <2>5, LessWork
<1>10. CASE RunComic(Sched)
  <2>1. loop = "run" /\ loop' = "run" /\ v = w
    BY <1>0, <1>1, <1>10, SchedSteps DEF Waiting
  <2>2. g < h
    BY <1>3, <1>10, SchedRunsOn
  <2> QED
    BY <1>2, <1>4, <1>5, <1>6, <2>1, <2>2, LessWork
<1> QED
  BY <1>7, <1>8, <1>9, <1>10 DEF Scheduler, TakeTick

\* No step of others puts the end off.
LEMMA RoundKept ==
  ASSUME SpacedInv, TypeOK', [Next]_vars, loop # "wait", ~Scheduler, ~RunComic(Sched)
  PROVE  Work' <= Work
<1>0. /\ TypeOK /\ RunsOK /\ SchedOK /\ Sched \in Task /\ queue \subseteq Copy /\ queue' \subseteq Copy
      /\ task[Sched] \in Run
  BY TypeSplit DEF SpacedInv, CopiesInv, TypeOK, Task
<1>1. PICK v, w : v = Cardinality(Waiting') /\ w = Cardinality(Waiting)
  OBVIOUS
<1>2. v \in Nat /\ w \in Nat /\ v <= w /\ Cardinality(Comic) \in Nat
  <2>1. IsFiniteSet(Waiting) /\ w \in Nat /\ Cardinality(Comic) \in Nat
    BY <1>0, <1>1, SomeComics DEF Waiting
  <2>2. Waiting' \subseteq Waiting
    BY WaitingKept DEF Scheduler
  <2> QED
    BY <1>1, <2>1, <2>2, FS_Subset, FS_CardinalityType
<1>3. PICK h : h = ToGo[task[Sched].stage]
  OBVIOUS
<1>4. h \in Nat
  BY <1>0, <1>3, ToGoTypes
<1>5. CASE Crash
  <2>1. Work' = 0
    BY <1>5 DEF Crash, Work
  <2> QED
    BY <1>0, <2>1, WorkType
<1>6. CASE ~Crash
  <2>1. loop' = loop
    <3>1. ASSUME NEW t \in Task, RunComic(t) PROVE loop' = loop
      BY <1>0, <3>1, SchedSteps
    <3>2. Admin => loop' = loop
      BY DEF Admin, AdminRunCrawlerNow, AdminCreateComic, AdminUpdateComic, AdminDeleteComic, sched
    <3>3. Fire \/ Pass \/ UNCHANGED vars => loop' = loop
      BY DEF Fire, Pass, vars, sched
    <3> QED
      BY <1>6, <3>1, <3>2, <3>3 DEF Next
  <2>2. task'[Sched].stage = task[Sched].stage
    BY <1>6, SchedMoves DEF Scheduler
  <2>3. CASE loop = "load"
    <3>1. Work' = Work
      BY <2>1, <2>3 DEF Work
    <3> QED
      BY <1>0, <3>1, WorkType
  <2>4. CASE loop = "run"
    <3>1. Work = 5 * w + h + 1 /\ Work' = 5 * v + h + 1
      BY <1>1, <1>3, <2>1, <2>2, <2>4 DEF Work
    <3> QED
      BY <1>2, <1>4, <3>1, LessWork
  <2> QED
    BY <1>0, <2>3, <2>4 DEF SchedOK
<1> QED
  BY <1>5, <1>6

\* A round of the scheduler is over after at most Work steps of its own, whatever the
\* others do, and only then it waits for a tick (scheduler.go:63-87).
THEOREM RoundsAreBounded ==
  Spec => /\ [](Work \in Nat /\ (Work = 0 <=> loop = "wait"))
          /\ RoundsEnd
<1>1. TypeOK => Work \in Nat /\ (Work = 0 <=> loop = "wait")
  BY WorkType
<1>2. SpacedInv /\ TypeOK' /\ [Next]_vars =>
        [loop # "wait" =>
            /\ Work' <= Work
            /\ Scheduler \/ RunComic(Sched) => Work' < Work]_vars
  <2> SUFFICES ASSUME SpacedInv, TypeOK', [Next]_vars, loop # "wait"
               PROVE  /\ Work' <= Work
                      /\ Scheduler \/ RunComic(Sched) => Work' < Work
    OBVIOUS
  <2>1. Work \in Nat /\ Work' \in Nat
    BY WorkType, WorkTypeNext DEF SpacedInv, CopiesInv
  <2> QED
    BY <2>1, RoundGoesOn, RoundKept
<1> QED
  BY <1>1, <1>2, TypeCorrect, SpacedInit, SpacedNext, PTL DEF Spec, RoundsEnd
=============================================================================
