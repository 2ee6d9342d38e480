SPECIFICATION Spec
CONSTANTS
    Comic = {c1}
    Manual = {m1}
    Sched = Sched
    NoComic = NoComic
    DailyInterval = 2
    ScheduleInterval = 1
    WeekDays = 2
    MaxAge = 2
    Form <- OddForms
    Fields <- WholeOrOn
    Deleting = FALSE
    Failing = TRUE
    MaxLost = 1
INVARIANTS TypeOK RunningLogs
PROPERTIES SpacedRuns OffOnlyByFullSync
