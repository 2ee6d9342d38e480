SPECIFICATION LiveSpec
CONSTANTS
    Comic = {c1, c2}
    Manual = {}
    Sched = Sched
    NoComic = NoComic
    DailyInterval = 1
    ScheduleInterval = 1
    WeekDays = 1
    MaxAge = 1
    Form <- LiveForms
    Fields <- WholeForm
    Deleting = TRUE
    Failing = FALSE
    MaxLost = 0
PROPERTIES SchedulerReturns WantedIsCrawled
