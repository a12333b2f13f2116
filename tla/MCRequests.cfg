SPECIFICATION RequestsSpec
CONSTANTS
    Ctl = {c1, c2}  Limit = 1  BatchTarget = {b1, b2}
    MaxRevision = 2  MaxBatchJob = 3  MaxSession = 2
    Target = {t1, t2}  MaxPlan = 2  MaxProcess = 2
    MaxPid = 3
    Slot = {s1, s2}  PageSize = 1  MaxRun = 3
INVARIANTS
    HistoryIsSnapshot
PROPERTIES
    NoPlanSurvivesRestart
    BatchIsReviewed
    PlanIsReviewed
    PlanFollowsForm
    RestartReported
CHECK_DEADLOCK FALSE
