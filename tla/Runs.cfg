SPECIFICATION Spec
CONSTANTS
    r1 = r1
    r2 = r2
    r3 = r3
    p1 = p1
    p2 = p2
    Runs = {r1, r2}
    JudgedRuns = {r1, r2}
    Models = {m1}
    Projects = {p1, p2}
    NoProject = none
    Project <- OneProject
    Size <- TwoAndOne
    Price = 1
    CallCost = 1
    OnExceed = "downgrade"
    MaxPerRun = 2
    MaxPerSubject = 2
    MonthlyBudget = 2
    MaxAttempts = 2
    MaxFaults = 1
    MaxCrashes = 1
    MaxToggles = 1
    Overlap = 2
INVARIANTS
    FiguresAddUp
    OnlyAdmittedPay
    BooksAgree
PROPERTY KeepsLifecycle
CHECK_DEADLOCK FALSE
