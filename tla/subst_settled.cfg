\* One answer that is under way while the admin settles the substitution.
SPECIFICATION Spec
CONSTANTS
    anna = anna  bert = bert  cora = cora  NoTeacher = NoTeacher
    run1 = run1  run2 = run2  q1 = q1  q2 = q2  NoSub = NoSub
    Teachers <- MCTeachers
    Runs <- MCRuns
    Plan <- MCPlan
    AbWeekEnabled = TRUE
    Dates = {1}
    Periods = {1}
    Requests = {q1}
    MaxAbsences = 1
PROPERTY SettledIsNotDeclined
