\* Two absences, of two teachers or twice of one, and two answers under way.
SPECIFICATION Spec
CONSTANTS
    anna = anna  bert = bert  cora = cora  NoTeacher = NoTeacher
    run1 = run1  run2 = run2  q1 = q1  q2 = q2  NoSub = NoSub
    Teachers <- MCTeachers
    Runs <- MCRuns
    Plan <- MCPlan
    AbWeekEnabled = TRUE
    Dates = {1}
    Periods = {1}
    Requests <- MCRequests
    MaxAbsences = 2
SYMMETRY Symmetry
CONSTRAINT Focus
INVARIANTS TypeOK ClassBookMatches OneStandIn NoDoubleOffer
