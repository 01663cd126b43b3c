SPECIFICATION MasterSpec
CHECK_DEADLOCK FALSE
CONSTRAINT Focus
CONSTANTS
    N = 4
    Teachers = {t1, t2}
    Rooms = {r1, r2}
    Slots = {s1, s2}
    Schools <- MCSchools
    Staff = {"t1", "t2"}
    NoTeacher = NoTeacher
    NoGroup = NoGroup
    NoType = NoType
    Days = {"MONDAY"}
    Periods = {1, 2}
    NoProblem = NoProblem
    NoResult = NoResult
    Subjects = {"D", "M"}
    Templates <- MCCatalogue
    OwnTemplate <- MCOwnTemplate
    HourChoices = {3}
    MaxWishes = 2
    Editors = {e1, e2}
    NoEdit = NoEdit
    MaxRows = 3
    Entities = {"class", "subject", "teacher", "student", "parent", "year"}
    MaxRefs = 2
    MaxCrashes = 1
INVARIANT MasterTypeOK
INVARIANT AcceptedFitsConstraints
INVARIANT ConflictsAreReal
INVARIANT StoredPlanIsSound
INVARIANT ErrorsAreGenuine
INVARIANT OneRowPerSubject
INVARIANT GuardHolds
