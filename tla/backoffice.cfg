SPECIFICATION Spec
CHECK_DEADLOCK FALSE
CONSTRAINT Focus
CONSTANTS
    anna = anna
    bert = bert
    carl = carl
    dora = dora
    u1 = u1
    u2 = u2
    Imports = {1, 2}
    Rows = {anna, bert, carl, dora}
    Callers = {caller1, caller2}
    File <- MCFile
    Missing = {bert}
    Unreadable = {carl}
    Unmatched = {}
    Present = {carl}
    MaxQueued = 2
    MaxCrashes = 1
    MaxRejected = 1
    NoImport = NoImport
    NoTask = NoTask
    DsgvoIds = {1, 2, 3}
    MaxDsgvoFaults = 2
    NoDsgvo = NoDsgvo
    Schools = {s1, s2}
    Deleting = {noten}
    Counting = {}
    DefaultDays <- MCDefaultDays
    PolicyDays = {1}
    Inspectors = {admin}
    NightJob = NightJob
    MaxDay = 3
    NoPolicy = NoPolicy
    NoCheck = NoCheck
    Rooms = {r1}
    Resources = {beamer}
    Runs = {run1, run2}
    NoRun = NoRun
    Bookers = {k1, k2}
    NoBooking = NoBooking
    Users = {u1, u2}
    Roles = {"admin", "lehrer"}
    Permits <- MCPermits
    RoleSets <- MCRoleSets
    Overrides = {"none", "deny"}
    FirstRoles <- MCFirstRoles
    NoCall = NoCall
    Persons = {p1, p2}
    Logins = {l1, l2, l3}
    Clerks = {c1, c2}
    Nobody = Nobody
INVARIANT TypeOK
INVARIANT ImportedOnce
INVARIANT CompletedIsImported
INVARIANT QueuedHasWork
INVARIANT ErasedOnce
INVARIANT PendingIsOnItsWay
INVARIANT CheckedIsClean
INVARIANT GivenOnce
INVARIANT LastAdmin
INVARIANT ShownIsDecided
INVARIANT LinkNotStolen
