\* Two resolutions that do not see each other's uncommitted update.
SPECIFICATION Spec
CONSTANTS
    a1 = a1  a2 = a2
    t1 = t1  t2 = t2  c1 = c1  c2 = c2  r1 = r1  r2 = r2  s1 = s1  s2 = s2
    d1 = d1  d2 = d2
    Planners = {}
    Settlers = {a1, a2}
    Teachers = {t1, t2}
    Rooms = {r1, r2}
    Slots = {s1, s2}
    Classes = {c1, c2}
    Weeks = {"A", "BOTH"}
    Given <- MCGiven
    Dropped <- MCDropped
    MaxEdits = 0
INVARIANT LastResolveCompletes
