\* Two grids on one lesson, or one grid, an excuse and two reviewers; a parent
\* on two clients and the Klassenvorstand, two messages, one poll; a page's
\* action and query; a form and two entities; the three content fields.
SPECIFICATION Spec
CONSTANTS
    c1 = c1  c2 = c2  c3 = c3  x1 = x1  x2 = x2  s1 = s1  s2 = s2  mon = mon
    mum = mum  kv = kv  None = None  Null = Null
    Students = {s1, s2}
    Lessons = {mon}
    Days = {1, 2}
    DateOf <- MCDateOf
    Teachers = {c1, c2}
    Reviewers = {x1, x2}
    MaxExcuses = 1
    MaxTaps = 2
    Users = {mum, kv}
    Clients = {c1, c2, c3}
    UserOf <- MCUserOf
    Parent = mum
    KV = kv
    ClassMembers = {mum, kv}
    Staff = {kv}
    Admins = {}
    Options = {x1, x2}
    MaxMessages = 2
    MaxConvs = 2
    MaxReports = 1
    PageSize = 1
    MaxWrites = 2
    Entities = {this, that}
    Nobody = Nobody
    MaxSent = 2
    MaxOthers = 1
    Fields = {thema, lehrstoff, hausaufgabe}
    NoField = NoField
    MaxChanges = 1
SYMMETRY Symmetry
INVARIANTS TypeOK RegisterWhole ExcusesApply GridIsStored UnreadMatches PollIsFair ChangesAreShown
PROPERTY DraftsAreSafe
CONSTRAINT Focus
CHECK_DEADLOCK FALSE
