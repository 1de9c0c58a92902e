SPECIFICATION Spec
CONSTANTS
    None = None
    t1 = t1
    o1 = o1
    r1 = r1
    r2 = r2
    x1 = x1
    k1 = k1
    k2 = k2
    c1 = c1
    c2 = c2
    d1 = d1
    d2 = d2
    Tabs = {t1}
    OwnerOf <- MCOwnerOf
    Owners = {o1}
    Runs = {r1, r2}
    Releases = {x1}
    Slots = {k1, k2}
    Clients = {c1, c2}
    Databases = {d1, d2}
    DatabaseOf <- MCDatabaseOf
    Kinds = {"session", "read", "export", "plain"}
    Deadlines = TRUE
    Malformed = FALSE
    MaxStatements = 1
    MaxIdle = 0
CONSTRAINT OneCutShort
SYMMETRY SymmetryOfTwo
INVARIANTS TypeOK PoolIsClean OneConnection RightDatabase NothingStranded
CHECK_DEADLOCK FALSE
