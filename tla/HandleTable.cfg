CONSTANTS
    Object = {o1}
    HELD_MAX = 1
    a = a
    b = b
    t1 = t1
    t2 = t2
    Table = {t1, t2}
    Right = {a, b}
    Request <- MCRequest
    Written <- MCWritten
    Attributes <- MCAttributes
    HANDLE_TABLE_INIT_CAP = 1
    DEFAULT_LIMIT = 1
    Limit = {2}
    HANDLE_TABLE_ABSOLUTE_MAX = 2
    OBJ_INHERIT = OBJ_INHERIT
    OBJ_PROTECT_CLOSE = OBJ_PROTECT_CLOSE
    None = None
SYMMETRY Sym
SPECIFICATION Spec
INVARIANTS
    RefsExact
    QuotaReachable
    AccessNeverGrows
PROPERTIES
    DuplicateIsAtomic
