SPECIFICATION Spec
CONSTANTS
    h1 = h1 h2 = h2
    Handler = {h1, h2}
    Dialect = {"sqlite3", "postgres"}
    KnownDialect = {"sqlite3", "postgres"}
    Replaceable = {}
INVARIANT DialectInstalled
CHECK_DEADLOCK FALSE
