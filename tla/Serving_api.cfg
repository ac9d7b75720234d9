SPECIFICATION Spec
CONSTANTS
    h1 = h1 h2 = h2
    Handler = {h1, h2}
    Dialect = {"sqlite3", "postgres", "oracle"}
    KnownDialect = {"sqlite3", "postgres"}
    Replaceable = {"get", "create"}
INVARIANT AnsweredOnce
INVARIANT GeneratedStatusDocumented
INVARIANT ConflictMeansDuplicate
INVARIANT OneDialectIsExact
CHECK_DEADLOCK FALSE
