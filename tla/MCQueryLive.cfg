\* Two queries that may need the same session's row, created beforehand or by the
\* other one; one of them may fail anywhere, the other has no words for a title, the
\* process may die.
SPECIFICATION FairSpec
CONSTANTS
    q1 = q1
    q2 = q2
    q3 = q3
    d1 = d1
    s1 = s1
    None = None
    Queries <- TwoQueries
    Docs <- OneDocument
    Sessions <- OneSession
    Plain <- OtherQuery
    Faulty <- OneQuery
    DailyLimit = 1
    Threads = 2
    MaxCrashes = 1
CHECK_DEADLOCK FALSE
INVARIANTS
    LocksAreHeld
    ExchangesAreWhole
    AskedSessionsAreNamed
PROPERTIES
    QueryEnds
