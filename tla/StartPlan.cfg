\* Two starts of an application that may die between them or in them.
SPECIFICATION FairSpec
CONSTANTS
    MaxStarts = 2
    web = web
    plain = plain
    None = none
    Scopes <- MCScopes
    Rows <- MCRows
    FullRows <- MCFullRows
    DefaultRows <- MCDefaultRows
    UserRows <- MCUserRows
    EmbeddedIds <- MCEmbeddedIds
CHECK_DEADLOCK FALSE
INVARIANTS
    QuarantineIsEarned
    ComesUpOnItsOwnChild
PROPERTIES
    StartsEnd
