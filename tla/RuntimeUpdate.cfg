\* Two clients, two versions, three releases of two files; either client may
\* die, activate may be given a version with blanks around it, one file of the
\* first version and the metadata of the second may rot.
SPECIFICATION Spec
CONSTANTS
    Clients = {c1, c2}
    a1 = a1
    b1 = b1
    other = other
    one = one
    two = two
    shared = shared
    x = x
    y = y
    spaced = spaced
    Plain = plain
    Bad = bad
    None = none
    NumFiles = 2
    Releases <- MCReleases
    Versions <- MCVersions
    VersionOf <- MCVersionOf
    Spellings <- MCSpellings
    Contents <- MCContents
    Sha <- MCSha
    Fragile <- MCFragile
    FragileMeta <- MCFragileMeta
CHECK_DEADLOCK FALSE
INVARIANTS
    InstalledIsVerified
    PreparedIsInstalled
PROPERTY
    StoreSafety
