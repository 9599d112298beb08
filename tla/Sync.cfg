SPECIFICATION FairSpec

CONSTANTS
    default = default
    both = both
    mandatory = mandatory
    user = user
    site = site
    siteWritable = siteWritable
    v1 = v1
    v2 = v2
    S = S
    Sources = {mandatory, user, site, siteWritable}
    Resources <- ThreeResources
    Resource <- PathResource
    Writable <- PathWritable
    Keys <- PathKeys
    Dirs <- PathDirs
    Values = {v1, v2}
    SchemaValues = {S}
    DefaultIn <- PathDefaults
    None = None
    Databases = {default, both}
    Default = default
    Addresses <- PathAddresses
    MayNotLoad = {mandatory}
    BadCalls <- SomeBadCalls
    Settings <- PathSettings
    Namings <- PathNamings
    Cleared <- PathCleared
    InitialContents <- PathContents
    Minute = 2

CHECK_DEADLOCK FALSE

INVARIANTS
    WritesAreRead
    AnnouncementsAreReads
    ListingsAreReads
    UnsavedIsDue

PROPERTIES
    ChangesAreAnnounced
    SavedOnceQuiet
