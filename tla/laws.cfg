INIT Init
NEXT Next
CONSTANTS
    Plain <- PlainKinds
    MaxCalls = 2
    MaxReasons = 1
    MaxPackages = 3
    MaxComponent = 1
    MaxDepth = 5
    MaxDependencies = 3
    MaxEntries = 2
    MaxRedirects = 2
    MaxPages = 2
    MaxDocument = 3
    InlineMax = 3
    PageSize = 2
    Deprecated = {"gpl"}
    KnownExceptions = {"classpath", "other"}
    FoldedException = "classpath"
    DosBytes = 2
    CoffBytes = 1
    SectionBytes = 1
    EntryBytes = 1
    CodeViewBytes = 2
    MaxSections = 2
    MaxOptional = 1
    MaxDebugEntries = 2
    MaxChecksum = 3
    MaxScan = 11
    IdBytes = 2
    GuidBytes = 1
    MaxDays = 9
    FirstBackoff = 30
    MaxBackoff = 1800
    MaxFailures = 100
INVARIANTS VersionLaws PackageLaws RequestLaws ListingLaws InternalizeLaws ConfigurationLaws
CHECK_DEADLOCK FALSE
