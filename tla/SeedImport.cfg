\* Two reviews of one policy, two seed directories, two importers, one process that ends half way.
SPECIFICATION Spec
CONSTANTS
    d0 = d0
    d1 = d1
    r1 = r1
    r2 = r2
    i1 = i1
    i2 = i2
    Blank = Blank
    Malformed = Malformed
    NoFile = NoFile
    CategoryCode <- MCCategoryCode
    Region <- MCRegion
    Reports = {r1, r2}
    Directories = {d0, d1}
    Released = d0
    ReleasedFiles <- MCReleasedFiles
    Baselines <- MCBaselines
    Snapshots <- MCSnapshots
    PatchSets <- MCPatchSets
    Interrupted <- MCInterrupted
    Listing <- MCListing
    MaxStarts = 2
    MaxCrashes = 1
    None = None
    NoReport = NoReport
    Nobody = Nobody
    Importers = {i1, i2}
    MaxImports = 2
SYMMETRY ProcessSymmetry
INVARIANTS
    TypeOK
    LoadableSeedsAreWhole
    OtherPoliciesKeepTheirRows
    PoliciesChangeAsReviewed
    CatalogIsOfWholeEditions
PROPERTY
    SeedsAreWrittenByTheirMakers
CHECK_DEADLOCK FALSE
