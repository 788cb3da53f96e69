SPECIFICATION Spec
CONSTANTS
    Runs <- MCRuns
    Manifests <- MCManifests
    Blobs <- MCBlobs
    Indexes = {"index"}
    Refs <- MCRefs
    Tags = {"sha", "version", "report-tag"}
    Wanted <- MCWanted
    TagList <- MCTagList
    TruthfulLabels = TRUE
    None = None
INVARIANTS
    TagsAreComplete
    PublishedMeansTagged
CHECK_DEADLOCK FALSE
