\* Two operators uploading and syncing at once, server restarts included.
CONSTANTS
    Ids = {1, 2, 3}
    Payload = {"x", "y"}
    NoSource = NoSource
    Catalogs <- MCCatalogs
    Requests = {r1, r2}
    Torn = Torn
    NoFile = NoFile
SYMMETRY RequestSymmetry
SPECIFICATION CatalogSpec
PROPERTIES UploadsAreWhole LoneSyncMirrors SharedSourceStays
CHECK_DEADLOCK FALSE
