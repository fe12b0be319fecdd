SPECIFICATION Spec
CONSTANTS
    Ids = {db, main, view}
    Manifests <- MCManifests
    MaxObjects = 3
INVARIANTS
    FailsOnlyOffConvention
