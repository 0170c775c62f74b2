SPECIFICATION Spec
CONSTANTS
    Nobody = "nobody"
    NoCommit = ""
    AnyVersion = 0
    Unreadable = Unreadable
    PersonOf <- MCPersonOf
    Manifests <- MCManifests
    Artifacts <- MCArtifacts
    Crosswalk <- MCCrosswalk
    MaxBuilds = 2
    MaxFaults = 1
INVARIANTS
    ReleaseTypeOK
    ClearedSound
    ClearedRecorded
    PageAgrees
    CitationCurrent
CHECK_DEADLOCK FALSE
