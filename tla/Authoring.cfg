SPECIFICATION Spec
CONSTANTS
    NoCheck = NoCheck
    NoRule = NoRule
    NoControl = NoControl
    NoFile = NoFile
    Torn = Torn
    Checks = {"k1", "k2", "sub/k"}
    Plain = {"k1", "k2"}
    Bundles <- MCBundles
    Libraries <- MCLibraries
    MaxEdits = 2
    MaxFaults = 1
INVARIANTS
    AuthoringTypeOK
    JudgesAgree
    ComposeReady
    DirectoryExact
    SelectedTraced
CHECK_DEADLOCK FALSE
