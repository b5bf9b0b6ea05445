CONSTANTS
    Kinds <- MCKinds
    ContentOf <- MCContentOf
    AllowedIn <- MCAllowedIn
    TopLevel <- MCKinds
    DefaultText = "para"
    Excludes <- MCExcludes
    Span = 100
    Stories <- MCStories
SPECIFICATION Spec
INVARIANTS
    ReplicasMirror
    PeersConverge
    EditsSurvive
CHECK_DEADLOCK FALSE
