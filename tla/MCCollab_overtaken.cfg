CONSTANTS
    Kinds <- MCKinds
    ContentOf <- MCContentOf
    AllowedIn <- MCAllowedIn
    TopLevel <- MCKinds
    DefaultText = "para"
    Excludes <- MCExcludes
    Span = 100
    Stories <- Overtaken
SPECIFICATION Spec
INVARIANTS
    MovesKeepACopy
CHECK_DEADLOCK FALSE
