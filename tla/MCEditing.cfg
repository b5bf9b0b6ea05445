SPECIFICATION Spec
CONSTANTS
    Kinds <- MCKinds
    ContentOf <- MCContentOf
    AllowedIn <- MCAllowedIn
    TopLevel <- MCBlocks
    DefaultText = "para"
    Excludes <- MCExcludes
    ListTypes <- MCListTypes
    InclusiveMarks = {"bold"}
    Setups <- MCSetups
    Command <- Registered
    RulePrefix <- HashPrefix
    RuleText <- Space
    RuleKind = "head"
    Depth = 2
    Trailing = TRUE
INVARIANTS
    DocumentIsTree
    TransientFits
    HistoryRetraces
    CanIsRight
    TextIsKept
    PasteIsPlacedInText
    UndoneRuleIsLiteral
    NothingFails
PROPERTIES
    LimitHolds
    StoredMarksAreCurrent
CHECK_DEADLOCK FALSE
