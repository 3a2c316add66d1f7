CONSTANTS
    main = main
    one = one
    two = two
    XmlIds <- MCXmlIds
    Types = {"section", "worksheet"}
    RootType = "article"
    NoId = NoId
    RootId = main
    InitialPool <- MCInitialPool
    ChildTypes <- MCChildTypes
    SnippetRefs = {note1, note2}
    Words = {"w"}
    Pretext = TRUE
    MaxSteps = 3
    MaxTabs = 3
    Env = {}
    Projects <- MCProjects
    LegacyRows <- MCLegacyRows
    Typable <- MCTypable
    Docinfos <- MCDocinfos
    Retypings = {"section", "introduction"}
    NewRecords <- MCNewRecords
    DivisionTypes <- MCDivisionTypes
    MaxEdits = 2
SPECIFICATION MCSpec
SYMMETRY Symmetry
INVARIANTS
    Consistent
    TypedStaysHome
    TocIsTheDocument
    DocumentIsWhole
    PlacementsStayApart
    SplitIsTheInverse
CHECK_DEADLOCK FALSE
