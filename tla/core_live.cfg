SPECIFICATION FairHistorySpec
CONSTANTS
    main = main
    dialog = dialog
    other = other
    Root = Root
    NULL = NULL
    Window = {main, dialog, other}
    TransientFor <- DialogOfMain
    InitFlags <- NoFlags
    ClickToFocus = TRUE
    FocusOnMap = FALSE
    RestoreMinimize = FALSE
    NoDesktopFocus = FALSE
    InitIconic = {}
    InitMaximize = {}
    CloseSoon = {other}
    FocusOnClick = {}
    Override = {}
    Existing = {main}
    WasIconic = {}
    Bound = {}
    StaleInput = TRUE
    MaxEvents = 3
    MaxListed = 6
INVARIANTS NoLostMap
PROPERTIES MapHonoured DestroyNoticed
CHECK_DEADLOCK FALSE
