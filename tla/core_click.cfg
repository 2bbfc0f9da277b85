SPECIFICATION Spec
CONSTANTS
    main = main
    dialog = dialog
    other = other
    Root = Root
    NULL = NULL
    Window = {main, dialog, other}
    TransientFor <- DialogOfMain
    InitFlags <- NoFlags
    ClickToFocus = TRUE
    FocusOnMap = FALSE
    RestoreMinimize = TRUE
    NoDesktopFocus = FALSE
    InitIconic = {}
    InitMaximize = {}
    CloseSoon = {}
    FocusOnClick = {}
    Override = {}
    Existing = {other}
    WasIconic = {}
    Bound <- PlainFunctions
    StaleInput = TRUE
    MaxEvents = 1
    MaxListed = 6
INVARIANTS TypeInv NoDangling FocusLists Restorable FocusIsTop TransientLinks
PROPERTIES MinimizeYieldsFocus
CHECK_DEADLOCK FALSE
