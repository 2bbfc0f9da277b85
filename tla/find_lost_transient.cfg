SPECIFICATION Spec
CONSTANTS
    main = main
    dialog = dialog
    other = other
    Root = Root
    NULL = NULL
    Window = {main, dialog}
    TransientFor <- DialogOfMain
    InitFlags <- NoFlags
    ClickToFocus = TRUE
    FocusOnMap = FALSE
    RestoreMinimize = TRUE
    NoDesktopFocus = FALSE
    InitIconic = {}
    InitMaximize = {}
    CloseSoon = {}
    FocusOnClick = {}
    Override = {}
    Existing = {}
    WasIconic = {}
    Bound = {"BUTTON1"}
    StaleInput = FALSE
    MaxEvents = 1
    MaxListed = 4
INVARIANTS TransientsReturn
CHECK_DEADLOCK FALSE
