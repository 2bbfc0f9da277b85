SPECIFICATION Spec
CONSTANTS
    main = main
    dialog = dialog
    other = other
    Root = Root
    NULL = NULL
    Window = {main, other}
    TransientFor <- DialogOfMain
    InitFlags <- OtherNoFocus
    ClickToFocus = TRUE
    FocusOnMap = FALSE
    RestoreMinimize = TRUE
    NoDesktopFocus = FALSE
    InitIconic = {}
    InitMaximize = {}
    CloseSoon = {}
    FocusOnClick = {}
    Override = {}
    Existing = {}
    WasIconic = {}
    Bound = {}
    StaleInput = FALSE
    MaxEvents = 1
    MaxListed = 4
INVARIANTS FocusYielded
CHECK_DEADLOCK FALSE
