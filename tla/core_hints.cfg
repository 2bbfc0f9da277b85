SPECIFICATION Spec
CONSTANTS
    main = main
    dialog = dialog
    other = other
    Root = Root
    NULL = NULL
    Window = {main, other}
    TransientFor <- DialogOfMain
    InitFlags <- OtherNoFocus
    ClickToFocus = TRUE
    FocusOnMap = FALSE
    RestoreMinimize = TRUE
    NoDesktopFocus = FALSE
    InitIconic = {other}
    InitMaximize = {main}
    CloseSoon = {}
    FocusOnClick = {}
    Override = {main}
    Existing = {main}
    WasIconic = {main}
    Bound <- HintFunctions
    StaleInput = FALSE
    MaxEvents = 1
    MaxListed = 2
INVARIANTS ServerAgreement
CHECK_DEADLOCK FALSE
