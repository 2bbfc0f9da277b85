SPECIFICATION Spec
CONSTANTS
    main = main
    dialog = dialog
    other = other
    Root = Root
    NULL = NULL
    Window = {main, other}
    TransientFor <- DialogOfMain
    InitFlags <- NoFlags
    ClickToFocus = FALSE
    FocusOnMap = FALSE
    RestoreMinimize = TRUE
    NoDesktopFocus = FALSE
    InitIconic = {}
    InitMaximize = {}
    CloseSoon = {}
    FocusOnClick = {other}
    Override = {}
    Existing = {main}
    WasIconic = {}
    Bound <- RaceFunctions
    StaleInput = TRUE
    MaxEvents = 2
    MaxListed = 6
INVARIANTS ServerAgreement
CHECK_DEADLOCK FALSE
