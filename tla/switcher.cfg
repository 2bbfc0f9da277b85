SPECIFICATION Spec
CONSTANTS
    main = main
    dialog = dialog
    other = other
    Root = Root
    NULL = NULL
    Window = {main, dialog, other}
    TransientFor <- NoTransient
    InitFlags <- NoFlags
    ClickToFocus = TRUE
    InitOnTop = {}
    AutoRaise = TRUE
    Toggled = {other}
    ToggleIconic = FALSE
    MaxDestroyed = 1
INVARIANTS TypeInv LitIsChosen
PROPERTIES TaskSwitched OnTopKept
CHECK_DEADLOCK FALSE
SYMMETRY Tasks
