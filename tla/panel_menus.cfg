SPECIFICATION Spec
CONSTANTS
    NULL = NULL
    Menu <- CascadeMenus
    Items <- CascadeItems
    MenuDelayTime = 1
    MenuDelayTime2 = 1
    TaskbarShowDelay = 0
    TaskbarHideDelay = 1
    TooltipDelayTime = 1
    TooltipDisplayTime = 1
    AutoHide = FALSE
    KeyFunction = {"Q_POPUP_START_MENU"}
    MenuKey = {"Q_POPDOWN_MENU", "Q_DOWN_FOCUS", "Q_UP_FOCUS", "Q_RIGHT_FOCUS", "Q_LEFT_FOCUS"}
    Keyed <- SharedKey
    Operated = {"start", "games"}
    StaleInput = TRUE
    MaxCallouts = 2
    MaxTooltips = 0
    MaxCrossings = 0
INVARIANTS TypeInv PopupsOfOpenMenus ChildIsOpen
CHECK_DEADLOCK FALSE
