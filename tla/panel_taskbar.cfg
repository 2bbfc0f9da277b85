SPECIFICATION FairSpec
CONSTANTS
    NULL = NULL
    Menu <- PlainMenus
    Items <- PlainItems
    MenuDelayTime = 1
    MenuDelayTime2 = 1
    TaskbarShowDelay = 1
    TaskbarHideDelay = 1
    TooltipDelayTime = 1
    TooltipDisplayTime = 1
    AutoHide = TRUE
    KeyFunction = {"Q_POPUP_START_MENU", "Q_POPUP_DESKTOP_MENU", "Q_POPDOWN_ALL_MENU", "Q_TOGGLE_AUTOHIDE"}
    MenuKey = {"Q_POPDOWN_MENU"}
    Keyed <- NoKey
    Operated = {"start"}
    StaleInput = FALSE
    MaxCallouts = 2
    MaxTooltips = 2
    MaxCrossings = 1
INVARIANTS  TooltipTimers
PROPERTIES TooltipVanishes
CHECK_DEADLOCK FALSE
