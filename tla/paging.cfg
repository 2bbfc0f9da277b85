SPECIFICATION Spec
CONSTANTS
    plain = plain
    framed = framed
    Window = {plain, framed}
    Display <- Screen
    rcVirt <- TwoByTwo
    PageSize <- Scale
    FrameBorder = 6
    TitleHeight = 18
    bwOrig <- NoBw
    Gravity <- Gravities
    Hints <- AnySize
    SnappingMove = 0
    SnappingEdges = 0
    EdgeResistance = 0
    Asked <- Places
    InitFlags <- Flags
    PagingBeltSize = 2
    PagingMovement = 100
    Opaque = TRUE
    Thickness = {28}
    Handled = {framed}
    Pointers <- Edges
    Grips <- SidesHeld
    Keys <- Arrows
    MaxKeys = 2
    Positions = {"BOTTOM", "LEFT"}
    PagerMoves <- OnPager
    Requests <- Asking
    Configurable = {plain}
    TaskbarFunctions = TRUE
    Junk <- Anywhere
    Reach = 300
    MaxOps = 3
INVARIANTS TypeInv FrameAgrees BeltsLead
PROPERTIES PagesKept RestKept CentreShown ResizeKeepsBase
CHECK_DEADLOCK FALSE
