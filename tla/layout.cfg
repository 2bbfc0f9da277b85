SPECIFICATION Spec
CONSTANTS
    wide = wide
    tall = tall
    small = small
    trash = trash
    mail = mail
    Window = {wide, tall, small}
    Display <- Screen
    rcVirt <- TwoPages
    PageSize <- Scale
    FrameBorder = 2
    TitleHeight = 18
    bwOrig <- NoBw
    Gravity <- NoGravity
    Hints <- InSteps
    SnappingMove = 5
    SnappingEdges = 3
    EdgeResistance = 0
    NewSize <- Sizes
    Sticky = {small}
    SmartPlacement = TRUE
    TopBorder = 4
    rcPager <- Pager
    Icon = {trash, mail}
    IconList <- IconOrder
    IconStep <- Grid
    ButtonHeight = 22
    StartWidth = 50
    ClockWidth = 40
    IndicatorSize = 16
    Bars <- AllBars
    Counts = {1, 4, 13, 29}
    NumInd = {0, 3}
    Drops <- InDrops
    IconMoves <- OneStep
    IconReach <- Nearby
    Directions <- Expansions
    Origins <- Pages
    MaxOps = 4
PROPERTIES PlacedClear  SnapNear TilesApart ButtonsApart
CHECK_DEADLOCK FALSE
