SPECIFICATION Spec
CONSTANTS
    Names = {"clock"}
    MaxProcs = 3
    Argvs <- Starts
    MAX_FAILURE_COUNT = 2
    BUF_SIZE = 4
    Chunks <- Writes
    Hosts <- AllHosts
    MaxInputs = 3
INVARIANTS  DeadForgotten SaveAnsweredOnce  CommandsWhole
 
CHECK_DEADLOCK FALSE
