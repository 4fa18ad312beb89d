CONSTANTS
    root = root
    child = child
    chat = chat
    p = p
    None = None
    Conversations = {root, child, chat}
    Projects = {p}
    Root <- MCRoot
    Homes <- MCHomes
    Menu <- MCMenu
    MaxRequests = 3
    MaxFailures = 1
    Capacity <- MCCapacity
    Concurrency <- MCConcurrency
SPECIFICATION Spec
CHECK_DEADLOCK FALSE
INVARIANTS
    TypeOK
    InOrder
    
    LanesAreFair
    ControlReachesPreparation
    EveryRequestAnswered
