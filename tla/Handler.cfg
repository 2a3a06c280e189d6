SPECIFICATION HandlerSpec
CONSTANTS
    Segments <- SegmentsDef
    MaxDepth = 2
    MaxRoutes = 2
    RouteSlash = FALSE
    Handlers = {h1}
    N = 3
    IndexSize = 6
    Probing = TRUE
CHECK_DEADLOCK FALSE
INVARIANTS
    HandlerTypeOK
    RouteIsLongestMatch
    AnswerJustified
PROPERTIES
    RequestAnswered
