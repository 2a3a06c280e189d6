SPECIFICATION RoutingSpec
CONSTANTS
    Segments <- SegmentsDef
    MaxDepth = 1
    MaxRoutes = 2
    RouteSlash = TRUE
CHECK_DEADLOCK FALSE
INVARIANTS
    RouteIsLongestMatch
