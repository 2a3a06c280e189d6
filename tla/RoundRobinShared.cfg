SPECIFICATION RRSpec
CONSTANTS
    Handlers = {h1, h2}
    N = 2
    IndexSize = 4
    Probing = FALSE
SYMMETRY Symmetry
INVARIANTS
    NilMeansNoneHealthy
