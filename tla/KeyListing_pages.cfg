\* Lists read over two nodes, while blocks pass.
SPECIFICATION Spec
CONSTANTS
    n1 = n1
    n2 = n2
    Nodes = {n1, n2}
    Providers <- TwoAndOne
    Attempts = 2
    Keys = {1, 2, 3}
    PageSize = 1
    MaxPages = 4
    MaxHeight = 2
INVARIANTS TypeOK OneBlock ListedOnce
PROPERTIES ListingEnds IsASnapshot
CHECK_DEADLOCK FALSE
