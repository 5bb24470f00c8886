CONSTANTS
    p1 = p1
    p2 = p2
    Producers <- MCProducers
    MaxCalls <- MCMaxCalls
    Handlers = {root, derived}
    Root = root
    Capacity = 2
SPECIFICATION Spec
INVARIANT NeverPanics
CHECK_DEADLOCK FALSE
