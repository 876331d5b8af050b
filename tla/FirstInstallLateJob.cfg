\* A start that failed, a cleanup that failed to cancel its job, and the manager.
SPECIFICATION Spec
CONSTANTS
    Order <- MCOrder
    Replaced <- MCReplaced
    Pieces <- MCPieces
    MaxForeign = 0
INVARIANT LifecycleQuiesced
CHECK_DEADLOCK FALSE
