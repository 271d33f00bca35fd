SPECIFICATION Spec
CONSTANTS
    Origins = {0}
INVARIANT ChainApplies
