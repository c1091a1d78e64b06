\* Two edge nodes, one of which has lost its own internet.
SPECIFICATION Spec
CONSTANTS
    Nodes = {n1, n2}
    MaxLosses = 1
    MaxRebuilds = 0
INVARIANT OnePagePerUplinkLoss
CHECK_DEADLOCK FALSE
