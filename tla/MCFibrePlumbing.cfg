\* A closure where two trunks meet, from two boxes, one of them a splitter with
\* one port recorded.
SPECIFICATION Spec
CONSTANTS
    Boxes = {b1, b2}
    Closures = {c1, c2}
    Splitters = {b2}
    Ports = {in1}
    Inlet = in1
    None = None
    MaxCount = 2
    MaxCables = 3
    MaxChanges = 3
INVARIANT
    PlumbingIsSpent
CHECK_DEADLOCK FALSE
