CONSTANTS
    x = x
    y = y
    f = f
    Name = {x, y, f}
    MaxCtxt = 20
    Programs <- ClassUsedEarlier
SPECIFICATION Spec
INVARIANT
    OneContextPerBinding
