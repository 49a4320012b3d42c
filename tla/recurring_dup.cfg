SPECIFICATION Spec
CONSTANTS
    n1 = n1
    n2 = n2
    d1 = d1
    NoNode = NoNode
    Nodes = {n1, n2}
    Defs = {d1}
    MaxApiOps = 1
    MaxMishaps = 0
INVARIANT
    OncePerTick
