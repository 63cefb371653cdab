SPECIFICATION Spec
CONSTANTS
    Posts = {p1, p2}
    Enrollments = {a}
    RequestIds = {r1}
    Costs = {2}
    Scale = 2
    Granted = 2
    MaxGeneration = 1
SYMMETRY RequestSymmetry
INVARIANT RefusedWhenExhausted
