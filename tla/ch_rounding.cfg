SPECIFICATION Spec
CONSTANTS
    Posts = {p1, p2}
    Enrollments = {a, b}
    RequestIds = {r1}
    Costs = {1}
    Scale = 2
    Granted = 2
    MaxGeneration = 1
SYMMETRY RequestSymmetry
PROPERTY RestartKeepsBalance
