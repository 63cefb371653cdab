CONSTANTS
    p1 = p1
    p2 = p2
    Procs = {p1, p2}
    MaxRows = 1
    MaxProvision = 1
    MaxGeneration = 0
    HostMayLoseVms = FALSE
SYMMETRY ProcSymmetry
SPECIFICATION Spec
PROPERTIES OnlyStoppedVmIsMarkedStopped
