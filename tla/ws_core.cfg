CONSTANTS
    p1 = p1
    p2 = p2
    Procs = {p1, p2}
    MaxRows = 1
    MaxProvision = 1
    MaxGeneration = 1
    HostMayLoseVms = FALSE
SYMMETRY ProcSymmetry
SPECIFICATION Spec
INVARIANTS NoOrphanVm AttachedVmIsSafe
PROPERTIES ResettingIsFinal KeepsCustody
