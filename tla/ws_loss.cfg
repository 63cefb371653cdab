CONSTANTS
    p1 = p1
    p2 = p2
    Procs = {p1, p2}
    MaxRows = 2
    MaxProvision = 1
    MaxGeneration = 1
    HostMayLoseVms = TRUE
CONSTRAINT MachineOrSecondRow
SYMMETRY ProcSymmetry
SPECIFICATION Spec
INVARIANTS SafetyInv
PROPERTY RestartFencesProvisions
