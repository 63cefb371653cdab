CONSTANTS
    p1 = p1
    p2 = p2
    Procs = {p1, p2}
    MaxRows = 1
    MaxProvision = 0
    MaxGeneration = 1
    HostMayLoseVms = FALSE
SPECIFICATION FairSpec
PROPERTIES ResetCompletes MachinesAreReclaimed
