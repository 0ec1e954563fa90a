SPECIFICATION RunSpec
CONSTANTS
    p1 = p1
    p2 = p2
    Procs <- TwoProcs
    Commands = {"force", "run", "gallery", "visualize"}
    MaxCommands = 2
    MaxExtractions = 3
SYMMETRY ProcSymmetry
INVARIANTS ValidMeansFinished RunRenewsAll
CHECK_DEADLOCK FALSE
