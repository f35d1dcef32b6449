SPECIFICATION Spec
CONSTANTS
    Proc = {p1, p2}
    MaxWorkers = 2
    Seeds = 2
    Arm = {a1}
    Experiment = {x1, x2}
    Legacy = Legacy
    Dirs = {d1, d2}
    Absent = Absent
    Torn = Torn
SYMMETRY Symmetry
INVARIANT CrashedRunResumes
