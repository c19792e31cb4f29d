\* Two overlapping requests of any kind, up to three messages, one fault.
CONSTANTS
    Convs = {c1}
    Conv = c1
    Procs = {p1, p2}
    Requests = {"Chat", "Regenerate", "AddMessage", "Rollback", "Archive", "Delete"}
    MaxMsgs = 3
    MaxFaults = 1
SYMMETRY Symmetry
SPECIFICATION Spec
INVARIANTS RefusalsAreClean QuestionKept
CHECK_DEADLOCK FALSE
