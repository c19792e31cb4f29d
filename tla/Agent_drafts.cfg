\* Two turns of the agent beside two adopting, deleting or archiving requests, one
\* fault; every order of fragments and every ending of the model's streams.
CONSTANTS
    Procs = {p1, p2}
    Inputs = {i1, i2}
    MaxDrafts = 2
    MaxRequests = 4
    MaxFaults = 1
    None = None
    Streams <- MCStreams
    MaxIterations = 2
    MaxWidgets = 1
    MaxTurns = 2
SPECIFICATION Spec
SYMMETRY Symmetry
INVARIANTS MessagesArePaired CallsAreMeant RepliesAreComplete DraftsAreFew PlansFollowDrafts
CHECK_DEADLOCK FALSE
