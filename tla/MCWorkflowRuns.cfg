CONSTANTS
    t = t
    c = c
    d = d
    a = a
    r1 = r1
    p1 = p1
    p2 = p2
    w1 = w1
    w2 = w2
    Node = {t, c, d, a}
    None = None
    Draft <- MCDraft
    Context <- MCContext
    Run = {r1}
    Request = {p1, p2}
    Worker = {w1, w2}
    MaxVersions = 2
    MaxSteps = 12
    MaxCrashes = 2
SPECIFICATION FairObservedSpec
INVARIANTS
    NewestIsCurrent
    StepsFollowPath
PROPERTIES
    OverIsOver
    RunAgreesWithSteps
    WaitingRunEnds
\* It stops when every run is over and no version can be added.
CHECK_DEADLOCK FALSE
