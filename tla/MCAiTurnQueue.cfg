CONSTANTS
    m1 = m1
    m2 = m2
    c1 = c1
    w1 = w1
    w2 = w2
    Message = {m1, m2}
    Conversation = {c1}
    Conv <- MCConv
    Hard = {m2}
    Worker = {w1, w2}
    MaxAttempts = 2
    MaxCrashes = 1
SPECIFICATION Spec
SYMMETRY WorkerSymmetry
INVARIANTS
    FailedRunIsEscalated
    TurnsWithinAttempts
PROPERTIES
    RecoveryNeverRedrafts
    LedgerSpec
