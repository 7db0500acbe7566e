CONSTANTS
    m1 = m1
    m2 = m2
    c1 = c1
    w1 = w1
    w2 = w2
    Message = {m1}
    Conversation = {c1}
    Conv <- MCConvOne
    Hard = {}
    Worker = {w1}
    MaxAttempts = 2
    MaxCrashes = 1
SPECIFICATION FairSpec
PROPERTY RecordedRunIsLinked
