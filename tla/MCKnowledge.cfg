CONSTANTS
    m1 = m1
    c1 = c1
    Message = {m1}
    Conversation = {c1}
    Conv <- MCConv
    Hard = {}
    Worker = {w1, w2}
    MaxAttempts = 3
    MaxCrashes = 2
    Document = {d1, d2}
    Author = {a1}
    Ingester = {g1, g2}
    MaxIngestCrashes = 2
    Member = {u1, u2}
    Founder = u1
    MemberRequest = {p1, p2}
    Branch = {b1, b2, b3}
    MainBranch = b1
    BranchRequest = {p1, p2, p3}
    MaxDeals = 3
    Valuable = {1, 3}
    Batch = 2
    Automaton = {w1, w2}
    MaxEdits = 2
    MaxFaults = 1
SPECIFICATION ServicesSpec
\* The areas stop where their documents, requests, edits or faults are used up.
CHECK_DEADLOCK FALSE
PROPERTY QueuedIsClaimed
