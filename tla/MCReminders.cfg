CONSTANTS
    r1 = r1
    w1 = w1
    w2 = w2
    s1 = s1
    s2 = s2
    k1 = k1
    k2 = k2
    Resource = {r1}
    Duration = {1}
    Start = {0, 1}
    Series <- MCSeries
    Lead = {1}
    Request = {p1}
    Worker = {w1, w2}
    Day = 2
    Open = 0
    Close = 2
    Exception <- MCException
    MaxRows = 2
    MaxCrashes = 1
    Visit = {x1}
    Staff = {s1, s2}
    Reviewer = {w1, w2}
    ContactMessage = {n1}
    PrivacyRequest = {q1}
    Clerk = {k1, k2}
    Transcriber = {w1, w2}
    MaxTranscriptionAttempts = 2
    MaxOverruns = 1
SPECIFICATION MCSpec
SYMMETRY ProcessSymmetry
INVARIANTS
    SentWasDelivered
    DeliveriesBounded
    SurvivorsCameLate
PROPERTIES
    ReminderSettlesOnce
    CancelledIsLeftAlone
    TranscriptIsSettled
\* The erasure area stops: nothing takes a transcription over after its last attempt.
CHECK_DEADLOCK FALSE
