CONSTANTS
    r1 = r1
    p1 = p1
    p2 = p2
    w1 = w1
    w2 = w2
    Resource = {r1}
    Duration = {1}
    Start = {0, 1}
    Series <- MCNoSeries
    Lead = {1}
    Request = {p1}
    Worker = {}
    Day = 2
    Open = 0
    Close = 2
    Exception <- MCException
    MaxRows = 2
    MaxCrashes = 0
SPECIFICATION Spec
INVARIANT CancelledRemindersCancelled
