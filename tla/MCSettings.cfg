CONSTANTS
    r1 = r1
    p1 = p1
    p2 = p2
    w1 = w1
    w2 = w2
    Resource = {r1}
    Duration = {1, 2}
    Start = {0, 1}
    Series <- MCSeries
    Lead = {}
    Request = {p1, p2}
    Worker = {}
    Day = 2
    Open = 0
    Close = 2
    Exception <- MCException
    MaxRows = 3
    MaxCrashes = 0
    Figure = {1, 2}
    Discount = 1
    BillingRequest = {p1, p2}
    MaxRequests = 5
    MaxPayments = 1
    MaxReturned = 0
    Edition = {v1, v2}
    FirstEdition = v1
    QuoteRequest = {p1, p2}
    MaxRevisions = 3
    Quote = {q1, q2}
    InvoiceRequest = {p1, p2}
    MaxInvoices = 4
    Admin = {u1, u2}
    MaxVersion = 2
    MaxLists = 2
SPECIFICATION MCSpec
SYMMETRY RequestSymmetry
INVARIANT RefusedIsChanged
\* The areas stop where their requests, revisions, invoices or versions are used up.
CHECK_DEADLOCK FALSE
