SPECIFICATION FairSpec
CONSTANTS
    c1 = c1
    c2 = c2
    r1 = r1
    w1 = w1
    w2 = w2
    Contact <- Contacts
    Request <- Requests
    Worker <- Workers
    MaxRequests = 2
    MaxCrashes = 1
INVARIANTS
    DeliveredWasEligible
    SentWasDelivered
    DeliveriesBounded
    NoneLeftBehind
PROPERTIES
    CancelledIsDropped
    SendingSettles
\* It stops when the campaign is over and no request is left.
CHECK_DEADLOCK FALSE
