CONSTANTS
    a = a
    b = b
    i1 = i1
    i2 = i2
    i3 = i3
    r1 = r1
    w1 = w1
    w2 = w2
    p1 = p1
    p2 = p2
    Contact = {a, b}
    Invoice = {i1, i2, i3}
    Owner <- MCOwner
    Points <- MCPoints
    Referral = {r1}
    Referrer <- MCReferrer
    Referred <- MCReferred
    Bonus <- MCBonus
    Reward = {2}
    Silver = 2
    Gold = 3
    Limit = 2
    Worker = {w1, w2}
    Request = {p1}
    MaxCrashes = 1
SPECIFICATION FairSpec
INVARIANTS
    BalanceIsLedger
    BonusPerEarning
    TierIsDeserved
PROPERTY PaidInvoiceEarns
