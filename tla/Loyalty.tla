-------------------------------- MODULE Loyalty --------------------------------
(***************************************************************************)
(* Loyalty points: the accounts, the ledger of transactions, the referral  *)
(* bonuses, the workers that credit paid invoices and the requests that    *)
(* spend points.  One action per awaited call; applyPoints is one database *)
(* transaction.  One enabled program; an account is named by its contact.  *)
(***************************************************************************)
EXTENDS Naturals, Sequences, FiniteSets, SequencesExt

CONSTANTS Contact,
          Invoice,
          Owner,         \* Owner[i]: the contact of invoice i
          Points,        \* Points[i]: floor(total * pointsPerCurrency)
          Referral,
          Referrer, Referred, Bonus,   \* of a referral
          Reward,        \* numbers of points that requests spend
          Silver, Gold,  \* tier thresholds
          Limit,         \* invoices of one batch
          Worker, Request,
          MaxCrashes     \* bound: worker crashes

ASSUME LoyaltyAssumption ==
    /\ Owner \in [Invoice -> Contact]
    /\ Points \in [Invoice -> Nat]
    /\ Referrer \in [Referral -> Contact]
    /\ Referred \in [Referral -> Contact]
    /\ Bonus \in [Referral -> Nat \ {0}]
    /\ Reward \subseteq Nat \ {0}
    /\ Silver \in Nat /\ Gold \in Nat /\ Silver <= Gold
    /\ Limit \in Nat \ {0} /\ MaxCrashes \in Nat

Tier == {"bronze", "silver", "gold"}
NoAccount == [open |-> FALSE]
Poll == [at |-> "poll"]
Rest == [at |-> "rest"]

VARIABLES paid,      \* paid invoices in paid_at order
          account,   \* account[c]: balance, lifetime points and tier
          earn,      \* invoices with an 'earn' transaction
          bonus,     \* bonus[r]: 'referral_bonus' transactions of referral r
          spent,     \* spent[c]: points of the 'spend' transactions of c
          referral,  \* referral[r]: "absent", "pending" or "rewarded"
          worker,    \* worker[w]: batch in hand and what it remembers
          request,   \* request[p]: a redemption under way
          crashes

ledgerVars == <<account, earn, bonus, spent>>
vars == <<paid, ledgerVars, referral, worker, request, crashes>>

Account == [open : {TRUE}, balance : Nat, earned : Nat, tier : Tier]

TypeOK ==
    /\ paid \in Seq(Invoice)
    /\ account \in [Contact -> {NoAccount} \union Account]
    /\ earn \in SUBSET Invoice
    /\ bonus \in [Referral -> Nat]
    /\ spent \in [Contact -> Nat]
    /\ referral \in [Referral -> {"absent", "pending", "rewarded"}]
    /\ worker \in [Worker -> {Poll} \union
           [at : {"account", "create", "earn", "referrals", "referrer",
                  "createReferrer", "bonus", "reward"},
            batch : Seq(Invoice), read : Nat, pending : SUBSET Referral]]
    /\ request \in [Request -> {Rest} \union [at : {"spend"}, by : Contact, points : Reward]]
    /\ crashes \in 0..MaxCrashes

Init ==
    /\ paid = <<>>
    /\ account = [c \in Contact |-> NoAccount]
    /\ earn = {}
    /\ bonus = [r \in Referral |-> 0]
    /\ spent = [c \in Contact |-> 0]
    /\ referral = [r \in Referral |-> "absent"]
    /\ worker = [w \in Worker |-> Poll]
    /\ request = [p \in Request |-> Rest]
    /\ crashes = 0

-------------------------------------------------------------------------------
\* Billing sets an invoice paid.
PayInvoice(i) ==
    /\ \A k \in DOMAIN paid : paid[k] # i
    /\ paid' = Append(paid, i)
    /\ UNCHANGED <<ledgerVars, referral, worker, request, crashes>>

CreateReferral(r) ==
    /\ referral[r] = "absent"
    /\ Referrer[r] # Referred[r]
    /\ referral' = [referral EXCEPT ![r] = "pending"]
    /\ UNCHANGED <<paid, ledgerVars, worker, request, crashes>>

TierFor(total) ==
    IF total >= Gold THEN "gold" ELSE IF total >= Silver THEN "silver" ELSE "bronze"

NewAccount == [open |-> TRUE, balance |-> 0, earned |-> 0, tier |-> "bronze"]

\* Mutant: the total already contains the points when the tier is computed.
CreditAfter(c, points, total) ==
    account' = [account EXCEPT ![c].balance = @ + points,
                               ![c].earned = @ + points,
                               ![c].tier = TierFor(account[c].earned + points + points)]

\* The increments are the database's; the tier comes from the total that was read.
Credit(c, points, total) ==
    account' = [account EXCEPT ![c].balance = @ + points,
                               ![c].earned = @ + points,
                               ![c].tier = TierFor(total + points)]

At(w, step) == worker[w].at = step
Becomes(w, s) == worker' = [worker EXCEPT ![w] = s]
GoTo(w, step) == Becomes(w, [worker[w] EXCEPT !.at = step])
GoReading(w, step, c) ==
    Becomes(w, [worker[w] EXCEPT !.at = step, !.read = account[c].earned])

Current(w) == Head(worker[w].batch)
NextInvoice(w) ==
    Becomes(w, IF Len(worker[w].batch) = 1 THEN Poll
               ELSE [at |-> "account", batch |-> Tail(worker[w].batch), read |-> 0, pending |-> {}])

\* Of the first n paid invoices, those without an 'earn' transaction.
OpenOf[n \in 0..Len(paid)] ==
    IF n = 0 THEN <<>>
    ELSE IF paid[n] \in earn THEN OpenOf[n - 1]
    ELSE Append(OpenOf[n - 1], paid[n])
Open == OpenOf[Len(paid)]

\* Mutant: only what was paid last is looked at.
UnearnedNewest == SubSeq(Open, IF Len(Open) > 1 THEN Len(Open) ELSE 1, Len(Open))

\* The oldest Limit of them.
Unearned == SubSeq(Open, 1, IF Len(Open) < Limit THEN Len(Open) ELSE Limit)

ListUnearned(w) ==
    /\ worker[w] = Poll
    /\ Unearned # <<>>
    /\ Becomes(w, [at |-> "account", batch |-> Unearned, read |-> 0, pending |-> {}])
    /\ UNCHANGED <<paid, ledgerVars, referral, request, crashes>>

\* An invoice worth no point is passed over, and stays in every later batch.
GetAccount(w) ==
    LET c == Owner[Current(w)]
    IN  /\ At(w, "account")
        /\ \/ Points[Current(w)] = 0 /\ NextInvoice(w)
           \/ Points[Current(w)] > 0 /\ account[c].open /\ GoReading(w, "earn", c)
           \/ Points[Current(w)] > 0 /\ ~account[c].open /\ GoTo(w, "create")
        /\ UNCHANGED <<paid, ledgerVars, referral, request, crashes>>

\* One account per contact and program: P2002 abandons this invoice for now.
CreateAccount(w) ==
    LET c == Owner[Current(w)]
    IN  /\ At(w, "create")
        /\ \/ /\ account[c].open
              /\ NextInvoice(w)
              /\ UNCHANGED account
           \/ /\ ~account[c].open
              /\ account' = [account EXCEPT ![c] = NewAccount]
              /\ Becomes(w, [worker[w] EXCEPT !.at = "earn", !.read = 0])
        /\ UNCHANGED <<paid, earn, bonus, spent, referral, request, crashes>>

\* Mutant: no unique (invoice, kind).
EarnAgain(w) ==
    LET i == Current(w)
    IN  /\ At(w, "earn")
        /\ Credit(Owner[i], Points[i], worker[w].read)
        /\ earn' = earn \union {i}
        /\ GoTo(w, "referrals")
        /\ UNCHANGED <<paid, bonus, spent, referral, request, crashes>>

\* The transaction of a second 'earn' violates the unique (invoice, kind), and
\* takes the credit back with it.
Earn(w) ==
    LET i == Current(w)
    IN  /\ At(w, "earn")
        /\ \/ /\ i \in earn
              /\ NextInvoice(w)
              /\ UNCHANGED <<account, earn>>
           \/ /\ i \notin earn
              /\ Credit(Owner[i], Points[i], worker[w].read)
              /\ earn' = earn \union {i}
              /\ GoTo(w, "referrals")
        /\ UNCHANGED <<paid, bonus, spent, referral, request, crashes>>

ListPending(w) ==
    LET pending == {r \in Referral : Referred[r] = Owner[Current(w)] /\ referral[r] = "pending"}
    IN  /\ At(w, "referrals")
        /\ \/ pending = {} /\ NextInvoice(w)
           \/ /\ pending # {}
              /\ Becomes(w, [worker[w] EXCEPT !.at = "referrer", !.pending = pending])
        /\ UNCHANGED <<paid, ledgerVars, referral, request, crashes>>

\* The referral in hand, of those the worker listed.
InHand(w) == CHOOSE r \in worker[w].pending : TRUE

GetReferrerAccount(w) ==
    LET c == Referrer[InHand(w)]
    IN  /\ At(w, "referrer")
        /\ \/ account[c].open /\ GoReading(w, "bonus", c)
           \/ ~account[c].open /\ GoTo(w, "createReferrer")
        /\ UNCHANGED <<paid, ledgerVars, referral, request, crashes>>

CreateReferrerAccount(w) ==
    LET c == Referrer[InHand(w)]
    IN  /\ At(w, "createReferrer")
        /\ \/ /\ account[c].open
              /\ NextInvoice(w)
              /\ UNCHANGED account
           \/ /\ ~account[c].open
              /\ account' = [account EXCEPT ![c] = NewAccount]
              /\ Becomes(w, [worker[w] EXCEPT !.at = "bonus", !.read = 0])
        /\ UNCHANGED <<paid, earn, bonus, spent, referral, request, crashes>>

\* Nothing makes a bonus unique: it has no invoice.
PayBonus(w) ==
    LET r == InHand(w)
    IN  /\ At(w, "bonus")
        /\ Credit(Referrer[r], Bonus[r], worker[w].read)
        /\ bonus' = [bonus EXCEPT ![r] = @ + 1]
        /\ GoTo(w, "reward")
        /\ UNCHANGED <<paid, earn, spent, referral, request, crashes>>

\* Mutant: a rewarded referral stays in the list.
MarkRewardedAgain(w) ==
    /\ At(w, "reward")
    /\ referral' = [referral EXCEPT ![InHand(w)] = "rewarded"]
    /\ GoTo(w, "referrer")
    /\ UNCHANGED <<paid, ledgerVars, request, crashes>>

MarkRewarded(w) ==
    LET rest == worker[w].pending \ {InHand(w)}
    IN  /\ At(w, "reward")
        /\ referral' = [referral EXCEPT ![InHand(w)] = "rewarded"]
        /\ \/ rest = {} /\ NextInvoice(w)
           \/ /\ rest # {}
              /\ Becomes(w, [worker[w] EXCEPT !.at = "referrer", !.pending = rest])
        /\ UNCHANGED <<paid, ledgerVars, request, crashes>>

\* The process stops, or an error other than P2002 ends its loop, and it is
\* restarted.
Crash(w) ==
    /\ worker[w] # Poll
    /\ crashes < MaxCrashes
    /\ crashes' = crashes + 1
    /\ Becomes(w, Poll)
    /\ UNCHANGED <<paid, ledgerVars, referral, request>>

-------------------------------------------------------------------------------
Redeem(p) ==
    /\ request[p] = Rest
    /\ \E c \in Contact, n \in Reward :
          /\ account[c].open
          /\ account[c].balance >= n
          /\ request' = [request EXCEPT ![p] = [at |-> "spend", by |-> c, points |-> n]]
    /\ UNCHANGED <<paid, ledgerVars, referral, worker, crashes>>

\* updateMany ... WHERE balance >= points, or the request is refused.
Spend(p) ==
    LET c == request[p].by
        n == request[p].points
    IN  /\ request[p] # Rest
        /\ \/ /\ account[c].balance >= n
              /\ account' = [account EXCEPT ![c].balance = @ - n]
              /\ spent' = [spent EXCEPT ![c] = @ + n]
           \/ /\ account[c].balance < n
              /\ UNCHANGED <<account, spent>>
        /\ request' = [request EXCEPT ![p] = Rest]
        /\ UNCHANGED <<paid, earn, bonus, referral, worker, crashes>>

WorkerStep(w) ==
    \/ ListUnearned(w) \/ GetAccount(w) \/ CreateAccount(w) \/ Earn(w)
    \/ ListPending(w) \/ GetReferrerAccount(w) \/ CreateReferrerAccount(w)
    \/ PayBonus(w) \/ MarkRewarded(w)

Next ==
    \/ \E i \in Invoice : PayInvoice(i)
    \/ \E r \in Referral : CreateReferral(r)
    \/ \E w \in Worker : WorkerStep(w) \/ Crash(w)
    \/ \E p \in Request : Redeem(p) \/ Spend(p)

Spec == Init /\ [][Next]_vars

\* The workers poll for ever.
FairSpec == Spec /\ \A w \in Worker : WF_vars(WorkerStep(w))

-------------------------------------------------------------------------------
\* What c was credited: the invoices it earned on, and the bonuses of its referrals.
BonusPaid == [r \in Referral |-> bonus[r] * Bonus[r]]
Credited(c) ==
    SumFunctionOnSet(Points, {i \in earn : Owner[i] = c})
    + SumFunctionOnSet(BonusPaid, {r \in Referral : Referrer[r] = c /\ bonus[r] > 0})

\* The lifetime points of a contact are those of its earned invoices, each once,
\* and of the bonuses on the ledger, and the balance is what was not spent,
\* whatever crashes, second workers and re-runs happen (applyPoints).
BalanceIsLedger ==
    \A c \in Contact :
        IF account[c].open
        THEN account[c].earned = Credited(c) /\ account[c].balance + spent[c] = Credited(c)
        ELSE Credited(c) = 0

\* A referral is rewarded only if its bonus was paid, and a crash or a second
\* worker can repeat a bonus at most once for each invoice the referred contact
\* earned on.
BonusPerEarning ==
    \A r \in Referral :
        /\ referral[r] = "rewarded" => bonus[r] > 0
        /\ bonus[r] <= Cardinality({i \in earn : Owner[i] = Referred[r]})

\* A stale total never promotes a customer above the tier its lifetime points
\* deserve (tierFor in processEarnings).
TierIsDeserved ==
    \A c \in Contact : account[c].open =>
        account[c].tier \in
            {"bronze"}
            \union (IF account[c].earned >= Silver THEN {"silver"} ELSE {})
            \union (IF account[c].earned >= Gold THEN {"gold"} ELSE {})

\* Every paid invoice worth points earns them in the end, though invoices worth
\* none stay in front of it in every batch (listUnearnedPaidInvoices); they must
\* be fewer than a batch holds.
PaidInvoiceEarns ==
    \A i \in Invoice :
        (Points[i] > 0 /\ \E k \in DOMAIN paid : paid[k] = i) ~> i \in earn
================================================================================
