-------------------------------- MODULE Reviews --------------------------------
(***************************************************************************)
(* Review requests: at most one per appointment on the one platform that   *)
(* the worker uses, created by staff or by the worker, delivered by either *)
(* through the transport, cancelled, answered by a review, or expired.     *)
(* Status is written unconditionally, on what was read before.             *)
(***************************************************************************)
EXTENDS Naturals

CONSTANTS Visit,  \* completed appointments past the grace period
          Staff,        \* API requests in flight at once
          Reviewer      \* review workers

ASSUME ReviewsAssumption == "none" \notin Visit

VARIABLES consent,    \* appointments whose contact consents now
          review,     \* review[a]: status of its request, "none" without one
          carried,    \* history: requests that the transport carried
          staff,      \* staff[s]: what request s does next and remembers
          reviewer    \* reviewer[w]: likewise for a worker, with its lists

reviewsVars == <<consent, review, carried, staff, reviewer>>

ReviewStatus == {"none", "created", "sent", "responded", "expired", "cancelled"}
StaffIdle == [at |-> "idle"]
NewPass == [at |-> "eligible"]

\* A pass of a worker: first the requests listed as created, then the eligible
\* appointments, then the requests listed as expired; doc is the one in hand.
Passing ==
    {r \in [at : {"created", "pick", "send", "mark", "sweep"},
            eligible : SUBSET Visit, created : SUBSET Visit,
            expired : SUBSET Visit, doc : Visit \union {"none"}] :
        r.at \in {"send", "mark"} => r.doc \in Visit}

ReviewsTypeOK ==
    /\ consent \in SUBSET Visit
    /\ review \in [Visit -> ReviewStatus]
    /\ carried \in SUBSET Visit
    /\ staff \in [Staff -> {StaffIdle} \union
                     [at : {"insert", "send", "sent", "cancelled", "responded"}, doc : Visit]]
    /\ reviewer \in [Reviewer -> {NewPass} \union Passing]

ReviewsInit ==
    /\ consent = Visit
    /\ review = [a \in Visit |-> "none"]
    /\ carried = {}
    /\ staff = [s \in Staff |-> StaffIdle]
    /\ reviewer = [w \in Reviewer |-> NewPass]

-------------------------------------------------------------------------------
SetReview(a, status) == review' = [review EXCEPT ![a] = status]
StaffDo(s, r) == staff' = [staff EXCEPT ![s] = r]
StaffBegin(s, step, a) == staff[s] = StaffIdle /\ StaffDo(s, [at |-> step, doc |-> a])
StaffGoTo(s, step) == StaffDo(s, [staff[s] EXCEPT !.at = step])
StaffEnds(s) == StaffDo(s, StaffIdle)

OptInOrOut(a) ==
    /\ consent' = IF a \in consent THEN consent \ {a} ELSE consent \union {a}
    /\ UNCHANGED <<review, carried, staff, reviewer>>

\* createRequest of the service refuses a contact that does not consent.
AskForReview(s, a) ==
    /\ a \in consent
    /\ StaffBegin(s, "insert", a)
    /\ UNCHANGED <<consent, review, carried, reviewer>>

\* Visit and platform are unique together.
InsertRequest(s) ==
    LET a == staff[s].doc
    IN  /\ staff[s].at = "insert"
        /\ review' = IF review[a] = "none" THEN [review EXCEPT ![a] = "created"] ELSE review
        /\ StaffEnds(s)
        /\ UNCHANGED <<consent, carried, reviewer>>

BeginSendReview(s, a) ==
    /\ review[a] = "created"
    /\ StaffBegin(s, "send", a)
    /\ UNCHANGED <<consent, review, carried, reviewer>>

StaffSend(s) ==
    /\ staff[s].at = "send"
    /\ carried' = carried \union {staff[s].doc}
    /\ StaffGoTo(s, "sent")
    /\ UNCHANGED <<consent, review, reviewer>>

\* Only a request that was not sent, nor closed, is cancelled.
BeginCancelReview(s, a) ==
    /\ review[a] = "created"
    /\ StaffBegin(s, "cancelled", a)
    /\ UNCHANGED <<consent, review, carried, reviewer>>

\* createReview with the id of a request, whatever its status.
BeginReview(s, a) ==
    /\ review[a] # "none"
    /\ StaffBegin(s, "responded", a)
    /\ UNCHANGED <<consent, review, carried, reviewer>>

UpdateRequestStatus(s) ==
    /\ staff[s].at \in {"sent", "cancelled", "responded"}
    /\ SetReview(staff[s].doc, staff[s].at)
    /\ StaffEnds(s)
    /\ UNCHANGED <<consent, carried, reviewer>>

\* The process stops, the transport carried nothing, or a statement rejects.
AbandonStaff(s) ==
    /\ staff[s] # StaffIdle
    /\ StaffEnds(s)
    /\ UNCHANGED <<consent, review, carried, reviewer>>

-------------------------------------------------------------------------------
PassAt(w, step) == reviewer[w].at = step
PassDo(w, r) == reviewer' = [reviewer EXCEPT ![w] = r]
PassGoTo(w, step) == PassDo(w, [reviewer[w] EXCEPT !.at = step])

\* automateRequests lists the appointments first ...
ListEligible(w) ==
    /\ PassAt(w, "eligible")
    /\ PassDo(w, [at |-> "created", created |-> {}, expired |-> {}, doc |-> "none",
                  eligible |-> {a \in consent : review[a] = "none"}])
    /\ UNCHANGED <<consent, review, carried, staff>>

\* Mutant: requests that were cancelled are listed with those that wait.
ListUnsent(w) ==
    /\ PassAt(w, "created")
    /\ PassDo(w, [reviewer[w] EXCEPT !.at = "pick",
                     !.created = {a \in Visit : review[a] \in {"created", "cancelled"}}])
    /\ UNCHANGED <<consent, review, carried, staff>>

\* ... and then the requests that wait to be sent.
ListCreated(w) ==
    /\ PassAt(w, "created")
    /\ PassDo(w, [reviewer[w] EXCEPT !.at = "pick",
                     !.created = {a \in Visit : review[a] = "created"}])
    /\ UNCHANGED <<consent, review, carried, staff>>

PickCreated(w, a) ==
    /\ PassAt(w, "pick")
    /\ a \in reviewer[w].created
    /\ PassDo(w, [reviewer[w] EXCEPT !.at = "send", !.created = @ \ {a}, !.doc = a])
    /\ UNCHANGED <<consent, review, carried, staff>>

\* createRequest for an eligible appointment; one that has a request by now is
\* passed over.
CreateForEligible(w, a) ==
    /\ PassAt(w, "pick")
    /\ reviewer[w].created = {}
    /\ a \in reviewer[w].eligible
    /\ LET rest == [reviewer[w] EXCEPT !.eligible = @ \ {a}]
       IN  \/ /\ review[a] = "none"
              /\ SetReview(a, "created")
              /\ PassDo(w, [rest EXCEPT !.at = "send", !.doc = a])
           \/ /\ review[a] # "none"
              /\ PassDo(w, rest)
              /\ UNCHANGED review
    /\ UNCHANGED <<consent, carried, staff>>

SendReview(w) ==
    /\ PassAt(w, "send")
    /\ carried' = carried \union {reviewer[w].doc}
    /\ PassGoTo(w, "mark")
    /\ UNCHANGED <<consent, review, staff>>

MarkReviewSent(w) ==
    /\ PassAt(w, "mark")
    /\ SetReview(reviewer[w].doc, "sent")
    /\ PassDo(w, [reviewer[w] EXCEPT !.at = "pick", !.doc = "none"])
    /\ UNCHANGED <<consent, carried, staff>>

\* Transport or update rejects: the request stays as it is for the next pass.
SendFails(w) ==
    /\ reviewer[w].at \in {"send", "mark"}
    /\ PassDo(w, [reviewer[w] EXCEPT !.at = "pick", !.doc = "none"])
    /\ UNCHANGED <<consent, review, carried, staff>>

\* sweepExpiredRequests lists those sent whose time is over, and marks each.
ListExpired(w) ==
    /\ PassAt(w, "pick")
    /\ reviewer[w].created = {} /\ reviewer[w].eligible = {}
    /\ \E over \in SUBSET {a \in Visit : review[a] = "sent"} :
          PassDo(w, [reviewer[w] EXCEPT !.at = "sweep", !.expired = over])
    /\ UNCHANGED <<consent, review, carried, staff>>

SweepExpired(w) ==
    /\ PassAt(w, "sweep")
    /\ \/ \E a \in reviewer[w].expired :
             /\ SetReview(a, "expired")
             /\ PassDo(w, [reviewer[w] EXCEPT !.expired = @ \ {a}])
       \/ /\ reviewer[w].expired = {}
          /\ PassDo(w, NewPass)
          /\ UNCHANGED review
    /\ UNCHANGED <<consent, carried, staff>>

\* A statement outside the inner catch rejects or the process stops; it starts anew.
RestartPass(w) ==
    /\ reviewer[w] # NewPass
    /\ PassDo(w, NewPass)
    /\ UNCHANGED <<consent, review, carried, staff>>

ReviewsNext ==
    \/ \E a \in Visit : OptInOrOut(a)
    \/ \E s \in Staff :
          \/ \E a \in Visit : \/ AskForReview(s, a) \/ BeginSendReview(s, a)
                                    \/ BeginCancelReview(s, a) \/ BeginReview(s, a)
          \/ InsertRequest(s) \/ StaffSend(s) \/ UpdateRequestStatus(s) \/ AbandonStaff(s)
    \/ \E w \in Reviewer :
          \/ \E a \in Visit : PickCreated(w, a) \/ CreateForEligible(w, a)
          \/ ListEligible(w) \/ ListCreated(w) \/ SendReview(w) \/ MarkReviewSent(w) \/ SendFails(w)
          \/ ListExpired(w) \/ SweepExpired(w) \/ RestartPass(w)

ReviewsSpec == ReviewsInit /\ [][ReviewsNext]_reviewsVars

-------------------------------------------------------------------------------
\* Nobody is about to deliver the request or to write what follows from a delivery.
Unheld(a) ==
    /\ \A s \in Staff : staff[s].at \in {"send", "sent"} => staff[s].doc # a
    /\ \A w \in Reviewer : reviewer[w] # NewPass =>
          a \notin reviewer[w].created \union reviewer[w].expired \union {reviewer[w].doc}

\* A cancelled request that nobody has in hand is never taken up, delivered or
\* marked again, whoever polls: only a review answers it (transition,
\* automateRequests, sweepExpiredRequests write whatever the status is by then).
CancelledIsLeftAlone ==
    [][\A a \in Visit : review[a] = "cancelled" /\ Unheld(a)
          => Unheld(a)' /\ review'[a] \in {"cancelled", "responded"}]_reviewsVars
================================================================================
