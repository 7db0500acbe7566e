----------------------------- MODULE ContactProofs -----------------------------
(***************************************************************************)
(* What is kept about a contact: which review requests stay cancelled,     *)
(* what an erasure leaves behind and what transcription may bring back,    *)
(* for any number of visits, messages, staff, requests and workers.        *)
(***************************************************************************)
EXTENDS Reviews, Erasure, TLAPS

(* Reviews: no step takes up a cancelled request that nobody holds.         *)

\* The property of a step, and the types after it.
ReviewKeeps == /\ ReviewsTypeOK'
         /\ \A a \in Visit : review[a] = "cancelled" /\ Unheld(a)
               => Unheld(a)' /\ review'[a] \in {"cancelled", "responded"}

StaffSteps == {"insert", "send", "sent", "cancelled", "responded"}

LEMMA InitType == ReviewsInit => ReviewsTypeOK
  BY DEF ReviewsInit, ReviewsTypeOK, ReviewStatus, StaffIdle, NewPass

\* Who is somewhere else than at the start has a document, and a worker its lists.
LEMMA StaffBusy ==
    ASSUME ReviewsTypeOK, NEW s \in Staff, staff[s] # StaffIdle
    PROVE  staff[s] \in [at : StaffSteps, doc : Visit]
  BY DEF ReviewsTypeOK, StaffSteps

LEMMA WorkerBusy ==
    ASSUME ReviewsTypeOK, NEW w \in Reviewer, reviewer[w].at # "eligible"
    PROVE  reviewer[w] \in Passing
  BY DEF ReviewsTypeOK, NewPass

-------------------------------------------------------------------------------
(* Staff *)

LEMMA StaffType ==
    ASSUME ReviewsTypeOK, NEW s \in Staff,
           NEW r \in {StaffIdle} \union [at : StaffSteps, doc : Visit], StaffDo(s, r)
    PROVE  /\ staff' \in [Staff -> {StaffIdle} \union [at : StaffSteps, doc : Visit]]
           /\ staff'[s] = r
           /\ \A t \in Staff \ {s} : staff'[t] = staff[t]
  BY DEF ReviewsTypeOK, StaffDo, StaffSteps

\* What "cancelled and in nobody's hands" needs of a step of staff: it does not take
\* such a document up to deliver it, and changes only the status it may.
StaffKeepsOff(s, r) ==
    /\ \A a \in Visit : review[a] = "cancelled" /\ Unheld(a) =>
          /\ review'[a] \in {"cancelled", "responded"}
          /\ r.at \in {"send", "sent"} => r.doc # a
    /\ review' \in [Visit -> ReviewStatus]

LEMMA StaffDoes ==
    ASSUME ReviewsTypeOK, NEW s \in Staff,
           NEW r \in {StaffIdle} \union [at : StaffSteps, doc : Visit], StaffDo(s, r),
           StaffKeepsOff(s, r), carried' \in SUBSET Visit, UNCHANGED <<consent, reviewer>>
    PROVE  ReviewKeeps
<1>1. ReviewsTypeOK'
  BY StaffType DEF ReviewsTypeOK, StaffKeepsOff, StaffSteps
<1>2. ASSUME NEW a \in Visit, review[a] = "cancelled", Unheld(a) PROVE Unheld(a)'
  <2>1. \A t \in Staff : staff'[t].at \in {"send", "sent"} => staff'[t].doc # a
    BY <1>2, StaffType DEF Unheld, StaffKeepsOff
  <2> QED
    BY <1>2, <2>1 DEF Unheld
<1> QED
  BY <1>1, <1>2 DEF StaffKeepsOff, ReviewKeeps

LEMMA StaffBegins ==
    ASSUME ReviewsTypeOK, NEW s \in Staff, NEW a \in Visit,
           \/ AskForReview(s, a) \/ BeginSendReview(s, a)
           \/ BeginCancelReview(s, a) \/ BeginReview(s, a)
    PROVE  ReviewKeeps
<1>1. PICK step \in StaffSteps : /\ StaffDo(s, [at |-> step, doc |-> a])
                                 /\ step \in {"send", "sent"} => review[a] = "created"
  BY DEF AskForReview, BeginSendReview, BeginCancelReview, BeginReview, StaffBegin, StaffSteps
<1>2. UNCHANGED <<consent, review, carried, reviewer>>
  BY DEF AskForReview, BeginSendReview, BeginCancelReview, BeginReview
<1>3. StaffKeepsOff(s, [at |-> step, doc |-> a])
  BY <1>1, <1>2 DEF StaffKeepsOff, ReviewsTypeOK
<1> QED
  BY <1>1, <1>2, <1>3, StaffDoes DEF ReviewsTypeOK

LEMMA StaffGoesOn ==
    ASSUME ReviewsTypeOK, NEW s \in Staff,
           InsertRequest(s) \/ StaffSend(s) \/ UpdateRequestStatus(s) \/ AbandonStaff(s)
    PROVE  ReviewKeeps
<1>1. staff[s] # StaffIdle
  BY DEF InsertRequest, StaffSend, UpdateRequestStatus, AbandonStaff, StaffIdle
<1>2. staff[s] \in [at : StaffSteps, doc : Visit]
  BY <1>1, StaffBusy
<1>3. CASE InsertRequest(s)
  <2>1. StaffKeepsOff(s, StaffIdle)
    BY <1>2, <1>3 DEF InsertRequest, StaffKeepsOff, StaffIdle, ReviewsTypeOK, ReviewStatus
  <2> QED
    BY <1>3, <2>1, StaffDoes DEF InsertRequest, StaffEnds, ReviewsTypeOK
<1>4. CASE StaffSend(s)
  <2> DEFINE r == [staff[s] EXCEPT !.at = "sent"]
  <2>1. r \in [at : StaffSteps, doc : Visit] /\ r.doc = staff[s].doc
    BY <1>2 DEF StaffSteps
  <2>2. StaffKeepsOff(s, r)
    BY <1>4, <2>1 DEF StaffSend, StaffKeepsOff, Unheld, ReviewsTypeOK
  <2> QED
    BY <1>2, <1>4, <2>1, <2>2, StaffDoes DEF StaffSend, StaffGoTo, ReviewsTypeOK
<1>5. CASE UpdateRequestStatus(s)
  <2>1. review' \in [Visit -> ReviewStatus]
    BY <1>2, <1>5 DEF UpdateRequestStatus, SetReview, ReviewsTypeOK, ReviewStatus
  <2>2. StaffKeepsOff(s, StaffIdle)
    BY <1>2, <1>5, <2>1 DEF UpdateRequestStatus, SetReview, StaffKeepsOff, Unheld, StaffIdle, ReviewsTypeOK
  <2> QED
    BY <1>5, <2>2, StaffDoes DEF UpdateRequestStatus, StaffEnds, ReviewsTypeOK
<1>6. CASE AbandonStaff(s)
  <2>1. StaffKeepsOff(s, StaffIdle)
    BY <1>6 DEF AbandonStaff, StaffKeepsOff, StaffIdle, ReviewsTypeOK
  <2> QED
    BY <1>6, <2>1, StaffDoes DEF AbandonStaff, StaffEnds, ReviewsTypeOK
<1> QED
  BY <1>3, <1>4, <1>5, <1>6

-------------------------------------------------------------------------------
(* Workers *)

InHandOf(r) == IF r = NewPass THEN {} ELSE r.created \union r.expired \union {r.doc}

\* A worker moves to r: it takes nothing cancelled up, and marks nothing cancelled
\* that it did not have.
LEMMA WorkerDoes ==
    ASSUME ReviewsTypeOK, NEW w \in Reviewer, NEW r \in {NewPass} \union Passing, PassDo(w, r),
           \A a \in InHandOf(r) : a \in InHandOf(reviewer[w]) \/ a \notin Visit \/ review[a] # "cancelled",
           review' \in [Visit -> ReviewStatus],
           \A a \in Visit : review'[a] # review[a] =>
               a \in InHandOf(reviewer[w]) \/ review[a] # "cancelled",
           carried' \in SUBSET Visit, UNCHANGED <<consent, staff>>
    PROVE  ReviewKeeps
<1>1. /\ reviewer' \in [Reviewer -> {NewPass} \union Passing]
      /\ reviewer'[w] = r
      /\ \A v \in Reviewer \ {w} : reviewer'[v] = reviewer[v]
  BY DEF ReviewsTypeOK, PassDo
<1>2. ReviewsTypeOK'
  BY <1>1 DEF ReviewsTypeOK
<1>3. ASSUME NEW a \in Visit, review[a] = "cancelled", Unheld(a)
      PROVE  Unheld(a)' /\ review'[a] = "cancelled"
  <2>1. \A v \in Reviewer : a \notin InHandOf(reviewer[v])
    BY <1>3 DEF Unheld, InHandOf
  <2>2. review'[a] = "cancelled"
    BY <1>3, <2>1
  <2>3. \A v \in Reviewer : a \notin InHandOf(reviewer'[v])
    BY <1>1, <1>3, <2>1
  <2>4. Unheld(a)'
    BY <1>3, <2>3 DEF Unheld, InHandOf
  <2> QED
    BY <2>2, <2>4
<1> QED
  BY <1>2, <1>3 DEF ReviewKeeps

\* What a worker at work has: its lists and its document.
LEMMA PassType ==
    ASSUME ReviewsTypeOK, NEW w \in Reviewer, reviewer[w].at # "eligible"
    PROVE  /\ reviewer[w] \in Passing /\ reviewer[w] # NewPass
           /\ InHandOf(reviewer[w]) =
                reviewer[w].created \union reviewer[w].expired \union {reviewer[w].doc}
  BY WorkerBusy DEF Passing, NewPass, InHandOf

\* A worker that goes on with r, of which nothing but x is new, and x is not cancelled.
LEMMA WorkerGoes ==
    ASSUME ReviewsTypeOK, NEW w \in Reviewer, NEW r \in Passing, PassDo(w, r),
           NEW x \in SUBSET Visit, \A a \in x : review[a] # "cancelled",
           r.created \union r.expired \union {r.doc} \subseteq InHandOf(reviewer[w]) \union x \union {"none"},
           review' \in [Visit -> ReviewStatus],
           \A a \in Visit : review'[a] # review[a] =>
               a \in InHandOf(reviewer[w]) \/ review[a] # "cancelled",
           carried' \in SUBSET Visit, UNCHANGED <<consent, staff>>
    PROVE  ReviewKeeps
<1>1. \A a \in InHandOf(r) : a \in InHandOf(reviewer[w]) \/ a \notin Visit \/ review[a] # "cancelled"
  BY ReviewsAssumption DEF InHandOf
<1> QED
  BY <1>1, WorkerDoes

LEMMA WorkerStays ==
    ASSUME ReviewsTypeOK, NEW w \in Reviewer, NEW r \in Passing, PassDo(w, r),
           r.created \union r.expired \union {r.doc} \subseteq InHandOf(reviewer[w]) \union {"none"},
           review' \in [Visit -> ReviewStatus],
           \A a \in Visit : review'[a] # review[a] =>
               a \in InHandOf(reviewer[w]) \/ review[a] # "cancelled",
           carried' \in SUBSET Visit, UNCHANGED <<consent, staff>>
    PROVE  ReviewKeeps
<1>1. {} \in SUBSET Visit /\ \A a \in {} : review[a] # "cancelled"
  OBVIOUS
<1> QED
  BY <1>1, WorkerGoes

\* Steps that list requests: none of them is cancelled.
LEMMA WorkerLists ==
    ASSUME ReviewsTypeOK, NEW w \in Reviewer, ListEligible(w) \/ ListCreated(w) \/ ListExpired(w)
    PROVE  ReviewKeeps
<1> DEFINE old == reviewer[w]
<1>1. UNCHANGED <<consent, review, carried, staff>>
  BY DEF ListEligible, ListCreated, ListExpired
<1>2. CASE ListEligible(w)
  <2> DEFINE r == [at |-> "created", created |-> {}, expired |-> {}, doc |-> "none",
                   eligible |-> {a \in consent : review[a] = "none"}]
  <2>1. r \in Passing
    BY DEF Passing, ReviewsTypeOK
  <2> QED
    BY <1>1, <1>2, <2>1, WorkerGoes DEF ListEligible, ReviewsTypeOK
<1>3. CASE ListCreated(w)
  <2> DEFINE x == {a \in Visit : review[a] = "created"}
             r == [old EXCEPT !.at = "pick", !.created = x]
  <2>1. old \in Passing /\ InHandOf(old) = old.created \union old.expired \union {old.doc}
    BY <1>3, PassType DEF ListCreated, PassAt
  <2>2. r \in Passing /\ r.created = x /\ r.expired = old.expired /\ r.doc = old.doc
    BY <2>1 DEF Passing
  <2>3. PassDo(w, r) /\ x \in SUBSET Visit /\ \A a \in x : review[a] # "cancelled"
    BY <1>3 DEF ListCreated
  <2> HIDE DEF r, x
  <2> QED
    BY <1>1, <2>1, <2>2, <2>3, WorkerGoes DEF ReviewsTypeOK
<1>4. CASE ListExpired(w)
  <2>1. PICK x \in SUBSET {a \in Visit : review[a] = "sent"} :
            PassDo(w, [old EXCEPT !.at = "sweep", !.expired = x])
    BY <1>4 DEF ListExpired
  <2> DEFINE r == [old EXCEPT !.at = "sweep", !.expired = x]
  <2>2. old \in Passing /\ InHandOf(old) = old.created \union old.expired \union {old.doc}
    BY <1>4, PassType DEF ListExpired, PassAt
  <2>3. r \in Passing /\ r.created = old.created /\ r.expired = x /\ r.doc = old.doc
    BY <2>2 DEF Passing
  <2>4. PassDo(w, r) /\ x \in SUBSET Visit /\ \A a \in x : review[a] # "cancelled"
    BY <2>1
  <2> HIDE DEF r
  <2> QED
    BY <1>1, <2>2, <2>3, <2>4, WorkerGoes DEF ReviewsTypeOK
<1> QED
  BY <1>2, <1>3, <1>4

\* Steps that take up or put down a document.
LEMMA WorkerPicks ==
    ASSUME ReviewsTypeOK, NEW w \in Reviewer, NEW a \in Visit,
           PickCreated(w, a) \/ CreateForEligible(w, a)
    PROVE  ReviewKeeps
<1> DEFINE old == reviewer[w]
<1>1. old \in Passing /\ InHandOf(old) = old.created \union old.expired \union {old.doc}
  BY PassType DEF PickCreated, CreateForEligible, PassAt
<1>2. CASE PickCreated(w, a)
  <2> DEFINE left == old.created \ {a}
             r == [old EXCEPT !.at = "send", !.created = left, !.doc = a]
  <2>1. r \in Passing /\ r.created = left /\ r.expired = old.expired /\ r.doc = a
    BY <1>1 DEF Passing
  <2>2. PassDo(w, r) /\ a \in old.created /\ UNCHANGED <<consent, review, carried, staff>>
    BY <1>2 DEF PickCreated
  <2> HIDE DEF r
  <2> QED
    BY <1>1, <2>1, <2>2, WorkerStays DEF ReviewsTypeOK
<1>3. CASE CreateForEligible(w, a)
  <2> DEFINE rest == [old EXCEPT !.eligible = old.eligible \ {a}]
             r == [rest EXCEPT !.at = "send", !.doc = a]
  <2>1. /\ rest \in Passing
        /\ rest.created = old.created /\ rest.expired = old.expired /\ rest.doc = old.doc
    BY <1>1, <1>3 DEF Passing, CreateForEligible, PassAt
  <2>2. UNCHANGED <<consent, carried, staff>>
    BY <1>3 DEF CreateForEligible
  <2>3. CASE review[a] = "none" /\ SetReview(a, "created") /\ PassDo(w, r)
    <3> HIDE DEF rest
    <3>1. r \in Passing /\ r.created = old.created /\ r.expired = old.expired /\ r.doc = a
      BY <2>1 DEF Passing
    <3>2. /\ review' \in [Visit -> ReviewStatus]
          /\ \A v \in Visit : review'[v] # review[v] => review[v] # "cancelled"
      BY <2>3 DEF SetReview, ReviewsTypeOK, ReviewStatus
    <3> DEFINE x == {a}
    <3>3. PassDo(w, r) /\ x \in SUBSET Visit /\ \A v \in x : review[v] # "cancelled"
      BY <2>3
    <3>4. r.created \union r.expired \union {r.doc} \subseteq InHandOf(old) \union x \union {"none"}
      BY <1>1, <3>1
    <3>5. \A v \in Visit : review'[v] # review[v] => v \in InHandOf(old) \/ review[v] # "cancelled"
      BY <3>2
    <3>6. carried' \in SUBSET Visit
      BY <2>2 DEF ReviewsTypeOK
    <3> HIDE DEF r, x, old
    <3> QED
      BY <2>2, <3>1, <3>2, <3>3, <3>4, <3>5, <3>6, WorkerGoes DEF old
  <2>4. CASE PassDo(w, rest) /\ UNCHANGED review
    <3> HIDE DEF rest
    <3> QED
      BY <1>1, <2>1, <2>2, <2>4, WorkerStays DEF ReviewsTypeOK
  <2> QED
    BY <1>3, <2>3, <2>4 DEF CreateForEligible
<1> QED
  BY <1>2, <1>3

LEMMA WorkerSends ==
    ASSUME ReviewsTypeOK, NEW w \in Reviewer, SendReview(w) \/ MarkReviewSent(w) \/ SendFails(w)
    PROVE  ReviewKeeps
<1> DEFINE old == reviewer[w]
<1>1. old \in Passing /\ InHandOf(old) = old.created \union old.expired \union {old.doc}
  BY PassType DEF SendReview, MarkReviewSent, SendFails, PassAt
<1>2. CASE SendReview(w)
  <2> DEFINE r == [old EXCEPT !.at = "mark"]
  <2>1. r \in Passing /\ r.created = old.created /\ r.expired = old.expired /\ r.doc = old.doc
    BY <1>1, <1>2 DEF Passing, SendReview, PassAt
  <2>2. PassDo(w, r) /\ UNCHANGED <<consent, review, staff>> /\ carried' = carried \union {old.doc}
    BY <1>2 DEF SendReview, PassGoTo
  <2>3. old.doc \in Visit
    BY <1>1, <1>2 DEF SendReview, PassAt, Passing
  <2> HIDE DEF r
  <2> QED
    BY <1>1, <2>1, <2>2, <2>3, WorkerStays DEF ReviewsTypeOK
<1> DEFINE free == [old EXCEPT !.at = "pick", !.doc = "none"]
<1>3. free \in Passing /\ free.created = old.created /\ free.expired = old.expired /\ free.doc = "none"
  BY <1>1 DEF Passing
<1>4. CASE MarkReviewSent(w)
  <2>1. PassDo(w, free) /\ UNCHANGED <<consent, carried, staff>>
    BY <1>4 DEF MarkReviewSent
  <2>2. /\ review' \in [Visit -> ReviewStatus]
        /\ \A v \in Visit : review'[v] # review[v] => v = old.doc
    BY <1>4 DEF MarkReviewSent, SetReview, ReviewsTypeOK, ReviewStatus
  <2> HIDE DEF free
  <2> QED
    BY <1>1, <1>3, <2>1, <2>2, WorkerStays DEF ReviewsTypeOK
<1>5. CASE SendFails(w)
  <2>1. PassDo(w, free) /\ UNCHANGED <<consent, review, carried, staff>>
    BY <1>5 DEF SendFails
  <2> HIDE DEF free
  <2> QED
    BY <1>1, <1>3, <2>1, WorkerStays DEF ReviewsTypeOK
<1> QED
  BY <1>2, <1>4, <1>5

LEMMA WorkerSweeps ==
    ASSUME ReviewsTypeOK, NEW w \in Reviewer, SweepExpired(w) \/ RestartPass(w)
    PROVE  ReviewKeeps
<1> DEFINE old == reviewer[w]
<1>1. CASE PassDo(w, NewPass) /\ UNCHANGED <<consent, review, carried, staff>>
  BY <1>1, WorkerDoes DEF InHandOf, ReviewsTypeOK
<1>2. ASSUME NEW a \in old.expired, SweepExpired(w), SetReview(a, "expired"),
             PassDo(w, [old EXCEPT !.expired = @ \ {a}])
      PROVE  ReviewKeeps
  <2> DEFINE r == [old EXCEPT !.expired = @ \ {a}]
  <2>1. old \in Passing /\ InHandOf(old) = old.created \union old.expired \union {old.doc}
    BY <1>2, PassType DEF SweepExpired, PassAt
  <2>2. r \in Passing /\ r.created = old.created /\ r.expired = old.expired \ {a} /\ r.doc = old.doc
    BY <1>2, <2>1 DEF Passing, SweepExpired, PassAt
  <2>3. PassDo(w, r) /\ UNCHANGED <<consent, carried, staff>>
    BY <1>2 DEF SweepExpired
  <2>4. /\ review' \in [Visit -> ReviewStatus]
        /\ \A v \in Visit : review'[v] # review[v] => v = a
    BY <1>2 DEF SetReview, ReviewsTypeOK, ReviewStatus
  <2> HIDE DEF r
  <2> QED
    BY <2>1, <2>2, <2>3, <2>4, WorkerStays DEF ReviewsTypeOK
<1> QED
  BY <1>1, <1>2 DEF SweepExpired, RestartPass

LEMMA StepKeeps == ReviewsTypeOK /\ [ReviewsNext]_reviewsVars => ReviewKeeps
<1> SUFFICES ASSUME ReviewsTypeOK, [ReviewsNext]_reviewsVars PROVE ReviewKeeps
  OBVIOUS
<1>1. CASE consent' \in SUBSET Visit /\ UNCHANGED <<review, carried, staff, reviewer>>
  BY <1>1 DEF ReviewKeeps, ReviewsTypeOK, Unheld
<1>2. CASE UNCHANGED reviewsVars
  BY <1>1, <1>2 DEF reviewsVars, ReviewsTypeOK
<1>3. ASSUME NEW a \in Visit, OptInOrOut(a) PROVE ReviewKeeps
  BY <1>1, <1>3 DEF OptInOrOut, ReviewsTypeOK
<1> QED
  BY <1>2, <1>3, StaffBegins, StaffGoesOn, WorkerLists, WorkerPicks, WorkerSends, WorkerSweeps
  DEF ReviewsNext

\* Requests, staff and workers keep their types: what a worker is about to deliver
\* is a visit, never the empty hand.
THEOREM ReviewsTypeCorrect == ReviewsSpec => []ReviewsTypeOK
<1>1. ReviewsTypeOK /\ [ReviewsNext]_reviewsVars => ReviewsTypeOK'
  BY StepKeeps DEF ReviewKeeps
<1> QED
  BY <1>1, InitType, PTL DEF ReviewsSpec

\* A cancelled request in nobody's hands is neither taken up nor marked again,
\* except that a review answers it, for any number of staff and workers.
THEOREM CancelledStays == ReviewsSpec => CancelledIsLeftAlone
<1>1. ReviewsTypeOK /\ [ReviewsNext]_reviewsVars =>
          [\A a \in Visit : review[a] = "cancelled" /\ Unheld(a)
              => Unheld(a)' /\ review'[a] \in {"cancelled", "responded"}]_reviewsVars
  BY StepKeeps DEF ReviewKeeps
<1> QED
  BY <1>1, ReviewsTypeCorrect, PTL DEF ReviewsSpec, CancelledIsLeftAlone

-------------------------------------------------------------------------------
(* Erasure: what a clerk has read covers whatever did not come too late.    *)

ClerkState == {ClerkIdle} \union Filing \union Erasing

ContentType ==
    /\ body \in [ContactMessage -> Content] /\ file \in [ContactMessage -> Content]
    /\ late \subseteq ContactMessage
    /\ request \in [PrivacyRequest -> {"none", "pending", "completed"}]
    /\ clerk \in [Clerk -> ClerkState]

FilesHaveBodies == \A m \in ContactMessage : file[m] # "none" => body[m] # "none"

\* A clerk at r knows of all that is stored, but for what came late.
Knows(r) ==
    /\ \A m \in ContactMessage \ late :
          /\ r.at \in {"contact", "files", "texts", "commit"} /\ body[m] = "stored" => m \in r.ids
          /\ r.at \in {"contact", "files"} /\ file[m] = "stored" => m \in r.ids
          /\ r.at \in {"texts", "commit"} /\ file[m] = "stored" => m \in r.files
          /\ r.at = "complete" => body[m] # "stored" /\ file[m] # "stored"
    /\ \A m \in ContactMessage :
          r.at \in {"texts", "commit"} /\ m \in r.files => file[m] # "none"

CInv ==
    /\ ContentType /\ FilesHaveBodies
    /\ \A c \in Clerk : Knows(clerk[c])
    /\ SurvivorsCameLate

LEMMA CInit == ErasureInit => CInv
  BY DEF ErasureInit, CInv, ContentType, ClerkState, Content, FilesHaveBodies, Knows,
     SurvivorsCameLate, ClerkIdle

LEMMA ErasingAt ==
    ASSUME ContentType, NEW c \in Clerk,
           clerk[c].at \in {"messages", "contact", "files", "texts", "commit", "complete"}
    PROVE  clerk[c] \in Erasing
  BY DEF ContentType, ClerkState, ClerkIdle, Filing

\* A clerk moves to r, which knows enough, and the contact's data stays.
LEMMA ClerkMoves ==
    ASSUME CInv, NEW c \in Clerk, NEW r \in ClerkState, ClerkDo(c, r), UNCHANGED contentVars,
           Knows(r), request' \in [PrivacyRequest -> {"none", "pending", "completed"}],
           \A q \in PrivacyRequest : request'[q] = "completed" =>
               request[q] = "completed" \/ clerk[c].at = "complete"
    PROVE  CInv'
<1>1. /\ clerk' \in [Clerk -> ClerkState]
      /\ clerk'[c] = r
      /\ \A d \in Clerk \ {c} : clerk'[d] = clerk[d]
  BY DEF CInv, ContentType, ClerkDo
<1>2. ContentType' /\ FilesHaveBodies'
  BY <1>1 DEF CInv, ContentType, FilesHaveBodies, contentVars
<1>3. \A d \in Clerk : Knows(clerk[d])'
  BY <1>1 DEF CInv, Knows, contentVars
<1>4. SurvivorsCameLate'
  <2>1. CASE clerk[c].at = "complete"
    BY <2>1 DEF CInv, Knows, SurvivorsCameLate, contentVars
  <2>2. CASE clerk[c].at # "complete"
    BY <2>2 DEF CInv, SurvivorsCameLate, contentVars
  <2> QED
    BY <2>1, <2>2
<1> QED
  BY <1>2, <1>3, <1>4 DEF CInv

LEMMA ClerkFiles ==
    ASSUME CInv, NEW c \in Clerk,
           \/ \E q \in PrivacyRequest : FindOpenRequest(c, q) \/ ProcessRequest(c, q)
           \/ CreateRequest(c) \/ CompleteRequest(c) \/ AbandonRequest(c)
    PROVE  CInv'
<1>1. UNCHANGED contentVars
  BY DEF FindOpenRequest, ProcessRequest, CreateRequest, CompleteRequest, AbandonRequest, contentVars
<1>2. request \in [PrivacyRequest -> {"none", "pending", "completed"}]
  BY DEF CInv, ContentType
<1>3. ASSUME NEW q \in PrivacyRequest, FindOpenRequest(c, q) PROVE CInv'
  <2> DEFINE r == [at |-> "create", req |-> q]
  <2>1. r \in ClerkState /\ Knows(r)
    BY DEF ClerkState, Filing, Knows
  <2> QED
    BY <1>1, <1>2, <1>3, <2>1, ClerkMoves DEF FindOpenRequest
<1>4. ASSUME NEW q \in PrivacyRequest, ProcessRequest(c, q) PROVE CInv'
  <2> DEFINE r == [at |-> "messages", req |-> q, ids |-> {}, files |-> {}, texts |-> {}]
  <2>1. r \in ClerkState /\ Knows(r)
    BY DEF ClerkState, Erasing, Knows
  <2> QED
    BY <1>1, <1>2, <1>4, <2>1, ClerkMoves DEF ProcessRequest
<1>5. ClerkIdle \in ClerkState /\ Knows(ClerkIdle)
  BY DEF ClerkState, ClerkIdle, Knows
<1>6. CASE CreateRequest(c)
  BY <1>1, <1>2, <1>5, <1>6, ClerkMoves DEF CreateRequest
<1>7. CASE CompleteRequest(c)
  BY <1>1, <1>2, <1>5, <1>7, ClerkMoves DEF CompleteRequest, ClerkAt
<1>8. CASE AbandonRequest(c)
  BY <1>1, <1>2, <1>5, <1>8, ClerkMoves DEF AbandonRequest
<1> QED
  BY <1>3, <1>4, <1>6, <1>7, <1>8

LEMMA ClerkReads ==
    ASSUME CInv, NEW c \in Clerk,
           ReadMessageIds(c) \/ RedactContact(c) \/ RedactFiles(c) \/ RedactTexts(c)
    PROVE  CInv'
<1> DEFINE old == clerk[c]
<1>1. UNCHANGED contentVars /\ UNCHANGED request
  BY DEF ReadMessageIds, RedactContact, RedactFiles, RedactTexts, contentVars
<1>2. /\ old \in Erasing /\ Knows(old)
      /\ request \in [PrivacyRequest -> {"none", "pending", "completed"}]
  BY ErasingAt DEF ReadMessageIds, RedactContact, RedactFiles, RedactTexts, ClerkAt, CInv, ContentType
<1>3. CASE ReadMessageIds(c)
  <2> DEFINE there == {m \in ContactMessage : body[m] # "none"}
             r == [old EXCEPT !.at = "contact", !.ids = there]
  <2>1. r \in ClerkState /\ r.at = "contact" /\ r.ids = there
    BY <1>2 DEF Erasing, ClerkState
  <2>2. Knows(r)
    BY <2>1 DEF Knows, CInv, FilesHaveBodies
  <2> QED
    BY <1>1, <1>2, <1>3, <2>1, <2>2, ClerkMoves DEF ReadMessageIds
<1>4. CASE RedactContact(c)
  <2> DEFINE r == [old EXCEPT !.at = "files"]
  <2>1. r \in ClerkState /\ r.at = "files" /\ r.ids = old.ids
    BY <1>2 DEF Erasing, ClerkState
  <2>2. Knows(r)
    BY <1>2, <1>4, <2>1 DEF Knows, RedactContact, ClerkAt
  <2> QED
    BY <1>1, <1>2, <1>4, <2>1, <2>2, ClerkMoves DEF RedactContact, ClerkGoTo
<1>5. CASE RedactFiles(c)
  <2> DEFINE there == {m \in old.files \union old.ids : file[m] # "none"}
             r == [old EXCEPT !.at = "texts", !.files = there]
  <2>1. there \subseteq ContactMessage
    BY <1>2 DEF Erasing
  <2>2. r \in ClerkState /\ r.at = "texts" /\ r.ids = old.ids /\ r.files = there
    BY <1>2, <2>1 DEF Erasing, ClerkState
  <2>3. Knows(r)
    BY <1>2, <1>5, <2>2 DEF Knows, RedactFiles, ClerkAt
  <2> QED
    BY <1>1, <1>2, <1>5, <2>2, <2>3, ClerkMoves DEF RedactFiles
<1>6. CASE RedactTexts(c)
  <2> DEFINE there == {m \in old.texts \union old.ids : voice[m] # "none"}
             r == [old EXCEPT !.at = "commit", !.texts = there]
  <2>1. there \subseteq ContactMessage
    BY <1>2 DEF Erasing
  <2>2. r \in ClerkState /\ r.at = "commit" /\ r.ids = old.ids /\ r.files = old.files
    BY <1>2, <2>1 DEF Erasing, ClerkState
  <2>3. Knows(r)
    BY <1>2, <1>6, <2>2 DEF Knows, RedactTexts, ClerkAt
  <2> QED
    BY <1>1, <1>2, <1>6, <2>2, <2>3, ClerkMoves DEF RedactTexts
<1> QED
  BY <1>3, <1>4, <1>5, <1>6

\* The commit redacts all that the clerk knows of, and takes nothing from what the
\* others know.
LEMMA ClerkCommits ==
    ASSUME CInv, NEW c \in Clerk, CommitErasure(c)
    PROVE  CInv'
<1> DEFINE old == clerk[c]
<1>1. old \in Erasing /\ old.at = "commit" /\ Knows(old)
  BY ErasingAt DEF CommitErasure, ClerkAt, CInv
<1>2. PICK r \in ClerkState : r.at = "complete" /\ ClerkDo(c, r)
  <2>1. [old EXCEPT !.at = "complete"] \in ClerkState
    BY <1>1 DEF Erasing, ClerkState
  <2> QED
    BY <1>1, <2>1 DEF CommitErasure, ClerkGoTo, Erasing
<1>3. /\ body' \in [ContactMessage -> Content] /\ file' \in [ContactMessage -> Content]
      /\ \A m \in ContactMessage :
            /\ body'[m] = IF m \in old.ids THEN "redacted" ELSE body[m]
            /\ file'[m] = IF m \in old.files THEN "redacted" ELSE file[m]
  BY DEF CommitErasure, Redact, CInv, ContentType, Content
<1>4. UNCHANGED <<late, request>>
  BY DEF CommitErasure
<1>5. /\ clerk' \in [Clerk -> ClerkState]
      /\ clerk'[c] = r
      /\ \A d \in Clerk \ {c} : clerk'[d] = clerk[d]
  BY <1>2, <1>4 DEF CInv, ContentType, ClerkDo
<1>6. \A m \in ContactMessage : /\ body'[m] = "stored" => body[m] = "stored"
                                /\ file'[m] = "stored" => file[m] = "stored"
  BY <1>3
<1>7. ContentType'
  BY <1>3, <1>4, <1>5 DEF CInv, ContentType
<1>8. FilesHaveBodies'
  <2> SUFFICES ASSUME NEW m \in ContactMessage, file'[m] # "none" PROVE body'[m] # "none"
    BY DEF FilesHaveBodies
  <2>1. CASE m \in old.ids
    BY <1>3, <2>1
  <2>2. CASE m \notin old.ids /\ file[m] # "none"
    BY <1>3, <2>2 DEF CInv, FilesHaveBodies
  <2>3. CASE m \in old.files /\ file[m] = "none"
    BY <1>1, <1>3, <2>3 DEF Knows
  <2> QED
    BY <1>3, <2>1, <2>2, <2>3
<1>9. \A d \in Clerk : Knows(clerk[d])'
  <2>1. Knows(r)'
    BY <1>1, <1>2, <1>3, <1>4 DEF Knows
  <2>2. \A d \in Clerk \ {c} : Knows(clerk[d])'
    BY <1>3, <1>4, <1>5, <1>6 DEF CInv, Knows
  <2> QED
    BY <1>5, <2>1, <2>2
<1>10. SurvivorsCameLate'
  BY <1>4, <1>6 DEF CInv, SurvivorsCameLate
<1> QED
  BY <1>7, <1>8, <1>9, <1>10 DEF CInv

\* What comes while somebody knows comes late.
LEMMA ArrivesLate ==
    ASSUME CInv, NEW m \in ContactMessage, SendMessage(m) \/ AttachToMessage(m)
    PROVE  CInv'
<1>1. UNCHANGED <<request, clerk>>
  BY DEF SendMessage, AttachToMessage, privacyVars
<1>2. /\ late \subseteq late' /\ late' \subseteq ContactMessage
      /\ ErasureKnows => m \in late'
  BY DEF SendMessage, AttachToMessage, CInv, ContentType
<1>3. /\ body' \in [ContactMessage -> Content] /\ file' \in [ContactMessage -> Content]
      /\ \A n \in ContactMessage \ {m} : body'[n] = body[n] /\ file'[n] = file[n]
      /\ file[m] # "none" => file'[m] # "none"
      /\ file'[m] # "none" => body'[m] # "none"
  BY DEF SendMessage, AttachToMessage, CInv, ContentType, Content, FilesHaveBodies
<1>4. ContentType' /\ FilesHaveBodies'
  BY <1>1, <1>2, <1>3 DEF CInv, ContentType, FilesHaveBodies
<1>5. ASSUME NEW c \in Clerk PROVE Knows(clerk[c])'
  <2>1. CASE clerk[c].at \in {"contact", "files", "texts", "commit", "complete"}
    <3>1. m \in late'
      BY <1>2, <2>1 DEF ErasureKnows
    <3> QED
      BY <1>1, <1>2, <1>3, <3>1 DEF CInv, Knows
  <2>2. CASE clerk[c].at \notin {"contact", "files", "texts", "commit", "complete"}
    BY <1>1, <2>2 DEF Knows
  <2> QED
    BY <2>1, <2>2
<1>6. SurvivorsCameLate'
  BY <1>1, <1>2, <1>3 DEF CInv, SurvivorsCameLate, ErasureKnows
<1> QED
  BY <1>4, <1>5, <1>6 DEF CInv

\* Transcription touches neither messages nor files nor requests.
VoiceStep ==
    \/ \E m \in ContactMessage :
          \/ AskTranscription(m) \/ QueueTranscription(m) \/ RetryTranscription(m)
          \/ TranscriptionLeaseExpires(m)
    \/ \E w \in Transcriber :
          \/ \E m \in ContactMessage : ClaimTranscription(w, m)
          \/ GetTranscriptionJob(w) \/ Transcribe(w) \/ CompleteTranscription(w)
          \/ TranscriptionError(w) \/ ReadAttempts(w) \/ FailTranscription(w)

LEMMA VoiceLeavesContent ==
    VoiceStep \/ UNCHANGED erasureVars => UNCHANGED <<contentVars, privacyVars>>
<1>1. VoiceStep => UNCHANGED <<contentVars, privacyVars>>
  BY DEF VoiceStep, AskTranscription, QueueTranscription, RetryTranscription,
     TranscriptionLeaseExpires, ClaimTranscription, GetTranscriptionJob, Transcribe,
     CompleteTranscription, TranscriptionError, ReadAttempts, FailTranscription
<1> QED
  BY <1>1 DEF erasureVars

LEMMA CNext == CInv /\ [ErasureNext]_erasureVars => CInv'
<1> SUFFICES ASSUME CInv, [ErasureNext]_erasureVars PROVE CInv'
  OBVIOUS
<1>1. CASE UNCHANGED <<contentVars, privacyVars>>
  BY <1>1 DEF contentVars, privacyVars, CInv, ContentType, FilesHaveBodies, Knows, SurvivorsCameLate
<1>2. CASE VoiceStep \/ UNCHANGED erasureVars
  BY <1>1, <1>2, VoiceLeavesContent
<1> QED
  BY <1>2, ClerkFiles, ClerkReads, ClerkCommits, ArrivesLate DEF ErasureNext, VoiceStep

LEMMA ContentInvariant == ErasureSpec => []CInv
<1> QED
  BY CInit, CNext, PTL DEF ErasureSpec

\* Once an erasure request is completed, a message or file of the contact that is
\* still there came after the erasure had looked, for any number of overlapping
\* requests that stop half way or commit.
THEOREM ErasureIsComplete == ErasureSpec => []SurvivorsCameLate
<1>1. CInv => SurvivorsCameLate
  BY DEF CInv
<1> QED
  BY <1>1, ContentInvariant, PTL
-------------------------------------------------------------------------------
(* Transcription: until a lease of a message runs out, the one worker that     *)
(* has it holds the lease.                                                     *)

VoiceType ==
    /\ voice \in [ContactMessage -> VoiceStatus]
    /\ tries \in [ContactMessage -> 0..MaxTranscriptionAttempts]
    /\ spoken \subseteq ContactMessage /\ leased \subseteq ContactMessage
    /\ asked \subseteq ContactMessage
    /\ scribe \in [Transcriber -> {Listening} \union Transcribing]
    /\ overruns \in [ContactMessage -> 0..MaxOverruns]

\* Whether the worker at r works on message m.
WorksOn(r, m) == r # Listening /\ r.msg = m

LeaseHeld ==
    \A m \in ContactMessage : overruns[m] = 0 =>
        /\ \A w \in Transcriber : WorksOn(scribe[w], m) => voice[m] = "processing" /\ m \in leased
        /\ \A v, w \in Transcriber : WorksOn(scribe[v], m) /\ WorksOn(scribe[w], m) => v = w

KeyToComplete == \A w \in Transcriber : scribe[w].at = "complete" => scribe[w].key

VInv == VoiceType /\ LeaseHeld /\ KeyToComplete

LEMMA VInit == ErasureInit => VInv
  BY ErasureAssumption DEF ErasureInit, VInv, VoiceType, VoiceStatus, LeaseHeld, KeyToComplete,
     WorksOn, Listening

LEMMA ScribeBusy ==
    ASSUME VoiceType, NEW w \in Transcriber, scribe[w].at # "poll"
    PROVE  scribe[w] \in Transcribing /\ scribe[w] # Listening
  BY DEF VoiceType, Listening

\* The worker stays with its message: nothing changes but its step and its key.
LEMMA ScribeStays ==
    ASSUME VInv, NEW w \in Transcriber, NEW r \in Transcribing, ScribeDo(w, r),
           scribe[w] # Listening, r.msg = scribe[w].msg, r.at = "complete" => r.key,
           UNCHANGED <<voiceVars, asked, overruns>>
    PROVE  VInv'
<1>1. /\ scribe' \in [Transcriber -> {Listening} \union Transcribing]
      /\ scribe'[w] = r
      /\ \A v \in Transcriber \ {w} : scribe'[v] = scribe[v]
  BY DEF VInv, VoiceType, ScribeDo
<1>2. \A v \in Transcriber, m \in ContactMessage : WorksOn(scribe'[v], m) => WorksOn(scribe[v], m)
  BY <1>1 DEF WorksOn
<1>3. VoiceType' /\ KeyToComplete'
  BY <1>1 DEF VInv, VoiceType, KeyToComplete, voiceVars
<1>4. LeaseHeld'
  BY <1>2 DEF VInv, LeaseHeld, voiceVars
<1> QED
  BY <1>3, <1>4 DEF VInv

LEMMA ScribeSteps ==
    ASSUME VInv, NEW w \in Transcriber,
           \/ GetTranscriptionJob(w) \/ Transcribe(w) \/ TranscriptionError(w) \/ ReadAttempts(w)
           \/ ScribeAt(w, "complete") /\ ScribeGoTo(w, "fail") /\ UNCHANGED <<voiceVars, asked, overruns>>
    PROVE  VInv'
<1> DEFINE old == scribe[w]
<1>1. old \in Transcribing /\ old # Listening
  BY ScribeBusy DEF VInv, GetTranscriptionJob, Transcribe, TranscriptionError, ReadAttempts, ScribeAt
<1>2. UNCHANGED <<voiceVars, asked, overruns>>
  BY DEF GetTranscriptionJob, Transcribe, TranscriptionError, ReadAttempts
<1>3. PICK r \in Transcribing : ScribeDo(w, r) /\ r.msg = old.msg /\ (r.at = "complete" => r.key)
  <2>1. CASE ScribeDo(w, [old EXCEPT !.at = "audio", !.key = file[old.msg] = "stored"])
    <3> DEFINE key == file[old.msg] = "stored"
               r == [old EXCEPT !.at = "audio", !.key = key]
    <3>1. key \in BOOLEAN
      OBVIOUS
    <3> HIDE DEF key
    <3>2. r \in Transcribing /\ r.msg = old.msg /\ r.at = "audio"
      BY <1>1, <3>1 DEF Transcribing
    <3> QED
      BY <2>1, <3>2 DEF key
  <2>2. ASSUME NEW s \in {"complete", "fail", "failed", "pending"}, ScribeGoTo(w, s),
               s = "complete" => old.key
        PROVE  \E r \in Transcribing : ScribeDo(w, r) /\ r.msg = old.msg /\ (r.at = "complete" => r.key)
    <3> DEFINE r == [old EXCEPT !.at = s]
    <3>1. r \in Transcribing /\ r.msg = old.msg /\ r.at = s /\ r.key = old.key
      BY <1>1 DEF Transcribing
    <3> QED
      BY <2>2, <3>1 DEF ScribeGoTo
  <2> QED
    BY <2>1, <2>2 DEF GetTranscriptionJob, Transcribe, TranscriptionError, ReadAttempts
<1> QED
  BY <1>1, <1>2, <1>3, ScribeStays

\* The worker puts its message down, with the row in whatever status.
LEMMA ScribeEnds ==
    ASSUME VInv, NEW w \in Transcriber, scribe[w] # Listening, ScribeDo(w, Listening),
           NEW s \in VoiceStatus, voice' = [voice EXCEPT ![scribe[w].msg] = s],
           leased' = leased \ {scribe[w].msg}, spoken' \subseteq ContactMessage,
           UNCHANGED <<tries, asked, overruns>>
    PROVE  VInv'
<1> DEFINE m == scribe[w].msg
<1>1. /\ scribe' \in [Transcriber -> {Listening} \union Transcribing]
      /\ scribe'[w] = Listening
      /\ \A v \in Transcriber \ {w} : scribe'[v] = scribe[v]
  BY DEF VInv, VoiceType, ScribeDo
<1>2. VoiceType' /\ KeyToComplete'
  <2>1. voice' \in [ContactMessage -> VoiceStatus] /\ leased' \subseteq ContactMessage
    BY DEF VInv, VoiceType
  <2>2. VoiceType'
    BY <1>1, <2>1 DEF VInv, VoiceType
  <2>3. KeyToComplete'
    BY <1>1 DEF VInv, KeyToComplete, Listening
  <2> QED
    BY <2>2, <2>3
<1>3. ASSUME NEW n \in ContactMessage, overruns[n] = 0, NEW v \in Transcriber, WorksOn(scribe'[v], n)
      PROVE  n # m /\ v # w /\ WorksOn(scribe[v], n)
  BY <1>1, <1>3 DEF WorksOn, VInv, LeaseHeld
<1>4. LeaseHeld'
  BY <1>3 DEF VInv, VoiceType, LeaseHeld
<1> QED
  BY <1>2, <1>4 DEF VInv

LEMMA ScribeSettles ==
    ASSUME VInv, NEW w \in Transcriber, CompleteTranscription(w) \/ FailTranscription(w)
    PROVE  VInv'
<1> DEFINE m == scribe[w].msg
<1>1. scribe[w] \in Transcribing /\ scribe[w] # Listening /\ m \in ContactMessage
  BY ScribeBusy DEF VInv, CompleteTranscription, FailTranscription, ScribeAt, Transcribing
<1>2. CASE FailTranscription(w)
  <2>1. scribe[w].at \in VoiceStatus
    BY <1>2 DEF FailTranscription, VoiceStatus
  <2> QED
    BY <1>1, <1>2, <2>1, ScribeEnds DEF FailTranscription, VInv, VoiceType
<1>3. CASE CompleteTranscription(w) /\ voice[m] = "processing"
  <2>1. /\ ScribeDo(w, Listening) /\ voice' = [voice EXCEPT ![m] = "completed"]
        /\ leased' = leased \ {m} /\ spoken' = spoken \union {m}
        /\ UNCHANGED <<tries, asked, overruns>>
    BY <1>3 DEF CompleteTranscription
  <2>2. spoken' \subseteq ContactMessage /\ "completed" \in VoiceStatus
    BY <1>1, <2>1 DEF VInv, VoiceType, VoiceStatus
  <2> QED
    BY <1>1, <2>1, <2>2, ScribeEnds
<1>4. CASE CompleteTranscription(w) /\ voice[m] # "processing"
  BY <1>4, ScribeSteps DEF CompleteTranscription, voiceVars
<1> QED
  BY <1>2, <1>3, <1>4

\* A message that a worker has is not claimed while its lease is whole.
LEMMA Claims ==
    ASSUME VInv, NEW w \in Transcriber, NEW m \in ContactMessage, ClaimTranscription(w, m)
    PROVE  VInv'
<1> DEFINE r == [at |-> "job", msg |-> m, key |-> FALSE]
<1>1. r \in Transcribing /\ r # Listening
  BY DEF Transcribing, Listening
<1>2. /\ scribe' \in [Transcriber -> {Listening} \union Transcribing]
      /\ scribe'[w] = r
      /\ \A v \in Transcriber \ {w} : scribe'[v] = scribe[v]
  BY <1>1 DEF VInv, VoiceType, ClaimTranscription, ScribeDo
<1>3. /\ voice' \in [ContactMessage -> VoiceStatus] /\ voice'[m] = "processing"
      /\ \A n \in ContactMessage \ {m} : voice'[n] = voice[n]
      /\ leased' = leased \union {m}
      /\ UNCHANGED <<spoken, asked, overruns>>
  BY DEF VInv, VoiceType, ClaimTranscription, VoiceStatus
<1>4. tries' \in [ContactMessage -> 0..MaxTranscriptionAttempts]
  BY ErasureAssumption DEF VInv, VoiceType, ClaimTranscription
<1>5. VoiceType'
  BY <1>2, <1>3, <1>4 DEF VInv, VoiceType
<1>6. overruns[m] = 0 => \A v \in Transcriber : ~WorksOn(scribe[v], m)
  BY DEF VInv, LeaseHeld, ClaimTranscription
<1>7. LeaseHeld'
  <2> SUFFICES ASSUME NEW n \in ContactMessage, overruns[n] = 0
               PROVE  /\ \A v \in Transcriber : WorksOn(scribe'[v], n)
                            => voice'[n] = "processing" /\ n \in leased'
                      /\ \A u, v \in Transcriber :
                            WorksOn(scribe'[u], n) /\ WorksOn(scribe'[v], n) => u = v
    BY <1>3 DEF LeaseHeld
  <2>1. CASE n = m
    BY <1>2, <1>3, <1>6, <2>1
  <2>2. CASE n # m
    <3>1. \A v \in Transcriber : WorksOn(scribe'[v], n) => v # w /\ WorksOn(scribe[v], n)
      BY <1>2, <2>2 DEF WorksOn
    <3> QED
      BY <1>3, <2>2, <3>1 DEF VInv, LeaseHeld
  <2> QED
    BY <2>1, <2>2
<1>8. KeyToComplete'
  BY <1>2 DEF VInv, KeyToComplete
<1> QED
  BY <1>5, <1>7, <1>8 DEF VInv

\* Nobody works on a message that is asked for or that has failed, before a lease
\* of it runs out.
LEMMA RowChanges ==
    ASSUME VInv, NEW m \in ContactMessage,
           AskTranscription(m) \/ QueueTranscription(m) \/ RetryTranscription(m)
    PROVE  VInv'
<1>1. UNCHANGED <<scribe, overruns, spoken>>
  BY DEF AskTranscription, QueueTranscription, RetryTranscription, voiceVars
<1>2. /\ voice' \in [ContactMessage -> VoiceStatus]
      /\ tries' \in [ContactMessage -> 0..MaxTranscriptionAttempts]
      /\ asked' \subseteq ContactMessage
  BY ErasureAssumption
  DEF AskTranscription, QueueTranscription, RetryTranscription, voiceVars, VInv, VoiceType, VoiceStatus
<1>3. /\ \A n \in ContactMessage : voice[n] = "processing" => voice'[n] = "processing"
      /\ \A n \in ContactMessage : voice[n] = "processing" /\ n \in leased => n \in leased'
      /\ leased' \subseteq leased
  BY DEF AskTranscription, QueueTranscription, RetryTranscription, voiceVars, VInv, VoiceType
<1>4. VoiceType' /\ KeyToComplete'
  BY <1>1, <1>2, <1>3 DEF VInv, VoiceType, KeyToComplete
<1>5. LeaseHeld'
  BY <1>1, <1>3 DEF VInv, LeaseHeld
<1> QED
  BY <1>4, <1>5 DEF VInv

LEMMA Expires ==
    ASSUME VInv, NEW m \in ContactMessage, TranscriptionLeaseExpires(m)
    PROVE  VInv'
<1>1. /\ overruns' \in [ContactMessage -> 0..MaxOverruns]
      /\ overruns'[m] > 0
      /\ \A n \in ContactMessage \ {m} : overruns'[n] = overruns[n]
  BY ErasureAssumption DEF TranscriptionLeaseExpires, VInv, VoiceType
<1>2. leased' = leased \ {m} /\ UNCHANGED <<voice, spoken, tries, asked>>
  BY DEF TranscriptionLeaseExpires
<1>3. /\ scribe' \in [Transcriber -> {Listening} \union Transcribing]
      /\ \A v \in Transcriber : scribe'[v] = scribe[v] \/ scribe'[v] = Listening
  BY DEF TranscriptionLeaseExpires, ScribeDo, VInv, VoiceType
<1>4. VoiceType' /\ KeyToComplete'
  BY <1>1, <1>2, <1>3 DEF VInv, VoiceType, KeyToComplete, Listening
<1>5. ASSUME NEW n \in ContactMessage, overruns'[n] = 0
      PROVE  /\ n # m /\ overruns[n] = 0
             /\ \A v \in Transcriber : WorksOn(scribe'[v], n) => WorksOn(scribe[v], n)
  <2>1. n # m /\ overruns[n] = 0
    BY <1>1, <1>5
  <2> QED
    BY <1>3, <2>1 DEF WorksOn
<1>6. LeaseHeld'
  BY <1>2, <1>5 DEF VInv, LeaseHeld
<1> QED
  BY <1>4, <1>6 DEF VInv

\* What erasure and arrivals do to the transcriptions: texts disappear.
ContentStep ==
    \/ \E c \in Clerk :
          \/ \E q \in PrivacyRequest : FindOpenRequest(c, q) \/ ProcessRequest(c, q)
          \/ CreateRequest(c) \/ ReadMessageIds(c) \/ RedactContact(c) \/ RedactFiles(c)
          \/ RedactTexts(c) \/ CommitErasure(c) \/ CompleteRequest(c) \/ AbandonRequest(c)
    \/ \E m \in ContactMessage : SendMessage(m) \/ AttachToMessage(m)

LEMMA ContentLeavesVoice ==
    ASSUME ContentStep
    PROVE  UNCHANGED <<voice, tries, leased, asked, scribe, overruns>> /\ spoken' \subseteq spoken
  BY DEF ContentStep, FindOpenRequest, ProcessRequest, CreateRequest, ReadMessageIds, RedactContact,
     RedactFiles, RedactTexts, CommitErasure, CompleteRequest, AbandonRequest, SendMessage,
     AttachToMessage, voiceVars

LEMMA NextIsStep == ErasureNext <=> ContentStep \/ VoiceStep
  BY DEF ErasureNext, ContentStep, VoiceStep

LEMMA VNext == VInv /\ [ErasureNext]_erasureVars => VInv'
<1> SUFFICES ASSUME VInv, [ErasureNext]_erasureVars PROVE VInv'
  OBVIOUS
<1>1. CASE UNCHANGED <<voice, tries, leased, asked, scribe, overruns>> /\ spoken' \subseteq spoken
  BY <1>1 DEF VInv, VoiceType, LeaseHeld, KeyToComplete
<1>2. CASE UNCHANGED erasureVars
  BY <1>1, <1>2 DEF erasureVars, voiceVars
<1>3. CASE VoiceStep
  BY <1>3, RowChanges, Expires, Claims, ScribeSteps, ScribeSettles DEF VoiceStep
<1> QED
  BY <1>1, <1>2, <1>3, ContentLeavesVoice, NextIsStep

LEMMA VoiceInvariant == ErasureSpec => []VInv
<1> QED
  BY VInit, VNext, PTL DEF ErasureSpec

\* Everything that erasure and transcription keep has its type, tries and overruns
\* their bounds.
THEOREM ErasureTypeCorrect == ErasureSpec => []ErasureTypeOK
<1>1. CInv /\ VInv => ErasureTypeOK
  BY DEF CInv, VInv, ContentType, VoiceType, ErasureTypeOK, ClerkState
<1> QED
  BY <1>1, ContentInvariant, VoiceInvariant, PTL

\* A silenced message stays so: its file is redacted for good, and a worker that
\* comes to it later finds no key.
LEMMA SilenceStays ==
    ASSUME CInv, VInv, [ErasureNext]_erasureVars, NEW m \in ContactMessage, Silenced(m)
    PROVE  Silenced(m)'
<1>1. file'[m] = "redacted"
  <2>1. CASE UNCHANGED <<contentVars, privacyVars>>
    BY <2>1 DEF Silenced, contentVars
  <2>2. CASE ContentStep
    BY <2>2 DEF ContentStep, Silenced, CInv, ContentType, contentVars, FindOpenRequest, ProcessRequest,
       CreateRequest, ReadMessageIds, RedactContact, RedactFiles, RedactTexts, CommitErasure, Redact,
       CompleteRequest, AbandonRequest, SendMessage, AttachToMessage
  <2> QED
    BY <2>1, <2>2, VoiceLeavesContent, NextIsStep
<1>2. CASE UNCHANGED <<voice, tries, leased, asked, scribe, overruns>> /\ spoken' \subseteq spoken
  BY <1>1, <1>2 DEF Silenced
<1>3. CASE UNCHANGED erasureVars
  BY <1>2, <1>3 DEF erasureVars, voiceVars
<1>4. ASSUME NEW w \in Transcriber, NEW r \in {Listening} \union Transcribing, ScribeDo(w, r),
             r # Listening /\ r.msg = m => ~r.key, spoken' \subseteq spoken
      PROVE  Silenced(m)'
  BY <1>1, <1>4 DEF Silenced, ScribeDo, VInv, VoiceType
<1>5. ASSUME NEW n \in ContactMessage,
             AskTranscription(n) \/ QueueTranscription(n) \/ RetryTranscription(n)
      PROVE  Silenced(m)'
  BY <1>1, <1>5 DEF Silenced, AskTranscription, QueueTranscription, RetryTranscription, voiceVars
<1>6. ASSUME NEW n \in ContactMessage, TranscriptionLeaseExpires(n) PROVE Silenced(m)'
  <2>1. CASE UNCHANGED scribe
    BY <1>1, <1>6, <2>1 DEF Silenced, TranscriptionLeaseExpires
  <2>2. ASSUME NEW w \in Transcriber, ScribeDo(w, Listening) PROVE Silenced(m)'
    BY <1>4, <1>6, <2>2 DEF TranscriptionLeaseExpires
  <2> QED
    BY <1>6, <2>1, <2>2 DEF TranscriptionLeaseExpires
<1>7. ASSUME NEW w \in Transcriber, NEW n \in ContactMessage, ClaimTranscription(w, n)
      PROVE  Silenced(m)'
  <2>1. [at |-> "job", msg |-> n, key |-> FALSE] \in Transcribing
    BY DEF Transcribing
  <2> QED
    BY <1>4, <1>7, <2>1 DEF ClaimTranscription
<1>8. ASSUME NEW w \in Transcriber, CompleteTranscription(w) \/ FailTranscription(w)
      PROVE  Silenced(m)'
  <2>1. scribe[w] \in Transcribing /\ scribe[w] # Listening
    BY <1>8, ScribeBusy DEF VInv, CompleteTranscription, FailTranscription, ScribeAt
  <2>2. CASE ScribeDo(w, Listening) /\ spoken' \subseteq spoken
    BY <1>4, <2>2
  <2>3. CASE CompleteTranscription(w) /\ ScribeDo(w, Listening) /\ spoken' = spoken \union {scribe[w].msg}
    <3>1. scribe[w].key
      BY <2>3 DEF CompleteTranscription, ScribeAt, VInv, KeyToComplete
    <3>2. scribe[w].msg # m
      BY <2>1, <3>1 DEF Silenced
    <3> QED
      BY <1>1, <2>3, <3>2 DEF Silenced, ScribeDo, VInv, VoiceType
  <2>4. CASE CompleteTranscription(w) /\ ScribeGoTo(w, "fail") /\ UNCHANGED spoken
    <3> DEFINE r == [scribe[w] EXCEPT !.at = "fail"]
    <3>1. r \in Transcribing /\ r.msg = scribe[w].msg /\ r.key = scribe[w].key
      BY <2>1 DEF Transcribing
    <3>2. r.msg = m => ~r.key
      BY <2>1, <3>1 DEF Silenced
    <3> QED
      BY <1>4, <2>4, <3>1, <3>2 DEF ScribeGoTo
  <2> QED
    BY <1>8, <2>2, <2>3, <2>4 DEF CompleteTranscription, FailTranscription
<1>9. ASSUME NEW w \in Transcriber,
             GetTranscriptionJob(w) \/ Transcribe(w) \/ TranscriptionError(w) \/ ReadAttempts(w)
      PROVE  Silenced(m)'
  <2> DEFINE old == scribe[w]
  <2>1. old \in Transcribing /\ old # Listening
    BY <1>9, ScribeBusy
    DEF VInv, GetTranscriptionJob, Transcribe, TranscriptionError, ReadAttempts, ScribeAt
  <2>2. spoken' = spoken
    BY <1>9 DEF GetTranscriptionJob, Transcribe, TranscriptionError, ReadAttempts, voiceVars
  <2>3. ASSUME NEW s \in {"complete", "fail", "failed", "pending"}, ScribeGoTo(w, s) PROVE Silenced(m)'
    <3> DEFINE r == [old EXCEPT !.at = s]
    <3>1. r \in Transcribing /\ r.msg = old.msg /\ r.key = old.key
      BY <2>1 DEF Transcribing
    <3>2. r.msg = m => ~r.key
      BY <2>1, <3>1 DEF Silenced
    <3> QED
      BY <1>4, <2>2, <2>3, <3>1, <3>2 DEF ScribeGoTo
  <2>4. CASE ScribeDo(w, [old EXCEPT !.at = "audio", !.key = file[old.msg] = "stored"])
    <3> DEFINE key == file[old.msg] = "stored"
               r == [old EXCEPT !.at = "audio", !.key = key]
    <3>1. key \in BOOLEAN
      OBVIOUS
    <3>2. old.msg = m => ~key
      BY DEF Silenced
    <3> HIDE DEF key
    <3>3. r \in Transcribing /\ r.msg = old.msg /\ r.key = key
      BY <2>1, <3>1 DEF Transcribing
    <3>4. ScribeDo(w, r)
      BY <2>4 DEF key
    <3> HIDE DEF r
    <3> QED
      BY <1>4, <2>2, <3>2, <3>3, <3>4
  <2> QED
    BY <1>9, <2>3, <2>4 DEF GetTranscriptionJob, Transcribe, TranscriptionError, ReadAttempts
<1> QED
  BY <1>2, <1>3, <1>5, <1>6, <1>7, <1>8, <1>9, ContentLeavesVoice, NextIsStep DEF VoiceStep

\* A completed transcription is reopened only by the failure of a worker whose
\* lease had run out.
LEMMA ReopenedByOverrun ==
    ASSUME VInv, [ErasureNext]_erasureVars, NEW m \in ContactMessage,
           voice[m] = "completed", voice'[m] # "completed"
    PROVE  overruns[m] > 0
<1>1. VoiceStep
  BY ContentLeavesVoice, NextIsStep DEF erasureVars, voiceVars
<1>2. PICK w \in Transcriber : FailTranscription(w) /\ scribe[w].msg = m
  <2>1. ASSUME NEW n \in ContactMessage,
               \/ AskTranscription(n) \/ QueueTranscription(n) \/ RetryTranscription(n)
               \/ TranscriptionLeaseExpires(n)
        PROVE  FALSE
    BY <2>1 DEF AskTranscription, QueueTranscription, RetryTranscription, TranscriptionLeaseExpires,
       voiceVars, VInv, VoiceType
  <2>2. ASSUME NEW w \in Transcriber, NEW n \in ContactMessage, ClaimTranscription(w, n) PROVE FALSE
    BY <2>2 DEF ClaimTranscription, VInv, VoiceType
  <2>3. ASSUME NEW w \in Transcriber,
               \/ GetTranscriptionJob(w) \/ Transcribe(w) \/ CompleteTranscription(w)
               \/ TranscriptionError(w) \/ ReadAttempts(w)
        PROVE  FALSE
    BY <2>3 DEF GetTranscriptionJob, Transcribe, CompleteTranscription, TranscriptionError,
       ReadAttempts, voiceVars, VInv, VoiceType
  <2>4. PICK w \in Transcriber : FailTranscription(w)
    BY <1>1, <2>1, <2>2, <2>3 DEF VoiceStep
  <2> QED
    BY <2>4 DEF FailTranscription, VInv, VoiceType
<1>3. scribe[w] # Listening
  BY <1>2 DEF FailTranscription, Listening
<1>4. overruns[m] # 0
  BY <1>2, <1>3 DEF VInv, LeaseHeld, WorksOn
<1> QED
  BY <1>4, ErasureAssumption DEF VInv, VoiceType

\* What was silenced is never heard again, and a transcription once completed is
\* not undone as long as its lease was kept, for any number of workers.
THEOREM TranscriptStays == ErasureSpec => TranscriptIsSettled
<1>1. CInv /\ VInv /\ [ErasureNext]_erasureVars =>
          [\A m \in ContactMessage :
              /\ Silenced(m) => Silenced(m)'
              /\ voice[m] = "completed" /\ voice'[m] # "completed" => overruns[m] > 0]_erasureVars
  BY SilenceStays, ReopenedByOverrun
<1> QED
  BY <1>1, ContentInvariant, VoiceInvariant, PTL DEF ErasureSpec, TranscriptIsSettled
================================================================================
