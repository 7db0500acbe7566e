------------------------------- MODULE Broadcast --------------------------------
(***************************************************************************)
(* One campaign, its recipients, the clients that schedule, send or cancel *)
(* it and the workers that deliver it.  One action per awaited call.  A    *)
(* scheduled campaign is due at any time after it was scheduled.           *)
(***************************************************************************)
EXTENDS Naturals, FiniteSets

CONSTANTS Contact,
          Request, Worker,
          MaxRequests,   \* bound: client requests
          MaxCrashes     \* bound: processes that stop

ASSUME BroadcastAssumption ==
    IsFiniteSet(Worker) /\ MaxRequests \in Nat /\ MaxCrashes \in Nat

VARIABLES status,      \* the campaign's
          recipient,   \* recipient[c]: status of the row, "none" without one
          proc,        \* proc[p]: what request or worker p is about to do and remembers
          requests, crashes,   \* bounds
          delivered,   \* transport: deliveries to each contact
          evaluated,   \* history: contacts some evaluation of the segment found eligible
          raced        \* history: a worker delivered while recipients were being created

countVars == <<requests, crashes>>
vars == <<status, recipient, proc, countVars, delivered, evaluated, raced>>

Process == Request \union Worker
Rest == [at |-> "rest", todo |-> {}, held |-> {}]
Stopped == [at |-> "stopped", todo |-> {}, held |-> {}]

TypeOK ==
    /\ status \in {"draft", "scheduled", "sending", "sent", "cancelled"}
    /\ recipient \in [Contact -> {"none", "queued", "sent", "failed"}]
    /\ proc \in [Process -> [at : {"rest", "scheduled", "cancelled", "evaluate", "setSending", "create",
                                   "list", "send", "markSent", "markFailed", "finish", "stopped"},
                             todo : SUBSET Contact, held : SUBSET Contact]]
    /\ requests \in 0..MaxRequests /\ crashes \in 0..MaxCrashes
    /\ delivered \in [Contact -> Nat]
    /\ evaluated \in SUBSET Contact
    /\ raced \in BOOLEAN

Init ==
    /\ status = "draft"
    /\ recipient = [c \in Contact |-> "none"]
    /\ proc = [p \in Process |-> Rest]
    /\ requests = 0 /\ crashes = 0
    /\ delivered = [c \in Contact |-> 0]
    /\ evaluated = {}
    /\ raced = FALSE

At(p, step) == proc[p].at = step
Creating == {p \in Process : At(p, "create")}
Delivering == {w \in Worker : proc[w].at \in {"send", "markSent", "markFailed", "finish"}}

\* Process p goes on with step and the contacts it still has to handle.
Do(p, step, todo) ==
    /\ proc' = [proc EXCEPT ![p] = [at |-> step, todo |-> todo, held |-> {}]]
    /\ raced' = (raced \/ (Creating' # {} /\ Delivering' # {}))

-------------------------------------------------------------------------------
(* Clients.  Every transition reads the status and writes it later.        *)

Begin(p, step) ==
    /\ At(p, "rest")
    /\ requests < MaxRequests
    /\ requests' = requests + 1
    /\ Do(p, step, {})
    /\ UNCHANGED <<status, recipient, crashes, delivered, evaluated>>

Schedule(p) == status \in {"draft", "scheduled"} /\ Begin(p, "scheduled")
Send(p) == status \in {"draft", "scheduled"} /\ Begin(p, "evaluate")
Cancel(p) == status \notin {"sent", "cancelled"} /\ Begin(p, "cancelled")

UpdateCampaignStatus(p) ==
    /\ proc[p].at \in {"scheduled", "cancelled"}
    /\ status' = proc[p].at
    /\ Do(p, "rest", {})
    /\ UNCHANGED <<recipient, countVars, delivered, evaluated>>

-------------------------------------------------------------------------------
(* materialiseAndSend, for a client or for the worker *)

\* What a segment can select: any contacts that consent and have not opted out now.
Selections == SUBSET Contact

\* Mutant: consent is not looked at.
EvaluateAll(p) ==
    /\ At(p, "evaluate")
    /\ evaluated' \in Selections
    /\ evaluated \subseteq evaluated'
    /\ Do(p, "setSending", Contact)
    /\ UNCHANGED <<status, recipient, countVars, delivered>>

\* Nobody selected: the client is told; a worker's loop ends, for nobody catches.
EvaluateSegment(p) ==
    /\ At(p, "evaluate")
    /\ \E eligible \in Selections :
          /\ evaluated' = evaluated \union eligible
          /\ \/ eligible # {} /\ Do(p, "setSending", eligible)
             \/ eligible = {} /\ p \in Request /\ Do(p, "rest", {})
             \/ eligible = {} /\ p \in Worker /\ Do(p, "stopped", {})
    /\ UNCHANGED <<status, recipient, countVars, delivered>>

SetSending(p) ==
    /\ At(p, "setSending")
    /\ status' = "sending"
    /\ Do(p, "create", proc[p].todo)
    /\ UNCHANGED <<recipient, countVars, delivered, evaluated>>

\* Mutant: a contact that is a recipient already is queued again.
CreateRecipientAgain(p) ==
    /\ At(p, "create")
    /\ \E c \in proc[p].todo :
          /\ recipient' = [recipient EXCEPT ![c] = "queued"]
          /\ Do(p, IF proc[p].todo # {c} THEN "create" ELSE IF p \in Worker THEN "list" ELSE "rest",
                proc[p].todo \ {c})
    /\ UNCHANGED <<status, countVars, delivered, evaluated>>

\* One row per contact and campaign: a second one is refused and skipped.
CreateRecipient(p) ==
    /\ At(p, "create")
    /\ \E c \in proc[p].todo :
          /\ recipient' = [recipient EXCEPT ![c] = IF @ = "none" THEN "queued" ELSE @]
          /\ Do(p, IF proc[p].todo # {c} THEN "create" ELSE IF p \in Worker THEN "list" ELSE "rest",
                proc[p].todo \ {c})
    /\ UNCHANGED <<status, countVars, delivered, evaluated>>

-------------------------------------------------------------------------------
(* processDueCampaigns *)

\* Mutant: a campaign in flight is nobody's any more.
ListScheduled(w) ==
    /\ At(w, "rest")
    /\ status = "scheduled" /\ Do(w, "evaluate", {})
    /\ UNCHANGED <<status, recipient, countVars, delivered, evaluated>>

\* Mutant: every campaign that is not finished is polled.
ListUnfinished(w) ==
    /\ At(w, "rest")
    /\ \/ status = "scheduled" /\ Do(w, "evaluate", {})
       \/ status \in {"sending", "cancelled"} /\ Do(w, "list", {})
    /\ UNCHANGED <<status, recipient, countVars, delivered, evaluated>>

ListDue(w) ==
    /\ At(w, "rest")
    /\ \/ status = "scheduled" /\ Do(w, "evaluate", {})
       \/ status = "sending" /\ Do(w, "list", {})
    /\ UNCHANGED <<status, recipient, countVars, delivered, evaluated>>

Queued == {c \in Contact : recipient[c] = "queued"}

ListQueuedDeliveries(w) ==
    /\ At(w, "list")
    /\ Do(w, IF Queued = {} THEN "finish" ELSE "send", Queued)
    /\ UNCHANGED <<status, recipient, countVars, delivered, evaluated>>

\* Worker w has the transport's answer for contact c and records it next.
Answered(w, step, c) ==
    proc' = [proc EXCEPT ![w] = [at |-> step, todo |-> @.todo \ {c}, held |-> {c}]]

\* Mutant: a recipient is marked sent whatever the transport answers.
SendUnacknowledged(w) ==
    /\ At(w, "send")
    /\ \E c \in proc[w].todo :
          /\ Answered(w, "markSent", c)
          /\ delivered' \in {delivered, [delivered EXCEPT ![c] = @ + 1]}
    /\ UNCHANGED <<status, recipient, countVars, evaluated, raced>>

\* The transport takes the message or refuses it.
SendDelivery(w) ==
    /\ At(w, "send")
    /\ \E c \in proc[w].todo :
          \/ Answered(w, "markSent", c) /\ delivered' = [delivered EXCEPT ![c] = @ + 1]
          \/ Answered(w, "markFailed", c) /\ UNCHANGED delivered
    /\ UNCHANGED <<status, recipient, countVars, evaluated, raced>>

\* Recipients in hand that are still queued become s; then the next one's turn.
Mark(w, s) ==
    /\ recipient' = [c \in Contact |-> IF c \in proc[w].held /\ recipient[c] = "queued"
                                       THEN s ELSE recipient[c]]
    /\ Do(w, IF proc[w].todo = {} THEN "finish" ELSE "send", proc[w].todo)
    /\ UNCHANGED <<status, countVars, delivered, evaluated>>

\* The catch is shared: when the write rejects, the delivered message counts as failed.
MarkRecipientDelivered(w) ==
    /\ At(w, "markSent")
    /\ \/ Mark(w, "sent")
       \/ /\ proc' = [proc EXCEPT ![w].at = "markFailed"]
          /\ UNCHANGED <<status, recipient, countVars, delivered, evaluated, raced>>

MarkRecipientFailed(w) == At(w, "markFailed") /\ Mark(w, "failed")

\* Mutant: the campaign is finished before its recipients are listed.
FinishUnlisted(w) ==
    /\ proc[w].at \in {"list", "finish"}
    /\ status' = "sent"
    /\ Do(w, "rest", {})
    /\ UNCHANGED <<recipient, countVars, delivered, evaluated>>

FinishCampaign(w) ==
    /\ At(w, "finish")
    /\ status' = "sent"
    /\ Do(w, "rest", {})
    /\ UNCHANGED <<recipient, countVars, delivered, evaluated>>

-------------------------------------------------------------------------------
(* Faults.  A call that rejects fails a request; it ends a worker's loop,   *)
(* for nobody catches.  A process that stops is started again.              *)

Fault(p, next) ==
    /\ crashes < MaxCrashes
    /\ crashes' = crashes + 1
    /\ proc' = [proc EXCEPT ![p] = next]
    /\ UNCHANGED <<status, recipient, requests, delivered, evaluated, raced>>

Reject(p) == ~At(p, "rest") /\ ~At(p, "stopped") /\ Fault(p, IF p \in Worker THEN Stopped ELSE Rest)
Restart(p) == ~At(p, "rest") /\ Fault(p, Rest)

-------------------------------------------------------------------------------
MaterialiseAndSend(p) == EvaluateSegment(p) \/ SetSending(p) \/ CreateRecipient(p)

ProcessDueCampaigns(w) ==
    \/ ListDue(w) \/ ListQueuedDeliveries(w) \/ SendDelivery(w)
    \/ MarkRecipientDelivered(w) \/ MarkRecipientFailed(w) \/ FinishCampaign(w)

Next ==
    \/ \E p \in Request : Schedule(p) \/ Send(p) \/ Cancel(p) \/ UpdateCampaignStatus(p)
    \/ \E p \in Process : MaterialiseAndSend(p) \/ Reject(p) \/ Restart(p)
    \/ \E w \in Worker : ProcessDueCampaigns(w)

Spec == Init /\ [][Next]_vars

\* A worker's loop goes on by itself.
FairSpec == Spec /\ \A w \in Worker : WF_vars(MaterialiseAndSend(w) \/ ProcessDueCampaigns(w))

-------------------------------------------------------------------------------
\* Consent is looked at when the segment is evaluated and enforced there: nobody
\* is delivered to who did not consent at one of this campaign's evaluations.
DeliveredWasEligible == \A c \in Contact : delivered[c] > 0 => c \in evaluated

\* "Only mark a recipient sent after transport acknowledgement", with workers that
\* share a campaign and a catch that covers both the transport and the write.
SentWasDelivered == \A c \in Contact : recipient[c] = "sent" => delivered[c] > 0

\* Nothing claims a campaign, so workers deliver the same recipient side by side;
\* beyond once per worker, only a fault between delivery and write repeats it,
\* however often the campaign is sent and materialised again.
DeliveriesBounded == \A c \in Contact : delivered[c] <= Cardinality(Worker) + crashes

\* A campaign that is sent leaves nobody queued for good, unless recipients were
\* still being created ("sending" is set before the first one) while a worker delivered.
NoneLeftBehind == status = "sent" /\ ~raced => Queued = {}

\* A cancelled campaign that no client and no worker has in hand; another
\* cancellation may be about to be written.
Dropped ==
    /\ status = "cancelled"
    /\ \A p \in Process : proc[p].at \in {"rest", "stopped", "cancelled"}

\* Cancelling holds from the moment nobody holds the campaign: no poll takes it up
\* again and no schedule or send revives it.  Before that moment 'sent' may still
\* overwrite it, for the status is read once per poll (processDueCampaigns).
CancelledIsDropped == [][Dropped => Dropped' /\ UNCHANGED <<recipient, delivered>>]_vars

\* A campaign in flight, due or resumed by another worker, is finished with every
\* recipient it had settled, unless it is cancelled, rescheduled or no worker is left.
SendingSettles ==
    \A c \in Contact :
        recipient[c] = "queued" /\ status = "sending" ~>
            \/ recipient[c] # "queued" \/ status # "sending"
            \/ \A w \in Worker : At(w, "stopped")
===============================================================================
