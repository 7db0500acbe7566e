--------------------------- MODULE BroadcastProofs ----------------------------
(***************************************************************************)
(* Proofs about Broadcast for any contacts, requests, workers and bounds.  *)
(* The inductive invariant says what the processes hold between two calls: *)
(* whom they handle, whose acknowledgement they have, and, as long as no   *)
(* worker delivered while recipients were being created, that a worker     *)
(* still holds everyone who is queued.                                     *)
(***************************************************************************)
EXTENDS Broadcast, FiniteSetTheorems, TLAPS

Step == {"rest", "scheduled", "cancelled", "evaluate", "setSending", "create",
         "list", "send", "markSent", "markFailed", "finish", "stopped"}

HandledWereEligible ==
    /\ \A p \in Process : proc[p].todo \subseteq evaluated /\ proc[p].held \subseteq evaluated
    /\ \A c \in Contact : recipient[c] # "none" => c \in evaluated

HeldOnlyToMark ==
    \A p \in Process :
        /\ proc[p].at \notin {"markSent", "markFailed"} => proc[p].held = {}
        /\ At(p, "finish") => proc[p].todo = {}

HeldWasDelivered ==
    \A p \in Process : At(p, "markSent") => \A c \in proc[p].held : delivered[c] > 0

CreationApart == ~raced => Creating = {} \/ Delivering = {}

SentApart == status = "sent" /\ ~raced => Creating = {}

ListedIsHeld == ~raced => \A w \in Delivering : Queued \subseteq proc[w].todo \union proc[w].held

IInv ==
    /\ TypeOK
    /\ HandledWereEligible /\ HeldOnlyToMark /\ HeldWasDelivered
    /\ DeliveredWasEligible /\ SentWasDelivered
    /\ CreationApart /\ SentApart /\ ListedIsHeld /\ NoneLeftBehind

LEMMA InitEstablishes == Init => IInv
<1> SUFFICES ASSUME Init PROVE IInv
  OBVIOUS
<1>1. \A p \in Process : proc[p].at = "rest" /\ proc[p].todo = {} /\ proc[p].held = {}
  BY DEF Init, Rest
<1>2. TypeOK
  <2>1. Rest \in [at : Step, todo : SUBSET Contact, held : SUBSET Contact]
    BY DEF Rest, Step
  <2>2. proc \in [Process -> [at : Step, todo : SUBSET Contact, held : SUBSET Contact]]
    BY <2>1 DEF Init
  <2>3. requests \in 0..MaxRequests /\ crashes \in 0..MaxCrashes
    BY BroadcastAssumption DEF Init
  <2>4. /\ recipient \in [Contact -> {"none", "queued", "sent", "failed"}]
        /\ delivered \in [Contact -> Nat]
    BY DEF Init
  <2>5. status \in {"draft", "scheduled", "sending", "sent", "cancelled"}
    BY DEF Init
  <2>6. evaluated \in SUBSET Contact /\ raced \in BOOLEAN
    BY DEF Init
  <2> QED
    BY <2>2, <2>3, <2>4, <2>5, <2>6 DEF TypeOK, Step
<1>3. Queued = {} /\ Creating = {} /\ Delivering = {}
  BY <1>1 DEF Init, Queued, Creating, Delivering, At, Process
<1>4. HandledWereEligible /\ HeldOnlyToMark /\ HeldWasDelivered
  BY <1>1 DEF Init, HandledWereEligible, HeldOnlyToMark, HeldWasDelivered, At
<1>5. DeliveredWasEligible /\ SentWasDelivered
  BY DEF Init, DeliveredWasEligible, SentWasDelivered
<1> QED
  BY <1>2, <1>3, <1>4, <1>5 DEF IInv, CreationApart, SentApart, ListedIsHeld, NoneLeftBehind

-------------------------------------------------------------------------------
(* What the operators that move a process do to it and to the others. *)

LEMMA MovedProcess ==
    ASSUME TypeOK, NEW p \in Process, NEW s \in Step, NEW t \in SUBSET Contact,
           NEW h \in SUBSET Contact,
           proc' = [proc EXCEPT ![p] = [at |-> s, todo |-> t, held |-> h]]
    PROVE  /\ proc' \in [Process -> [at : Step, todo : SUBSET Contact, held : SUBSET Contact]]
           /\ proc'[p].at = s /\ proc'[p].todo = t /\ proc'[p].held = h
           /\ \A q \in Process : q # p => proc'[q] = proc[q]
BY DEF TypeOK, Step

LEMMA Done ==
    ASSUME TypeOK, NEW p \in Process, NEW s \in Step, NEW t \in SUBSET Contact, Do(p, s, t)
    PROVE  /\ proc' \in [Process -> [at : Step, todo : SUBSET Contact, held : SUBSET Contact]]
           /\ proc'[p].at = s /\ proc'[p].todo = t /\ proc'[p].held = {}
           /\ \A q \in Process : q # p => proc'[q] = proc[q]
           /\ raced' \in BOOLEAN
           /\ raced => raced'
           /\ ~raced' => Creating' = {} \/ Delivering' = {}
<1>1. proc' = [proc EXCEPT ![p] = [at |-> s, todo |-> t, held |-> {}]]
  BY DEF Do
<1>2. {} \in SUBSET Contact
  OBVIOUS
<1>3. raced' \in BOOLEAN /\ (raced => raced') /\ (~raced' => Creating' = {} \/ Delivering' = {})
  BY DEF Do, TypeOK
<1> QED
  BY <1>1, <1>2, <1>3, MovedProcess

LEMMA Handled ==
    ASSUME TypeOK, NEW p \in Process
    PROVE  /\ proc[p].at \in Step
           /\ proc[p].todo \in SUBSET Contact
           /\ proc[p].held \in SUBSET Contact
BY DEF TypeOK, Step

\* Who creates and who delivers after p alone moved.
LEMMA OthersUnmoved ==
    ASSUME NEW p \in Process, \A q \in Process : q # p => proc'[q] = proc[q]
    PROVE  /\ \A q \in Process : q # p => (q \in Creating' <=> q \in Creating)
           /\ \A w \in Worker : w # p => (w \in Delivering' <=> w \in Delivering)
BY DEF Creating, Delivering, At, Process

-------------------------------------------------------------------------------
(* Type correctness. *)

ProcType == [Process -> [at : Step, todo : SUBSET Contact, held : SUBSET Contact]]

LEMMA RestType == {Rest, Stopped} \subseteq [at : Step, todo : SUBSET Contact, held : SUBSET Contact]
BY DEF Rest, Stopped, Step

LEMMA ClientType ==
    ASSUME TypeOK, NEW p \in Request, Schedule(p) \/ Send(p) \/ Cancel(p) \/ UpdateCampaignStatus(p)
    PROVE  TypeOK'
<1>0. p \in Process /\ {} \in SUBSET Contact
  BY DEF Process
<1>1. ASSUME NEW s \in {"scheduled", "evaluate", "cancelled"}, Begin(p, s) PROVE TypeOK'
  <2>1. proc' \in ProcType /\ raced' \in BOOLEAN
    BY <1>0, <1>1, Done DEF Begin, Step, ProcType
  <2>2. requests' \in 0..MaxRequests
    BY <1>1, BroadcastAssumption DEF Begin, TypeOK
  <2> QED
    BY <1>1, <2>1, <2>2 DEF Begin, TypeOK, ProcType, Step
<1>2. CASE UpdateCampaignStatus(p)
  <2>1. proc' \in ProcType /\ raced' \in BOOLEAN
    BY <1>0, <1>2, Done DEF UpdateCampaignStatus, Step, ProcType
  <2>2. status' \in {"scheduled", "cancelled"}
    BY <1>2 DEF UpdateCampaignStatus
  <2> QED
    BY <1>2, <2>1, <2>2 DEF UpdateCampaignStatus, countVars, TypeOK, ProcType, Step
<1> QED
  BY <1>1, <1>2 DEF Schedule, Send, Cancel

LEMMA MaterialiseType ==
    ASSUME TypeOK, NEW p \in Process, MaterialiseAndSend(p)
    PROVE  TypeOK'
<1> USE DEF countVars
<1>1. CASE EvaluateSegment(p)
  <2>1. PICK eligible \in SUBSET Contact, s \in Step, t \in SUBSET Contact :
           evaluated' = evaluated \union eligible /\ Do(p, s, t)
    BY <1>1 DEF EvaluateSegment, Selections, Step
  <2>2. proc' \in ProcType /\ raced' \in BOOLEAN
    BY <2>1, Done DEF ProcType
  <2> QED
    BY <1>1, <2>1, <2>2 DEF EvaluateSegment, TypeOK, ProcType, Step
<1>2. CASE SetSending(p)
  <2>1. proc' \in ProcType /\ raced' \in BOOLEAN
    BY <1>2, Done, Handled DEF SetSending, Step, ProcType
  <2> QED
    BY <1>2, <2>1 DEF SetSending, TypeOK, ProcType, Step
<1>3. CASE CreateRecipient(p)
  <2>1. PICK c \in proc[p].todo, s \in Step :
           /\ recipient' = [recipient EXCEPT ![c] = IF @ = "none" THEN "queued" ELSE @]
           /\ Do(p, s, proc[p].todo \ {c})
    BY <1>3 DEF CreateRecipient, Step
  <2>2. c \in Contact /\ proc[p].todo \ {c} \in SUBSET Contact
    BY Handled
  <2>3. proc' \in ProcType /\ raced' \in BOOLEAN
    BY <2>1, <2>2, Done DEF ProcType
  <2>4. recipient' \in [Contact -> {"none", "queued", "sent", "failed"}]
    BY <2>1, <2>2 DEF TypeOK
  <2> QED
    BY <1>3, <2>3, <2>4 DEF CreateRecipient, TypeOK, ProcType, Step
<1> QED
  BY <1>1, <1>2, <1>3 DEF MaterialiseAndSend

LEMMA AnsweredType ==
    ASSUME TypeOK, NEW w \in Worker, NEW s \in {"markSent", "markFailed"},
           NEW c \in proc[w].todo, Answered(w, s, c)
    PROVE  /\ proc' \in ProcType
           /\ proc'[w].at = s /\ proc'[w].todo = proc[w].todo \ {c} /\ proc'[w].held = {c}
           /\ \A q \in Process : q # w => proc'[q] = proc[q]
<1>1. w \in Process /\ c \in Contact /\ s \in Step
  BY Handled DEF Process, Step
<1>2. proc' = [proc EXCEPT ![w] = [at |-> s, todo |-> proc[w].todo \ {c}, held |-> {c}]]
  BY <1>1 DEF Answered, TypeOK
<1>3. proc[w].todo \ {c} \in SUBSET Contact /\ {c} \in SUBSET Contact
  BY <1>1, Handled
<1> QED
  BY <1>1, <1>2, <1>3, MovedProcess DEF ProcType

LEMMA MarkType ==
    ASSUME TypeOK, NEW w \in Worker, NEW s \in {"sent", "failed"}, Mark(w, s)
    PROVE  TypeOK'
<1>1. w \in Process /\ proc[w].todo \in SUBSET Contact
  BY Handled DEF Process
<1>2. PICK step \in Step : Do(w, step, proc[w].todo)
  BY DEF Mark, Step
<1>3. proc' \in ProcType /\ raced' \in BOOLEAN
  BY <1>1, <1>2, Done DEF ProcType
<1>4. recipient' \in [Contact -> {"none", "queued", "sent", "failed"}]
  BY DEF Mark, TypeOK
<1> QED
  BY <1>3, <1>4 DEF Mark, countVars, TypeOK, ProcType, Step

LEMMA RejectedMark ==
    ASSUME TypeOK, NEW w \in Worker, proc' = [proc EXCEPT ![w].at = "markFailed"]
    PROVE  /\ proc' \in ProcType
           /\ proc'[w].at = "markFailed" /\ proc'[w].todo = proc[w].todo /\ proc'[w].held = proc[w].held
           /\ \A q \in Process : q # w => proc'[q] = proc[q]
BY DEF TypeOK, ProcType, Process, Step

LEMMA DeliveryType ==
    ASSUME TypeOK, NEW w \in Worker, ProcessDueCampaigns(w)
    PROVE  TypeOK'
<1> USE DEF countVars
<1>0. w \in Process /\ Queued \in SUBSET Contact /\ {} \in SUBSET Contact
  BY DEF Process, Queued
<1>1. CASE ListDue(w) \/ ListQueuedDeliveries(w) \/ FinishCampaign(w)
  <2>1. PICK s \in Step, t \in SUBSET Contact : Do(w, s, t)
    BY <1>0, <1>1 DEF ListDue, ListQueuedDeliveries, FinishCampaign, Step
  <2>2. proc' \in ProcType /\ raced' \in BOOLEAN
    BY <1>0, <2>1, Done DEF ProcType
  <2> QED
    BY <1>1, <2>2 DEF ListDue, ListQueuedDeliveries, FinishCampaign, TypeOK, ProcType, Step
<1>2. CASE SendDelivery(w)
  <2>1. PICK c \in proc[w].todo, s \in {"markSent", "markFailed"} :
           /\ Answered(w, s, c)
           /\ delivered' = [delivered EXCEPT ![c] = @ + 1] \/ delivered' = delivered
    BY <1>2 DEF SendDelivery
  <2>2. proc' \in ProcType
    BY <2>1, AnsweredType
  <2>3. delivered' \in [Contact -> Nat]
    BY <1>0, <2>1, Handled DEF TypeOK
  <2> QED
    BY <1>2, <2>2, <2>3 DEF SendDelivery, TypeOK, ProcType, Step
<1>3. CASE MarkRecipientDelivered(w)
  <2>1. CASE Mark(w, "sent")
    BY <2>1, MarkType
  <2>2. CASE ~Mark(w, "sent")
    <3>1. proc' \in ProcType
      BY <1>3, <2>2, RejectedMark DEF MarkRecipientDelivered
    <3> QED
      BY <1>3, <2>2, <3>1 DEF MarkRecipientDelivered, TypeOK, ProcType, Step
  <2> QED
    BY <2>1, <2>2
<1>4. CASE MarkRecipientFailed(w)
  BY <1>4, MarkType DEF MarkRecipientFailed
<1> QED
  BY <1>1, <1>2, <1>3, <1>4 DEF ProcessDueCampaigns

LEMMA FaultMoves ==
    ASSUME TypeOK, NEW p \in Process, Reject(p) \/ Restart(p)
    PROVE  /\ TypeOK'
           /\ proc'[p].at \in {"rest", "stopped"} /\ proc'[p].todo = {} /\ proc'[p].held = {}
           /\ \A q \in Process : q # p => proc'[q] = proc[q]
           /\ UNCHANGED <<status, recipient, requests, delivered, evaluated, raced>>
<1>1. PICK r \in {Rest, Stopped} : Fault(p, r)
  BY DEF Reject, Restart
<1>2. proc' \in ProcType
  BY <1>1, RestType DEF Fault, TypeOK, ProcType, Step
<1>3. crashes' \in 0..MaxCrashes
  BY <1>1, BroadcastAssumption DEF Fault, TypeOK
<1>4. TypeOK'
  BY <1>1, <1>2, <1>3 DEF Fault, TypeOK, ProcType, Step
<1>5. proc'[p] = r /\ \A q \in Process : q # p => proc'[q] = proc[q]
  BY <1>1 DEF Fault, TypeOK
<1> QED
  BY <1>1, <1>4, <1>5 DEF Fault, Rest, Stopped

LEMMA NextType == TypeOK /\ [Next]_vars => TypeOK'
<1> SUFFICES ASSUME TypeOK, [Next]_vars PROVE TypeOK'
  OBVIOUS
<1>1. CASE UNCHANGED vars
  BY <1>1 DEF vars, countVars, TypeOK
<1>2. CASE Next
  BY <1>2, ClientType, MaterialiseType, DeliveryType, FaultMoves DEF Next
<1> QED
  BY <1>1, <1>2
-------------------------------------------------------------------------------
(* Only eligible contacts are handled and delivered to. *)

Eligible == HandledWereEligible /\ DeliveredWasEligible

LEMMA EligibleClient ==
    ASSUME TypeOK, Eligible, NEW p \in Request,
           Schedule(p) \/ Send(p) \/ Cancel(p) \/ UpdateCampaignStatus(p)
    PROVE  Eligible'
<1>1. p \in Process /\ {} \in SUBSET Contact
  BY DEF Process
<1>2. PICK s \in Step : Do(p, s, {})
  BY DEF Schedule, Send, Cancel, UpdateCampaignStatus, Begin, Step
<1>3. UNCHANGED <<recipient, delivered, evaluated>>
  BY DEF Schedule, Send, Cancel, UpdateCampaignStatus, Begin
<1>4. \A q \in Process : proc'[q].todo \subseteq evaluated /\ proc'[q].held \subseteq evaluated
  BY <1>1, <1>2, Done DEF Eligible, HandledWereEligible
<1> QED
  BY <1>3, <1>4 DEF Eligible, HandledWereEligible, DeliveredWasEligible

LEMMA EligibleMaterialise ==
    ASSUME TypeOK, Eligible, NEW p \in Process, MaterialiseAndSend(p)
    PROVE  Eligible'
<1>1. CASE EvaluateSegment(p)
  <2>1. PICK eligible \in SUBSET Contact, s \in Step, t \in SUBSET Contact :
           t \subseteq eligible /\ evaluated' = evaluated \union eligible /\ Do(p, s, t)
    BY <1>1 DEF EvaluateSegment, Selections, Step
  <2>2. \A q \in Process : proc'[q].todo \subseteq evaluated' /\ proc'[q].held \subseteq evaluated'
    BY <2>1, Done DEF Eligible, HandledWereEligible
  <2> QED
    BY <1>1, <2>1, <2>2 DEF EvaluateSegment, Eligible, HandledWereEligible, DeliveredWasEligible
<1>2. CASE SetSending(p)
  <2>1. Do(p, "create", proc[p].todo) /\ UNCHANGED <<recipient, delivered, evaluated>>
    BY <1>2 DEF SetSending
  <2>2. \A q \in Process : proc'[q].todo \subseteq evaluated /\ proc'[q].held \subseteq evaluated
    BY <2>1, Done, Handled DEF Eligible, HandledWereEligible, Step
  <2> QED
    BY <2>1, <2>2 DEF Eligible, HandledWereEligible, DeliveredWasEligible
<1>3. CASE CreateRecipient(p)
  <2>1. PICK c \in proc[p].todo, s \in Step :
           /\ recipient' = [recipient EXCEPT ![c] = IF @ = "none" THEN "queued" ELSE @]
           /\ Do(p, s, proc[p].todo \ {c})
    BY <1>3 DEF CreateRecipient, Step
  <2>2. c \in evaluated /\ proc[p].todo \ {c} \in SUBSET Contact /\ UNCHANGED <<delivered, evaluated>>
    BY <1>3, Handled DEF CreateRecipient, Eligible, HandledWereEligible
  <2>3. \A q \in Process : proc'[q].todo \subseteq evaluated /\ proc'[q].held \subseteq evaluated
    BY <2>1, <2>2, Done DEF Eligible, HandledWereEligible
  <2>4. \A d \in Contact : recipient'[d] # "none" => d \in evaluated
    BY <2>1, <2>2 DEF TypeOK, Eligible, HandledWereEligible
  <2> QED
    BY <2>2, <2>3, <2>4 DEF Eligible, HandledWereEligible, DeliveredWasEligible
<1> QED
  BY <1>1, <1>2, <1>3 DEF MaterialiseAndSend

LEMMA EligibleMark ==
    ASSUME TypeOK, Eligible, NEW w \in Worker, NEW s \in {"sent", "failed"}, Mark(w, s)
    PROVE  Eligible'
<1>1. w \in Process /\ proc[w].todo \in SUBSET Contact
  BY Handled DEF Process
<1>2. PICK step \in Step : Do(w, step, proc[w].todo)
  BY DEF Mark, Step
<1>3. \A q \in Process : proc'[q].todo \subseteq evaluated /\ proc'[q].held \subseteq evaluated
  BY <1>1, <1>2, Done DEF Eligible, HandledWereEligible
<1>4. \A d \in Contact : recipient'[d] # "none" => recipient[d] # "none"
  BY DEF Mark, TypeOK
<1> QED
  BY <1>3, <1>4 DEF Mark, Eligible, HandledWereEligible, DeliveredWasEligible

LEMMA EligibleDelivery ==
    ASSUME TypeOK, Eligible, NEW w \in Worker, ProcessDueCampaigns(w)
    PROVE  Eligible'
<1>0. w \in Process /\ Queued \in SUBSET Contact /\ Queued \subseteq evaluated /\ {} \in SUBSET Contact
  BY DEF Process, Queued, Eligible, HandledWereEligible
<1>1. CASE ListDue(w) \/ ListQueuedDeliveries(w) \/ FinishCampaign(w)
  <2>1. PICK s \in Step, t \in SUBSET Contact : Do(w, s, t) /\ t \subseteq evaluated
    BY <1>0, <1>1 DEF ListDue, ListQueuedDeliveries, FinishCampaign, Step
  <2>2. \A q \in Process : proc'[q].todo \subseteq evaluated /\ proc'[q].held \subseteq evaluated
    BY <1>0, <2>1, Done DEF Eligible, HandledWereEligible
  <2> QED
    BY <1>1, <2>2 DEF ListDue, ListQueuedDeliveries, FinishCampaign, Eligible,
                      HandledWereEligible, DeliveredWasEligible
<1>2. CASE SendDelivery(w)
  <2>1. PICK c \in proc[w].todo, s \in {"markSent", "markFailed"} :
           /\ Answered(w, s, c)
           /\ delivered' = [delivered EXCEPT ![c] = @ + 1] \/ delivered' = delivered
    BY <1>2 DEF SendDelivery
  <2>2. c \in evaluated
    BY <1>0 DEF Eligible, HandledWereEligible
  <2>3. \A q \in Process : proc'[q].todo \subseteq evaluated /\ proc'[q].held \subseteq evaluated
    BY <1>0, <2>1, <2>2, AnsweredType DEF Eligible, HandledWereEligible
  <2>4. \A d \in Contact : delivered'[d] > 0 => d \in evaluated
    BY <2>1, <2>2 DEF TypeOK, Eligible, DeliveredWasEligible
  <2> QED
    BY <1>2, <2>3, <2>4 DEF SendDelivery, Eligible, HandledWereEligible, DeliveredWasEligible
<1>3. CASE MarkRecipientDelivered(w) /\ ~Mark(w, "sent")
  <2>1. \A q \in Process : proc'[q].todo \subseteq evaluated /\ proc'[q].held \subseteq evaluated
    BY <1>0, <1>3, RejectedMark DEF MarkRecipientDelivered, Eligible, HandledWereEligible
  <2> QED
    BY <1>3, <2>1 DEF MarkRecipientDelivered, Eligible, HandledWereEligible, DeliveredWasEligible
<1>4. CASE Mark(w, "sent") \/ MarkRecipientFailed(w)
  BY <1>4, EligibleMark DEF MarkRecipientFailed
<1> QED
  BY <1>1, <1>2, <1>3, <1>4 DEF ProcessDueCampaigns, MarkRecipientDelivered

LEMMA EligibleNext == TypeOK /\ Eligible /\ [Next]_vars => Eligible'
<1> SUFFICES ASSUME TypeOK, Eligible, [Next]_vars PROVE Eligible'
  OBVIOUS
<1>1. CASE UNCHANGED vars
  BY <1>1 DEF vars, Eligible, HandledWereEligible, DeliveredWasEligible
<1>2. ASSUME NEW p \in Process, Reject(p) \/ Restart(p) PROVE Eligible'
  <2>1. \A q \in Process : proc'[q].todo \subseteq evaluated /\ proc'[q].held \subseteq evaluated
    BY <1>2, FaultMoves DEF Eligible, HandledWereEligible
  <2> QED
    BY <1>2, <2>1, FaultMoves DEF Eligible, HandledWereEligible, DeliveredWasEligible
<1>3. CASE Next
  BY <1>2, <1>3, EligibleClient, EligibleMaterialise, EligibleDelivery DEF Next
<1> QED
  BY <1>1, <1>3
-------------------------------------------------------------------------------
(* A recipient is marked sent from an acknowledgement only. *)

Acknowledged == HeldOnlyToMark /\ HeldWasDelivered /\ SentWasDelivered

\* A process that moves by Do holds nothing, whatever it is about to do.
LEMMA DoneAcknowledged ==
    ASSUME TypeOK, Acknowledged, NEW p \in Process, NEW s \in Step, NEW t \in SUBSET Contact,
           Do(p, s, t), s = "finish" => t = {}, UNCHANGED delivered
    PROVE  HeldOnlyToMark' /\ HeldWasDelivered'
<1>1. \A q \in Process : q # p => proc'[q] = proc[q]
  BY Done
<1>2. proc'[p].at = s /\ proc'[p].todo = t /\ proc'[p].held = {}
  BY Done
<1> QED
  BY <1>1, <1>2 DEF Acknowledged, HeldOnlyToMark, HeldWasDelivered, At

LEMMA AcknowledgedClient ==
    ASSUME TypeOK, Acknowledged, NEW p \in Request,
           Schedule(p) \/ Send(p) \/ Cancel(p) \/ UpdateCampaignStatus(p)
    PROVE  Acknowledged'
<1>1. p \in Process /\ {} \in SUBSET Contact
  BY DEF Process
<1>2. PICK s \in Step : Do(p, s, {})
  BY DEF Schedule, Send, Cancel, UpdateCampaignStatus, Begin, Step
<1>3. UNCHANGED <<recipient, delivered>>
  BY DEF Schedule, Send, Cancel, UpdateCampaignStatus, Begin
<1> QED
  BY <1>1, <1>2, <1>3, DoneAcknowledged DEF Acknowledged, SentWasDelivered

LEMMA AcknowledgedMaterialise ==
    ASSUME TypeOK, Acknowledged, NEW p \in Process, MaterialiseAndSend(p)
    PROVE  Acknowledged'
<1>1. PICK s \in Step \ {"finish"}, t \in SUBSET Contact : Do(p, s, t)
  BY Handled DEF MaterialiseAndSend, EvaluateSegment, Selections, SetSending, CreateRecipient, Step
<1>2. UNCHANGED delivered
  BY DEF MaterialiseAndSend, EvaluateSegment, SetSending, CreateRecipient
<1>3. HeldOnlyToMark' /\ HeldWasDelivered'
  BY <1>1, <1>2, DoneAcknowledged
<1>4. \A c \in Contact : recipient'[c] = "sent" => recipient[c] = "sent"
  BY DEF MaterialiseAndSend, EvaluateSegment, SetSending, CreateRecipient, TypeOK
<1> QED
  BY <1>2, <1>3, <1>4 DEF Acknowledged, SentWasDelivered

LEMMA AcknowledgedMark ==
    ASSUME TypeOK, Acknowledged, NEW w \in Worker, NEW s \in {"sent", "failed"}, Mark(w, s),
           s = "sent" => \A c \in proc[w].held : delivered[c] > 0
    PROVE  Acknowledged'
<1>1. w \in Process /\ proc[w].todo \in SUBSET Contact
  BY Handled DEF Process
<1>2. PICK step \in Step : Do(w, step, proc[w].todo) /\ (step = "finish" => proc[w].todo = {})
  BY DEF Mark, Step
<1>3. HeldOnlyToMark' /\ HeldWasDelivered'
  BY <1>1, <1>2, DoneAcknowledged DEF Mark
<1>4. \A c \in Contact : recipient'[c] = "sent" => recipient[c] = "sent" \/ delivered[c] > 0
  BY DEF Mark, TypeOK
<1> QED
  BY <1>3, <1>4 DEF Mark, Acknowledged, SentWasDelivered

LEMMA AcknowledgedDelivery ==
    ASSUME TypeOK, Acknowledged, NEW w \in Worker, ProcessDueCampaigns(w)
    PROVE  Acknowledged'
<1>0. w \in Process /\ Queued \in SUBSET Contact /\ {} \in SUBSET Contact
  BY DEF Process, Queued
<1>1. CASE ListDue(w) \/ ListQueuedDeliveries(w) \/ FinishCampaign(w)
  <2>1. PICK s \in Step, t \in SUBSET Contact : Do(w, s, t) /\ (s = "finish" => t = {})
    BY <1>0, <1>1 DEF ListDue, ListQueuedDeliveries, FinishCampaign, Step
  <2>2. UNCHANGED <<recipient, delivered>>
    BY <1>1 DEF ListDue, ListQueuedDeliveries, FinishCampaign
  <2> QED
    BY <1>0, <2>1, <2>2, DoneAcknowledged DEF Acknowledged, SentWasDelivered
<1>2. CASE SendDelivery(w)
  <2>1. PICK c \in proc[w].todo, s \in {"markSent", "markFailed"} :
           /\ Answered(w, s, c)
           /\ \/ s = "markSent" /\ delivered' = [delivered EXCEPT ![c] = @ + 1]
              \/ s = "markFailed" /\ delivered' = delivered
    BY <1>2 DEF SendDelivery
  <2>2. c \in Contact
    BY <1>0, Handled
  <2>3. /\ proc'[w].at = s /\ proc'[w].held = {c}
        /\ \A q \in Process : q # w => proc'[q] = proc[q]
    BY <2>1, AnsweredType
  <2>4. \A d \in Contact : delivered[d] > 0 => delivered'[d] > 0
    BY <2>1, <2>2 DEF TypeOK
  <2>5. s = "markSent" => delivered'[c] > 0
    BY <2>1, <2>2 DEF TypeOK
  <2>6. HeldOnlyToMark'
    BY <2>1, <2>3 DEF Acknowledged, HeldOnlyToMark, At
  <2>7. HeldWasDelivered'
    BY <2>3, <2>4, <2>5, Handled DEF Acknowledged, HeldWasDelivered, At
  <2>8. SentWasDelivered'
    BY <1>2, <2>4 DEF SendDelivery, Acknowledged, SentWasDelivered
  <2> QED
    BY <2>6, <2>7, <2>8 DEF Acknowledged
<1>3. CASE MarkRecipientDelivered(w) /\ ~Mark(w, "sent")
  <2>1. /\ proc'[w].at = "markFailed"
        /\ \A q \in Process : q # w => proc'[q] = proc[q]
        /\ UNCHANGED <<recipient, delivered>>
    BY <1>3, RejectedMark DEF MarkRecipientDelivered
  <2> QED
    BY <2>1 DEF Acknowledged, HeldOnlyToMark, HeldWasDelivered, SentWasDelivered, At
<1>4. CASE MarkRecipientDelivered(w) /\ Mark(w, "sent")
  BY <1>0, <1>4, AcknowledgedMark DEF MarkRecipientDelivered, Acknowledged, HeldWasDelivered
<1>5. CASE MarkRecipientFailed(w)
  BY <1>5, AcknowledgedMark DEF MarkRecipientFailed
<1> QED
  BY <1>1, <1>2, <1>3, <1>4, <1>5 DEF ProcessDueCampaigns

LEMMA AcknowledgedNext == TypeOK /\ Acknowledged /\ [Next]_vars => Acknowledged'
<1> SUFFICES ASSUME TypeOK, Acknowledged, [Next]_vars PROVE Acknowledged'
  OBVIOUS
<1>1. CASE UNCHANGED vars
  BY <1>1 DEF vars, Acknowledged, HeldOnlyToMark, HeldWasDelivered, SentWasDelivered, At
<1>2. ASSUME NEW p \in Process, Reject(p) \/ Restart(p) PROVE Acknowledged'
  BY <1>2, FaultMoves DEF Acknowledged, HeldOnlyToMark, HeldWasDelivered, SentWasDelivered, At
<1>3. CASE Next
  BY <1>2, <1>3, AcknowledgedClient, AcknowledgedMaterialise, AcknowledgedDelivery DEF Next
<1> QED
  BY <1>1, <1>3
-------------------------------------------------------------------------------
(* While nobody delivers beside a creator, whoever is queued is in the hands *)
(* of every worker that delivers, and so of the one that finishes.           *)

Apart == CreationApart /\ SentApart /\ ListedIsHeld /\ NoneLeftBehind

DeliveringStep == {"send", "markSent", "markFailed", "finish"}

\* A move that queues nobody and does not finish the campaign.
LEMMA DoneApart ==
    ASSUME TypeOK, Apart, NEW p \in Process, NEW s \in Step, NEW t \in SUBSET Contact,
           Do(p, s, t), Queued' \subseteq Queued,
           ~raced /\ s \in DeliveringStep => Queued' \subseteq t,
           s = "create" => status' # "sent",
           status' = "sent" => status = "sent"
    PROVE  Apart'
<1>1. /\ proc'[p].at = s /\ proc'[p].todo = t /\ proc'[p].held = {}
      /\ \A q \in Process : q # p => proc'[q] = proc[q]
      /\ raced => raced'
      /\ CreationApart'
  BY Done DEF CreationApart
<1>2. SentApart'
  <2> SUFFICES ASSUME status' = "sent", ~raced', NEW q \in Process, At(q, "create")' PROVE FALSE
    BY DEF SentApart, Creating
  <2>1. q # p
    BY <1>1 DEF At
  <2>2. q \in Creating
    BY <1>1, <2>1 DEF Creating, At
  <2> QED
    BY <1>1, <2>2 DEF Apart, SentApart
<1>3. ListedIsHeld'
  <2> SUFFICES ASSUME ~raced', NEW w \in Worker, w \in Delivering'
               PROVE  Queued' \subseteq proc'[w].todo \union proc'[w].held
    BY DEF ListedIsHeld, Delivering
  <2>1. CASE w = p
    BY <1>1, <2>1 DEF Delivering, DeliveringStep
  <2>2. CASE w # p
    BY <1>1, <2>2 DEF Apart, ListedIsHeld, Delivering, Process
  <2> QED
    BY <2>1, <2>2
<1>4. NoneLeftBehind'
  BY <1>1 DEF Apart, NoneLeftBehind
<1> QED
  BY <1>1, <1>2, <1>3, <1>4 DEF Apart

LEMMA ApartClient ==
    ASSUME TypeOK, Apart, NEW p \in Request,
           Schedule(p) \/ Send(p) \/ Cancel(p) \/ UpdateCampaignStatus(p)
    PROVE  Apart'
<1>1. p \in Process /\ {} \in SUBSET Contact
  BY DEF Process
<1>2. PICK s \in {"scheduled", "evaluate", "cancelled", "rest"} : Do(p, s, {})
  BY DEF Schedule, Send, Cancel, UpdateCampaignStatus, Begin
<1>3. Queued' = Queued /\ (status' = "sent" => status = "sent")
  BY DEF Schedule, Send, Cancel, UpdateCampaignStatus, Begin, Queued
<1> QED
  BY <1>1, <1>2, <1>3, DoneApart DEF Step, DeliveringStep

LEMMA ApartCreate ==
    ASSUME TypeOK, Apart, NEW p \in Process, CreateRecipient(p)
    PROVE  Apart'
<1>1. PICK s \in {"create", "list", "rest"}, t \in SUBSET Contact : Do(p, s, t)
  BY Handled DEF CreateRecipient
<1>2. /\ proc'[p].at = s
      /\ \A q \in Process : q # p => proc'[q] = proc[q]
      /\ raced => raced'
      /\ CreationApart'
  BY <1>1, Done DEF CreationApart, Step
<1>3. p \in Creating /\ status' = status
  BY DEF CreateRecipient, Creating
<1>4. ~raced => status # "sent" /\ Delivering = {}
  BY <1>3 DEF Apart, SentApart, CreationApart
<1>5. ~raced' => Delivering' = {}
  <2> SUFFICES ASSUME ~raced', NEW w \in Worker, proc'[w].at \in DeliveringStep PROVE FALSE
    BY DEF Delivering, DeliveringStep
  <2>1. w # p
    BY <1>2 DEF DeliveringStep
  <2>2. w \in Delivering
    BY <1>2, <2>1 DEF Delivering, DeliveringStep, Process
  <2> QED
    BY <1>2, <1>4, <2>2
<1> QED
  BY <1>2, <1>3, <1>4, <1>5 DEF Apart, SentApart, ListedIsHeld, NoneLeftBehind

LEMMA ApartMaterialise ==
    ASSUME TypeOK, Apart, NEW p \in Process, MaterialiseAndSend(p)
    PROVE  Apart'
<1>1. CASE EvaluateSegment(p)
  <2>1. PICK s \in {"setSending", "rest", "stopped"}, t \in SUBSET Contact : Do(p, s, t)
    BY <1>1 DEF EvaluateSegment, Selections
  <2>2. Queued' = Queued /\ status' = status
    BY <1>1 DEF EvaluateSegment, Queued
  <2> QED
    BY <2>1, <2>2, DoneApart DEF Step, DeliveringStep
<1>2. CASE SetSending(p)
  <2>1. Do(p, "create", proc[p].todo) /\ proc[p].todo \in SUBSET Contact
    BY <1>2, Handled DEF SetSending
  <2>2. Queued' = Queued /\ status' = "sending"
    BY <1>2 DEF SetSending, Queued
  <2> QED
    BY <2>1, <2>2, DoneApart DEF Step, DeliveringStep
<1>3. CASE CreateRecipient(p)
  BY <1>3, ApartCreate
<1> QED
  BY <1>1, <1>2, <1>3 DEF MaterialiseAndSend

LEMMA ApartMark ==
    ASSUME TypeOK, Apart, NEW w \in Worker, NEW s \in {"sent", "failed"}, Mark(w, s),
           At(w, "markSent") \/ At(w, "markFailed")
    PROVE  Apart'
<1>1. w \in Process /\ proc[w].todo \in SUBSET Contact
  BY Handled DEF Process
<1>2. PICK step \in {"send", "finish"} : Do(w, step, proc[w].todo)
  BY DEF Mark
<1>3. Queued' \subseteq Queued \ proc[w].held
  BY DEF Mark, Queued, TypeOK
<1>4. w \in Delivering
  BY DEF Delivering, At
<1>5. ~raced => Queued' \subseteq proc[w].todo
  BY <1>3, <1>4 DEF Apart, ListedIsHeld
<1>6. status' = status
  BY DEF Mark
<1> QED
  BY <1>1, <1>2, <1>3, <1>5, <1>6, DoneApart DEF Step

\* The worker that finishes holds nobody, so nobody is queued.
LEMMA ApartFinish ==
    ASSUME TypeOK, Apart, HeldOnlyToMark, NEW w \in Worker, FinishCampaign(w)
    PROVE  Apart'
<1>1. w \in Process /\ w \in Delivering /\ Do(w, "rest", {}) /\ {} \in SUBSET Contact
  BY DEF FinishCampaign, Delivering, At, Process
<1>2. /\ proc'[w].at = "rest"
      /\ \A q \in Process : q # w => proc'[q] = proc[q]
      /\ raced => raced'
      /\ CreationApart'
  BY <1>1, Done DEF CreationApart, Step
<1>3. proc[w].todo = {} /\ proc[w].held = {} /\ Queued' = Queued
  BY <1>1 DEF FinishCampaign, HeldOnlyToMark, At, Queued
<1>4. ~raced => Queued = {} /\ Creating = {}
  BY <1>1, <1>3 DEF Apart, ListedIsHeld, CreationApart
<1>5. ~raced' => Creating' = {}
  BY <1>2, <1>4 DEF Creating, At
<1> QED
  BY <1>2, <1>3, <1>4, <1>5 DEF Apart, SentApart, ListedIsHeld, NoneLeftBehind

LEMMA ApartDelivery ==
    ASSUME TypeOK, Apart, HeldOnlyToMark, NEW w \in Worker, ProcessDueCampaigns(w)
    PROVE  Apart'
<1>0. w \in Process /\ Queued \in SUBSET Contact /\ {} \in SUBSET Contact
  BY DEF Process, Queued
<1>1. CASE ListDue(w) \/ ListQueuedDeliveries(w)
  <2>1. PICK s \in Step \ {"create"}, t \in SUBSET Contact :
           Do(w, s, t) /\ (s \in DeliveringStep => t = Queued)
    BY <1>0, <1>1 DEF ListDue, ListQueuedDeliveries, Step, DeliveringStep
  <2>2. Queued' = Queued /\ status' = status
    BY <1>1 DEF ListDue, ListQueuedDeliveries, Queued
  <2> QED
    BY <1>0, <2>1, <2>2, DoneApart
<1>2. CASE SendDelivery(w)
  <2>1. PICK c \in proc[w].todo, s \in {"markSent", "markFailed"} : Answered(w, s, c)
    BY <1>2 DEF SendDelivery
  <2>2. /\ proc'[w].at = s /\ proc'[w].todo = proc[w].todo \ {c} /\ proc'[w].held = {c}
        /\ \A q \in Process : q # w => proc'[q] = proc[q]
    BY <2>1, AnsweredType
  <2>3. proc[w].at = "send" /\ proc[w].held = {} /\ w \in Delivering
    BY <1>0, <1>2 DEF SendDelivery, HeldOnlyToMark, At, Delivering
  <2>4. Creating' = Creating /\ Delivering' = Delivering
    BY <2>2, <2>3 DEF Creating, Delivering, At, Process
  <2>5. \A v \in Delivering : proc'[v].todo \union proc'[v].held = proc[v].todo \union proc[v].held
    BY <2>2, <2>3 DEF Delivering, Process
  <2>6. Queued' = Queued /\ UNCHANGED <<status, raced>>
    BY <1>2 DEF SendDelivery, Queued
  <2> QED
    BY <2>4, <2>5, <2>6 DEF Apart, CreationApart, SentApart, ListedIsHeld, NoneLeftBehind
<1>3. CASE MarkRecipientDelivered(w) /\ ~Mark(w, "sent")
  <2>1. /\ proc'[w].at = "markFailed" /\ proc'[w].todo = proc[w].todo /\ proc'[w].held = proc[w].held
        /\ \A q \in Process : q # w => proc'[q] = proc[q]
    BY <1>3, RejectedMark DEF MarkRecipientDelivered
  <2>2. proc[w].at = "markSent"
    BY <1>3 DEF MarkRecipientDelivered, At
  <2>3. Creating' = Creating /\ Delivering' = Delivering
    BY <2>1, <2>2 DEF Creating, Delivering, At, Process
  <2>4. \A v \in Delivering : proc'[v].todo \union proc'[v].held = proc[v].todo \union proc[v].held
    BY <2>1 DEF Delivering, Process
  <2>5. Queued' = Queued /\ UNCHANGED <<status, raced>>
    BY <1>3 DEF MarkRecipientDelivered, Queued
  <2> QED
    BY <2>3, <2>4, <2>5 DEF Apart, CreationApart, SentApart, ListedIsHeld, NoneLeftBehind
<1>4. CASE MarkRecipientDelivered(w) /\ Mark(w, "sent")
  BY <1>4, ApartMark DEF MarkRecipientDelivered
<1>5. CASE MarkRecipientFailed(w)
  BY <1>5, ApartMark DEF MarkRecipientFailed
<1>6. CASE FinishCampaign(w)
  BY <1>6, ApartFinish
<1> QED
  BY <1>1, <1>2, <1>3, <1>4, <1>5, <1>6 DEF ProcessDueCampaigns

LEMMA ApartFault ==
    ASSUME TypeOK, Apart, NEW p \in Process, Reject(p) \/ Restart(p)
    PROVE  Apart'
<1>1. /\ proc'[p].at \in {"rest", "stopped"}
      /\ \A q \in Process : q # p => proc'[q] = proc[q]
      /\ UNCHANGED <<status, recipient, raced>>
  BY FaultMoves
<1>2. Creating' \subseteq Creating /\ Delivering' \subseteq Delivering \ {p} /\ Queued' = Queued
  BY <1>1 DEF Creating, Delivering, At, Process, Queued
<1>3. \A w \in Delivering' : proc'[w] = proc[w]
  BY <1>1, <1>2 DEF Delivering, Process
<1> QED
  BY <1>1, <1>2, <1>3 DEF Apart, CreationApart, SentApart, ListedIsHeld, NoneLeftBehind

LEMMA ApartNext == TypeOK /\ HeldOnlyToMark /\ Apart /\ [Next]_vars => Apart'
<1> SUFFICES ASSUME TypeOK, HeldOnlyToMark, Apart, [Next]_vars PROVE Apart'
  OBVIOUS
<1>1. CASE UNCHANGED vars
  BY <1>1 DEF vars, Apart, CreationApart, SentApart, ListedIsHeld, NoneLeftBehind,
              Creating, Delivering, Queued, At
<1>2. CASE Next
  BY <1>2, ApartClient, ApartMaterialise, ApartDelivery, ApartFault DEF Next
<1> QED
  BY <1>1, <1>2

-------------------------------------------------------------------------------
\* The invariant holds in every behaviour.
THEOREM Invariance == Spec => []IInv
<1>1. IInv /\ [Next]_vars => IInv'
  BY NextType, EligibleNext, AcknowledgedNext, ApartNext DEF IInv, Eligible, Acknowledged, Apart
<1> QED
  BY <1>1, InitEstablishes, PTL DEF Spec

\* Every variable of the broadcast stays in its type, whoever runs.
THEOREM TypeCorrect == Spec => []TypeOK
BY Invariance, PTL DEF IInv

\* No message of the campaign goes to a contact no evaluation found eligible:
\* consent is enforced by the segment, and the rows and the lists only pass it on.
THEOREM OnlyEligibleDelivered == Spec => []DeliveredWasEligible
BY Invariance, PTL DEF IInv

\* A recipient is marked sent only after the transport acknowledged it, with any
\* number of workers and of calls that reject.
THEOREM SentMeansDelivered == Spec => []SentWasDelivered
BY Invariance, PTL DEF IInv

\* A sent campaign leaves nobody queued, unless a worker delivered while recipients
\* were being created: that overlap is the only way to lose a recipient.
THEOREM NobodyLeftBehind == Spec => []NoneLeftBehind
BY Invariance, PTL DEF IInv

-------------------------------------------------------------------------------
(* Deliveries are counted. *)

Sending == {"send", "markSent", "markFailed"}

\* The workers that have contact c to deliver, and those that have its answer.
Listing(c) == {w \in Worker : proc[w].at \in Sending /\ c \in proc[w].todo}
Holding(c) == {w \in Worker : c \in proc[w].held}

HandledHaveRows ==
    \A w \in Worker, c \in Contact :
        w \in Listing(c) \/ w \in Holding(c) => recipient[c] # "none"

ListedOrHeld == \A p \in Process : proc[p].todo \cap proc[p].held = {}

\* Whatever was delivered to c is in somebody's hands or was cut short, until the row is
\* settled; from then on only who has it listed delivers it, each once.
Accounted(c) ==
    IF recipient[c] \in {"none", "queued"}
    THEN delivered[c] <= Cardinality(Holding(c)) + crashes
    ELSE delivered[c] + Cardinality(Listing(c)) <= Cardinality(Worker) + crashes

CountInv == HandledHaveRows /\ ListedOrHeld /\ \A c \in Contact : Accounted(c)

\* What a step may do to c: somebody lists it while it is queued; a worker delivers it
\* and holds the answer; its row is settled; or a fault drops what one process holds.
Lists(c) ==
    /\ recipient'[c] = recipient[c] \/ (recipient[c] = "none" /\ recipient'[c] = "queued")
    /\ delivered'[c] = delivered[c] /\ crashes' = crashes
    /\ Holding(c) \subseteq Holding(c)'
    /\ recipient[c] # "queued" => Listing(c)' \subseteq Listing(c)
Delivers(c) ==
    \E w \in Listing(c) \ Holding(c) :
        /\ recipient'[c] = recipient[c] /\ delivered'[c] \in {delivered[c], delivered[c] + 1}
        /\ crashes' = crashes
        /\ Listing(c)' \subseteq Listing(c) \ {w} /\ Holding(c) \union {w} \subseteq Holding(c)'
Settles(c) ==
    /\ recipient'[c] \in {"sent", "failed"}
    /\ delivered'[c] = delivered[c] /\ crashes' = crashes /\ Listing(c)' \subseteq Listing(c)
Drops(c) ==
    /\ recipient'[c] = recipient[c] /\ delivered'[c] = delivered[c] /\ crashes' = crashes + 1
    /\ Listing(c)' \subseteq Listing(c) /\ \E p \in Process : Holding(c) \ {p} \subseteq Holding(c)'

Handles == HandledHaveRows' /\ ListedOrHeld'
Ships == Handles /\ \A c \in Contact : Lists(c) \/ Delivers(c) \/ Settles(c) \/ Drops(c)

\* A process that holds no answer moves, and lists at most who is queued.
LEMMA QuietMove ==
    ASSUME TypeOK, HandledHaveRows, ListedOrHeld, NEW p \in Process,
           \A q \in Process : q # p => proc'[q] = proc[q],
           proc[p].held = {}, proc'[p].held = {},
           proc'[p].at \in Sending => proc'[p].todo \subseteq Queued,
           UNCHANGED <<delivered, crashes>>,
           \A c \in Contact : \/ recipient'[c] = recipient[c]
                              \/ recipient[c] = "none" /\ recipient'[c] = "queued"
    PROVE  Ships
<1>1. ASSUME NEW c \in Contact
      PROVE  /\ Holding(c)' = Holding(c)
             /\ \A w \in Listing(c)' : w \in Listing(c) \/ recipient[c] = "queued"
  BY DEF Holding, Listing, Process, Queued
<1>2. HandledHaveRows'
  BY <1>1 DEF HandledHaveRows
<1>3. ListedOrHeld'
  BY DEF ListedOrHeld
<1>4. \A c \in Contact : Lists(c)
  BY <1>1 DEF Lists
<1> QED
  BY <1>2, <1>3, <1>4 DEF Ships, Handles

LEMMA ClientShips ==
    ASSUME TypeOK, HeldOnlyToMark, HandledHaveRows, ListedOrHeld, NEW p \in Request,
           Schedule(p) \/ Send(p) \/ Cancel(p) \/ UpdateCampaignStatus(p)
    PROVE  Ships
<1>1. p \in Process /\ {} \in SUBSET Contact
  BY DEF Process
<1>2. PICK s \in Step \ Sending : Do(p, s, {})
  BY DEF Schedule, Send, Cancel, UpdateCampaignStatus, Begin, Step, Sending
<1>3. UNCHANGED <<recipient, delivered, crashes>> /\ proc[p].held = {}
  BY <1>1 DEF Schedule, Send, Cancel, UpdateCampaignStatus, Begin, At, HeldOnlyToMark, countVars
<1> QED
  BY <1>1, <1>2, <1>3, Done, QuietMove

LEMMA MaterialiseShips ==
    ASSUME TypeOK, HeldOnlyToMark, HandledHaveRows, ListedOrHeld, NEW p \in Process,
           MaterialiseAndSend(p)
    PROVE  Ships
<1>1. proc[p].held = {} /\ UNCHANGED <<delivered, crashes>>
  BY DEF MaterialiseAndSend, EvaluateSegment, SetSending, CreateRecipient, At, HeldOnlyToMark, countVars
<1>2. CASE EvaluateSegment(p)
  <2>1. PICK s \in Step \ Sending, t \in SUBSET Contact : Do(p, s, t)
    BY <1>2 DEF EvaluateSegment, Selections, Step, Sending
  <2> QED
    BY <1>1, <1>2, <2>1, Done, QuietMove DEF EvaluateSegment
<1>3. CASE SetSending(p)
  <2>1. Do(p, "create", proc[p].todo) /\ UNCHANGED recipient /\ "create" \in Step \ Sending
    BY <1>3 DEF SetSending, Step, Sending
  <2>2. proc[p].todo \in SUBSET Contact
    BY Handled
  <2> QED
    BY <1>1, <2>1, <2>2, Done, QuietMove
<1>4. CASE CreateRecipient(p)
  <2>1. PICK c \in proc[p].todo, s \in Step \ Sending :
           /\ recipient' = [recipient EXCEPT ![c] = IF @ = "none" THEN "queued" ELSE @]
           /\ Do(p, s, proc[p].todo \ {c})
    BY <1>4 DEF CreateRecipient, Step, Sending
  <2>2. proc[p].todo \ {c} \in SUBSET Contact
    BY Handled
  <2>3. \A d \in Contact : \/ recipient'[d] = recipient[d]
                           \/ recipient[d] = "none" /\ recipient'[d] = "queued"
    BY <2>1 DEF TypeOK
  <2> QED
    BY <1>1, <2>1, <2>2, <2>3, Done, QuietMove
<1> QED
  BY <1>2, <1>3, <1>4 DEF MaterialiseAndSend

LEMMA MarkShips ==
    ASSUME TypeOK, HandledHaveRows, ListedOrHeld, NEW w \in Worker,
           NEW s \in {"sent", "failed"}, proc[w].at \in {"markSent", "markFailed"}, Mark(w, s)
    PROVE  Ships
<1>1. w \in Process /\ proc[w].todo \in SUBSET Contact
  BY Handled DEF Process
<1>2. PICK step \in {"send", "finish"} : Do(w, step, proc[w].todo)
  BY DEF Mark
<1>3. /\ proc'[w].at = step /\ proc'[w].todo = proc[w].todo /\ proc'[w].held = {}
      /\ \A q \in Process : q # w => proc'[q] = proc[q]
  BY <1>1, <1>2, Done DEF Step
<1>4. /\ UNCHANGED <<delivered, crashes>>
      /\ \A c \in Contact : recipient'[c] = IF c \in proc[w].held /\ recipient[c] = "queued"
                                            THEN s ELSE recipient[c]
  BY DEF Mark, countVars
<1>5. ASSUME NEW c \in Contact
      PROVE  /\ Listing(c)' \subseteq Listing(c) /\ Holding(c)' = Holding(c) \ {w}
             /\ c \in proc[w].held => recipient'[c] \in {"sent", "failed"}
             /\ recipient[c] # "none" => recipient'[c] # "none"
  <2>1. Listing(c)' \subseteq Listing(c) /\ Holding(c)' = Holding(c) \ {w}
    BY <1>1, <1>3 DEF Listing, Holding, Sending, Process
  <2>2. c \in proc[w].held => recipient[c] # "none"
    BY DEF HandledHaveRows, Holding
  <2> QED
    BY <1>4, <2>1, <2>2 DEF TypeOK
<1>6. HandledHaveRows' /\ ListedOrHeld'
  <2>1. HandledHaveRows'
    BY <1>5 DEF HandledHaveRows
  <2> QED
    BY <1>1, <1>3, <2>1 DEF ListedOrHeld
<1>7. ASSUME NEW c \in Contact, c \in proc[w].held PROVE Settles(c)
  BY <1>4, <1>5, <1>7 DEF Settles
<1>8. ASSUME NEW c \in Contact, c \notin proc[w].held PROVE Lists(c)
  <2>1. Holding(c)' = Holding(c)
    BY <1>5, <1>8 DEF Holding
  <2> QED
    BY <1>4, <1>5, <1>8, <2>1 DEF Lists
<1> QED
  BY <1>6, <1>7, <1>8 DEF Ships, Handles

LEMMA DeliveryShips ==
    ASSUME TypeOK, HeldOnlyToMark, HandledHaveRows, ListedOrHeld, NEW w \in Worker,
           ProcessDueCampaigns(w)
    PROVE  Ships
<1>0. w \in Process /\ Queued \in SUBSET Contact /\ {} \in SUBSET Contact
  BY DEF Process, Queued
<1>1. CASE ListDue(w) \/ ListQueuedDeliveries(w) \/ FinishCampaign(w)
  <2>1. PICK s \in Step, t \in SUBSET Contact :
           Do(w, s, t) /\ (s \in Sending => t \subseteq Queued)
    BY <1>0, <1>1 DEF ListDue, ListQueuedDeliveries, FinishCampaign, Step, Sending
  <2>2. proc[w].held = {} /\ UNCHANGED <<recipient, delivered, crashes>>
    BY <1>0, <1>1 DEF ListDue, ListQueuedDeliveries, FinishCampaign, At, HeldOnlyToMark, countVars
  <2> QED
    BY <1>0, <2>1, <2>2, Done, QuietMove
<1>2. CASE SendDelivery(w)
  <2>1. PICK c \in proc[w].todo, s \in {"markSent", "markFailed"} :
           /\ Answered(w, s, c)
           /\ delivered' = [delivered EXCEPT ![c] = @ + 1] \/ delivered' = delivered
    BY <1>2 DEF SendDelivery
  <2>2. /\ proc'[w].at = s /\ proc'[w].todo = proc[w].todo \ {c} /\ proc'[w].held = {c}
        /\ \A q \in Process : q # w => proc'[q] = proc[q]
    BY <2>1, AnsweredType
  <2>3. proc[w].at = "send" /\ proc[w].held = {} /\ c \in Contact /\ UNCHANGED <<recipient, crashes>>
    BY <1>0, <1>2, Handled DEF SendDelivery, At, HeldOnlyToMark, countVars
  <2>4. /\ Listing(c)' = Listing(c) \ {w} /\ Holding(c)' = Holding(c) \union {w}
        /\ w \in Listing(c) /\ w \notin Holding(c)
        /\ \A d \in Contact : d # c => Listing(d)' = Listing(d) /\ Holding(d)' = Holding(d)
    BY <1>0, <2>2, <2>3 DEF Listing, Holding, Sending, Process
  <2>5. Delivers(c)
    <3>1. delivered'[c] \in {delivered[c], delivered[c] + 1}
      BY <2>1, <2>3 DEF TypeOK
    <3> QED
      BY <2>3, <2>4, <3>1 DEF Delivers
  <2>6. \A d \in Contact : d # c => Lists(d)
    <3>1. \A d \in Contact : d # c => delivered'[d] = delivered[d]
      BY <2>1 DEF TypeOK
    <3> QED
      BY <2>3, <2>4, <3>1 DEF Lists
  <2>7. HandledHaveRows' /\ ListedOrHeld'
    <3>1. HandledHaveRows'
      BY <2>3, <2>4 DEF HandledHaveRows
    <3> QED
      BY <1>0, <2>2, <3>1 DEF ListedOrHeld
  <2> QED
    BY <2>5, <2>6, <2>7 DEF Ships, Handles
<1>3. CASE MarkRecipientDelivered(w) /\ ~ Mark(w, "sent")
  <2>1. /\ proc'[w].at = "markFailed" /\ proc'[w].todo = proc[w].todo /\ proc'[w].held = proc[w].held
        /\ \A q \in Process : q # w => proc'[q] = proc[q]
    BY <1>3, RejectedMark DEF MarkRecipientDelivered
  <2>2. proc[w].at = "markSent" /\ UNCHANGED <<recipient, delivered, crashes>>
    BY <1>3 DEF MarkRecipientDelivered, At, countVars
  <2>3. \A c \in Contact : Listing(c)' = Listing(c) /\ Holding(c)' = Holding(c)
    BY <1>0, <2>1, <2>2 DEF Listing, Holding, Sending, Process
  <2>4. HandledHaveRows' /\ ListedOrHeld'
    <3>1. HandledHaveRows'
      BY <2>2, <2>3 DEF HandledHaveRows
    <3> QED
      BY <1>0, <2>1, <3>1 DEF ListedOrHeld
  <2>5. \A c \in Contact : Lists(c)
    BY <2>2, <2>3 DEF Lists
  <2> QED
    BY <2>4, <2>5 DEF Ships, Handles
<1>4. CASE MarkRecipientDelivered(w) /\ Mark(w, "sent")
  BY <1>4, MarkShips DEF MarkRecipientDelivered, At
<1>5. CASE MarkRecipientFailed(w)
  BY <1>5, MarkShips DEF MarkRecipientFailed, At
<1> QED
  BY <1>1, <1>2, <1>3, <1>4, <1>5 DEF ProcessDueCampaigns

LEMMA FaultShips ==
    ASSUME TypeOK, HandledHaveRows, ListedOrHeld, NEW p \in Process, Reject(p) \/ Restart(p)
    PROVE  Ships
<1>1. /\ proc'[p].at \in {"rest", "stopped"} /\ proc'[p].todo = {} /\ proc'[p].held = {}
      /\ \A q \in Process : q # p => proc'[q] = proc[q]
      /\ UNCHANGED <<recipient, delivered>>
  BY FaultMoves
<1>2. crashes' = crashes + 1
  BY DEF Reject, Restart, Fault
<1>3. \A c \in Contact : Listing(c)' \subseteq Listing(c) /\ Holding(c)' = Holding(c) \ {p}
  BY <1>1 DEF Listing, Holding, Sending, Process
<1>4. HandledHaveRows' /\ ListedOrHeld'
  <2>1. HandledHaveRows'
    BY <1>1, <1>3 DEF HandledHaveRows
  <2> QED
    BY <1>1, <2>1 DEF ListedOrHeld
<1>5. \A c \in Contact : Drops(c)
  BY <1>1, <1>2, <1>3 DEF Drops
<1> QED
  BY <1>4, <1>5 DEF Ships, Handles

\* Two sets of workers apart, in numbers.
LEMMA SeparateSets ==
    ASSUME NEW L \in SUBSET Worker, NEW H \in SUBSET Worker, L \cap H = {}
    PROVE  /\ IsFiniteSet(L) /\ IsFiniteSet(H)
           /\ Cardinality(L) \in Nat /\ Cardinality(H) \in Nat /\ Cardinality(Worker) \in Nat
           /\ Cardinality(L) + Cardinality(H) <= Cardinality(Worker)
<1>1. IsFiniteSet(L) /\ IsFiniteSet(H) /\ IsFiniteSet(Worker) /\ Cardinality(Worker) \in Nat
  BY BroadcastAssumption, FS_Subset, FS_CardinalityType
<1>2. Cardinality(L) \in Nat /\ Cardinality(H) \in Nat
  BY <1>1, FS_CardinalityType
<1>3. Cardinality(L \union H) = Cardinality(L) + Cardinality(H) - Cardinality(L \cap H)
  BY <1>1, FS_Union
<1>4. Cardinality(L \cap H) = 0
  BY FS_EmptySet
<1>5. Cardinality(L \union H) <= Cardinality(Worker)
  BY <1>1, FS_Subset
<1> QED
  BY <1>1, <1>2, <1>3, <1>4, <1>5

\* One set of workers in another, in numbers; and one with a worker more or less.
LEMMA Smaller ==
    ASSUME NEW S \in SUBSET Worker, NEW T \in SUBSET Worker
    PROVE  /\ S \subseteq T => Cardinality(S) <= Cardinality(T)
           /\ \A w \in T : S \subseteq T \ {w} => Cardinality(S) + 1 <= Cardinality(T)
           /\ \A p : S \ {p} \subseteq T => Cardinality(S) <= Cardinality(T) + 1
<1>1. IsFiniteSet(S) /\ IsFiniteSet(T) /\ Cardinality(S) \in Nat /\ Cardinality(T) \in Nat
  BY BroadcastAssumption, FS_Subset, FS_CardinalityType
<1>2. S \subseteq T => Cardinality(S) <= Cardinality(T)
  BY <1>1, FS_Subset
<1>3. ASSUME NEW w \in T, S \subseteq T \ {w} PROVE Cardinality(S) + 1 <= Cardinality(T)
  <2>1. IsFiniteSet(T \ {w}) /\ Cardinality(T \ {w}) = Cardinality(T) - 1
    BY <1>1, FS_RemoveElement
  <2>2. Cardinality(S) <= Cardinality(T \ {w})
    BY <1>3, <2>1, FS_Subset
  <2> QED
    BY <1>1, <2>1, <2>2
<1>4. ASSUME NEW p, S \ {p} \subseteq T PROVE Cardinality(S) <= Cardinality(T) + 1
  <2>1. S \subseteq T \union {p} /\ IsFiniteSet(T \union {p})
    BY <1>1, <1>4, FS_AddElement
  <2>2. Cardinality(S) <= Cardinality(T \union {p})
    BY <2>1, FS_Subset
  <2>3. Cardinality(T \union {p}) = Cardinality(T) \/ Cardinality(T \union {p}) = Cardinality(T) + 1
    BY <1>1, FS_AddElement
  <2> QED
    BY <1>1, <2>2, <2>3
<1> QED
  BY <1>2, <1>3, <1>4

LEMMA AccountedStep ==
    ASSUME TypeOK, TypeOK', ListedOrHeld, ListedOrHeld', NEW c \in Contact, Accounted(c),
           Lists(c) \/ Delivers(c) \/ Settles(c) \/ Drops(c)
    PROVE  Accounted(c)'
<1> DEFINE L == Listing(c)
           H == Holding(c)
           K == Listing(c)'
           J == Holding(c)'
           n == Cardinality(Worker)
           Open(s) == s \in {"none", "queued"}
<1>1. /\ L \in SUBSET Worker /\ H \in SUBSET Worker /\ K \in SUBSET Worker /\ J \in SUBSET Worker
      /\ L \cap H = {} /\ K \cap J = {}
  BY DEF Listing, Holding, ListedOrHeld, Process
<1>2. /\ recipient[c] \in {"none", "queued", "sent", "failed"}
      /\ recipient'[c] \in {"none", "queued", "sent", "failed"}
      /\ delivered[c] \in Nat /\ delivered'[c] \in Nat /\ crashes \in Nat /\ crashes' \in Nat
  BY BroadcastAssumption DEF TypeOK
<1>3. /\ Open(recipient[c]) => delivered[c] <= Cardinality(H) + crashes
      /\ ~ Open(recipient[c]) => delivered[c] + Cardinality(L) <= n + crashes
  BY DEF Accounted
<1> SUFFICES /\ Open(recipient'[c]) => delivered'[c] <= Cardinality(J) + crashes'
             /\ ~ Open(recipient'[c]) => delivered'[c] + Cardinality(K) <= n + crashes'
  BY DEF Accounted, Listing, Holding
<1>4. /\ Cardinality(L) \in Nat /\ Cardinality(H) \in Nat /\ Cardinality(L) + Cardinality(H) <= n
      /\ Cardinality(K) \in Nat /\ Cardinality(J) \in Nat /\ Cardinality(K) + Cardinality(J) <= n
      /\ n \in Nat
  <2> HIDE DEF L, H, K, J
  <2> QED
    BY <1>1, SeparateSets
<1> DEFINE l == Cardinality(L)
           h == Cardinality(H)
           k == Cardinality(K)
           j == Cardinality(J)
<1>5. CASE Lists(c)
  <2>1. /\ delivered'[c] = delivered[c] /\ crashes' = crashes /\ h <= j
        /\ Open(recipient[c]) <=> Open(recipient'[c])
        /\ ~ Open(recipient[c]) => k <= l
    <3>1. H \subseteq J /\ (~ Open(recipient[c]) => K \subseteq L)
      BY <1>5 DEF Lists
    <3>2. h <= j /\ (~ Open(recipient[c]) => k <= l)
      <4> HIDE DEF L, H, K, J, Open
      <4> QED
        BY <1>1, <3>1, Smaller
    <3> QED
      BY <1>2, <1>5, <3>2 DEF Lists
  <2> HIDE DEF l, h, k, j, n, Open
  <2> QED
    BY <1>2, <1>3, <1>4, <2>1 DEF l, h, k, j, n
<1>6. CASE Delivers(c)
  <2>1. PICK w \in L \ H :
           /\ recipient'[c] = recipient[c] /\ delivered'[c] \in {delivered[c], delivered[c] + 1}
           /\ crashes' = crashes /\ K \subseteq L \ {w} /\ H \union {w} \subseteq J
    BY <1>6 DEF Delivers
  <2>2. k + 1 <= l
    <3> HIDE DEF L, H, K, J
    <3> QED
      BY <1>1, <2>1, Smaller
  <2>3. h + 1 <= j
    <3>1. w \in J /\ H \subseteq J \ {w}
      BY <2>1
    <3> HIDE DEF L, H, K, J
    <3> QED
      BY <1>1, <3>1, Smaller
  <2>4. /\ recipient'[c] = recipient[c] /\ crashes' = crashes
        /\ delivered'[c] <= delivered[c] + 1
    BY <1>2, <2>1
  <2> HIDE DEF l, h, k, j, n, Open
  <2> QED
    BY <1>2, <1>3, <1>4, <2>2, <2>3, <2>4 DEF l, h, k, j, n
<1>7. CASE Settles(c)
  <2>1. ~ Open(recipient'[c]) /\ delivered'[c] = delivered[c] /\ crashes' = crashes /\ K \subseteq L
    BY <1>7 DEF Settles
  <2>2. k <= l
    <3> HIDE DEF L, K
    <3> QED
      BY <1>1, <2>1, Smaller
  <2> HIDE DEF l, h, k, j, n, Open
  <2>3. delivered[c] + l <= n + crashes
    BY <1>2, <1>3, <1>4 DEF l, h, k, j, n
  <2> QED
    BY <1>2, <1>4, <2>1, <2>2, <2>3 DEF l, h, k, j, n
<1>8. CASE Drops(c)
  <2>1. PICK p : H \ {p} \subseteq J
    BY <1>8 DEF Drops
  <2>2. /\ recipient'[c] = recipient[c] /\ delivered'[c] = delivered[c] /\ crashes' = crashes + 1
        /\ K \subseteq L
    BY <1>8 DEF Drops
  <2>3. k <= l /\ h <= j + 1
    <3> HIDE DEF L, H, K, J
    <3> QED
      BY <1>1, <2>1, <2>2, Smaller
  <2> HIDE DEF l, h, k, j, n, Open
  <2> QED
    BY <1>2, <1>3, <1>4, <2>2, <2>3 DEF l, h, k, j, n
<1> QED
  BY <1>5, <1>6, <1>7, <1>8

LEMMA CountInit == Init => CountInv
<1> SUFFICES ASSUME Init PROVE CountInv
  OBVIOUS
<1>1. /\ \A p \in Process : proc[p].at = "rest" /\ proc[p].todo = {} /\ proc[p].held = {}
      /\ crashes = 0 /\ \A c \in Contact : recipient[c] = "none" /\ delivered[c] = 0
  BY DEF Init, Rest
<1>2. \A c \in Contact : Listing(c) = {} /\ Holding(c) = {}
  BY <1>1 DEF Listing, Holding, Sending, Process
<1>3. HandledHaveRows /\ ListedOrHeld
  BY <1>1, <1>2 DEF HandledHaveRows, ListedOrHeld
<1>4. \A c \in Contact : Accounted(c)
  BY <1>1, <1>2, FS_EmptySet DEF Accounted
<1> QED
  BY <1>3, <1>4 DEF CountInv

LEMMA CountNext == TypeOK /\ HeldOnlyToMark /\ CountInv /\ [Next]_vars => CountInv'
<1> SUFFICES ASSUME TypeOK, HeldOnlyToMark, CountInv, [Next]_vars PROVE CountInv'
  OBVIOUS
<1>1. CASE UNCHANGED vars
  BY <1>1 DEF vars, countVars, CountInv, HandledHaveRows, ListedOrHeld, Accounted, Listing, Holding
<1>2. CASE Next
  <2>1. Ships
    BY <1>2, ClientShips, MaterialiseShips, DeliveryShips, FaultShips DEF Next, CountInv
  <2>2. TypeOK'
    BY NextType
  <2>3. \A c \in Contact : Accounted(c)'
    BY <2>1, <2>2, AccountedStep DEF Ships, Handles, CountInv
  <2> QED
    BY <2>1, <2>3 DEF Ships, Handles, CountInv
<1> QED
  BY <1>1, <1>2

\* Workers that share a campaign deliver the same recipient side by side, but beyond once
\* per worker only a fault between delivery and write repeats it, however often the
\* campaign is sent and materialised again (processDueCampaigns, sendDelivery).
THEOREM DeliveriesAreCounted == Spec => []DeliveriesBounded
<1>1. IInv /\ CountInv /\ [Next]_vars => CountInv'
  BY CountNext DEF IInv
<1>2. IInv /\ CountInv => DeliveriesBounded
  <2> SUFFICES ASSUME TypeOK, CountInv, NEW c \in Contact
               PROVE  delivered[c] <= Cardinality(Worker) + crashes
    BY DEF DeliveriesBounded, IInv
  <2>1. Listing(c) \in SUBSET Worker /\ Holding(c) \in SUBSET Worker /\ Listing(c) \cap Holding(c) = {}
    BY DEF Listing, Holding, CountInv, ListedOrHeld, Process
  <2>2. /\ Cardinality(Listing(c)) \in Nat /\ Cardinality(Holding(c)) \in Nat
        /\ Cardinality(Worker) \in Nat
        /\ Cardinality(Listing(c)) + Cardinality(Holding(c)) <= Cardinality(Worker)
    BY <2>1, SeparateSets
  <2>3. delivered[c] \in Nat /\ crashes \in Nat
    BY BroadcastAssumption DEF TypeOK
  <2>4. Accounted(c)
    BY DEF CountInv
  <2> QED
    BY <2>2, <2>3, <2>4 DEF Accounted
<1> QED
  BY Invariance, CountInit, <1>1, <1>2, PTL DEF Spec

-------------------------------------------------------------------------------
(* Cancellation *)

\* Once a cancelled campaign is in nobody's hands, no poll takes it up again, no schedule
\* or send revives it and no recipient is touched or delivered to (transition checks of
\* the campaign service, processDueCampaigns).
THEOREM CancellationHolds == Spec => CancelledIsDropped
<1>1. TypeOK /\ [Next]_vars => [Dropped => Dropped' /\ UNCHANGED <<recipient, delivered>>]_vars
  <2> SUFFICES ASSUME TypeOK, Next, Dropped PROVE Dropped' /\ UNCHANGED <<recipient, delivered>>
    OBVIOUS
  <2>0. \A p \in Process : proc[p].at \in {"rest", "stopped", "cancelled"}
    BY DEF Dropped
  <2>1. ASSUME NEW p \in Request, Schedule(p) \/ Send(p) \/ Cancel(p) PROVE FALSE
    BY <2>1 DEF Schedule, Send, Cancel, Dropped
  <2>2. ASSUME NEW p \in Request, UpdateCampaignStatus(p)
        PROVE  Dropped' /\ UNCHANGED <<recipient, delivered>>
    <3>1. p \in Process /\ "rest" \in Step /\ {} \in SUBSET Contact
      BY DEF Process, Step
    <3>2. status' = "cancelled" /\ Do(p, "rest", {}) /\ UNCHANGED <<recipient, delivered>>
      BY <2>0, <2>2, <3>1 DEF UpdateCampaignStatus
    <3>3. proc'[p].at = "rest" /\ \A q \in Process : q # p => proc'[q] = proc[q]
      BY <3>1, <3>2, Done
    <3> QED
      BY <2>0, <3>2, <3>3 DEF Dropped
  <2>3. ASSUME NEW p \in Process, MaterialiseAndSend(p) PROVE FALSE
    BY <2>0, <2>3 DEF MaterialiseAndSend, EvaluateSegment, SetSending, CreateRecipient, At
  <2>4. ASSUME NEW p \in Process, Reject(p) \/ Restart(p)
        PROVE  Dropped' /\ UNCHANGED <<recipient, delivered>>
    <3>1. /\ proc'[p].at \in {"rest", "stopped"}
          /\ \A q \in Process : q # p => proc'[q] = proc[q]
          /\ UNCHANGED <<status, recipient, delivered>>
      BY <2>4, FaultMoves
    <3> QED
      BY <3>1 DEF Dropped
  <2>5. ASSUME NEW w \in Worker, ProcessDueCampaigns(w) PROVE FALSE
    <3>1. w \in Process
      BY DEF Process
    <3> QED
      BY <2>0, <2>5, <3>1 DEF ProcessDueCampaigns, ListDue, ListQueuedDeliveries, SendDelivery,
         MarkRecipientDelivered, MarkRecipientFailed, FinishCampaign, At, Dropped
  <2> QED
    BY <2>1, <2>2, <2>3, <2>4, <2>5 DEF Next
<1> QED
  BY Invariance, <1>1, PTL DEF IInv, Spec, CancelledIsDropped
================================================================================
