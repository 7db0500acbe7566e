----------------------------- MODULE Appointments ------------------------------
(***************************************************************************)
(* Bookings and their reminders: the appointments and                      *)
(* appointment_reminders tables, the requests of the appointments API and  *)
(* the reminder workers.  A request is a process with one action per       *)
(* awaited database call; it may be abandoned between any two.             *)
(* Instants are natural numbers, a day is Day of them, and every day is    *)
(* open from Open to Close.  A row is named by its place in appt.          *)
(***************************************************************************)
EXTENDS Naturals, Sequences, FiniteSets

CONSTANTS Resource,
          Duration,    \* durations of the services, each at least 1
          Start,       \* instants that clients ask for
          Series,      \* recurrences: [step, extra], extra occurrences step apart
          Lead,        \* reminders of one appointment (REMINDER_LEADS_HOURS)
          Request,     \* API requests in flight at once
          Worker,      \* reminder workers
          Day, Open, Close,
          Exception,   \* availability exceptions: [resource, start, end]
          MaxRows,     \* bound: appointment rows
          MaxCrashes   \* bound: worker crashes

ASSUME CalendarAssumption ==
    /\ Duration \subseteq Nat \ {0}
    /\ Start \subseteq Nat
    /\ Series \subseteq [step : Nat, extra : Nat]
    /\ Day \in Nat \ {0} /\ Open \in Nat /\ Close \in Nat
    /\ MaxRows \in Nat /\ MaxCrashes \in Nat
    /\ IsFiniteSet(Worker)

Rest == [at |-> "rest"]
Poll == [at |-> "poll"]
Row == 1..MaxRows
Reminder == Row \X Lead

VARIABLES appt,       \* appointment rows in insertion order
          rem,        \* rem[r]: status of reminder r, "absent" before its row exists
          req,        \* req[p]: what request p is about to do and remembers
          worker,     \* worker[w]: likewise for a reminder worker
          delivered,  \* delivered[r]: times the transport carried reminder r
          crashes     \* worker crashes so far

vars == <<appt, rem, req, worker, delivered, crashes>>

Appointment ==
    [resource : Resource, start : Nat, end : Nat,
     status : {"booked", "cancelled", "rescheduled"}, from : 0..MaxRows]
Booking ==
    [at : {"check", "insert", "link", "markOriginal", "cancelReminders",
           "createReminders", "insertChild"},
     target : 0..MaxRows, resource : Resource, start : Nat, length : Duration,
     mine : 0..MaxRows, step : Nat, left : Nat]
Cancelling == [at : {"setCancelled", "cancelReminders"}, target : Row]

TypeOK ==
    /\ appt \in Seq(Appointment)
    /\ Len(appt) <= MaxRows
    /\ rem \in [Reminder -> {"absent", "scheduled", "sent", "failed", "cancelled"}]
    /\ req \in [Request -> {Rest} \union Booking \union Cancelling]
    /\ worker \in [Worker -> {Poll} \union
           [at : {"fetch", "send", "markSent", "markFailed"},
            batch : SUBSET Reminder, current : Reminder]]
    /\ delivered \in [Reminder -> Nat]
    /\ crashes \in 0..MaxCrashes

Init ==
    /\ appt = <<>>
    /\ rem = [r \in Reminder |-> "absent"]
    /\ req = [p \in Request |-> Rest]
    /\ worker = [w \in Worker |-> Poll]
    /\ delivered = [r \in Reminder |-> 0]
    /\ crashes = 0

-------------------------------------------------------------------------------
Overlaps(a, start, end) == a.start < end /\ start < a.end

\* isFree over listAppointmentsInRange and listExceptions: every appointment
\* that is not cancelled blocks, also one that was rescheduled away.
IsFree(resource, start, end) ==
    /\ \A i \in DOMAIN appt :
           ~ /\ appt[i].resource = resource
             /\ appt[i].status # "cancelled"
             /\ Overlaps(appt[i], start, end)
    /\ \A x \in Exception : ~(x.resource = resource /\ Overlaps(x, start, end))

\* The slots of a day start at its opening and are one service long each.
OpenSlot(resource, start, length) ==
    LET today == (start \div Day) * Day
    IN  /\ start >= today + Open
        /\ (start - (today + Open)) % length = 0
        /\ start + length <= today + Close
        /\ IsFree(resource, start, start + length)

\* Mutant: the constraint ignores an appointment that starts elsewhere.
ExcludesSameStart(resource, start, end) ==
    \E i \in DOMAIN appt :
        /\ appt[i].resource = resource
        /\ appt[i].status \in {"booked", "confirmed"}
        /\ appt[i].start = start

\* excl_appointments_resource_overlap.
Excludes(resource, start, end) ==
    \E i \in DOMAIN appt :
        /\ appt[i].resource = resource
        /\ appt[i].status \in {"booked", "confirmed"}
        /\ Overlaps(appt[i], start, end)

NewRow(resource, start, length) ==
    [resource |-> resource, start |-> start, end |-> start + length,
     status |-> "booked", from |-> 0]

At(p, step) == req[p].at = step
Step(p, r) == req' = [req EXCEPT ![p] = r]
GoTo(p, step) == Step(p, [req[p] EXCEPT !.at = step])
Return(p) == Step(p, Rest)

\* What the rest of a request is after its own reminders: the remaining
\* occurrences of a series, or the response.
AfterReminders(p) == IF req[p].left > 0 THEN GoTo(p, "insertChild") ELSE Return(p)

-------------------------------------------------------------------------------
Book(p) ==
    /\ req[p] = Rest
    /\ \E r \in Resource, s \in Start, d \in Duration,
          series \in Series \union {[step |-> 0, extra |-> 0]} :
          Step(p, [at |-> "check", target |-> 0, resource |-> r, start |-> s,
                   length |-> d, mine |-> 0, step |-> series.step, left |-> series.extra])
    /\ UNCHANGED <<appt, rem, worker, delivered, crashes>>

\* A cancelled appointment is refused, and so is any other after this read.
Cancel(p) ==
    /\ req[p] = Rest
    /\ \E i \in DOMAIN appt :
          /\ appt[i].status # "cancelled"
          /\ Step(p, [at |-> "setCancelled", target |-> i])
    /\ UNCHANGED <<appt, rem, worker, delivered, crashes>>

\* Mutant: any appointment may be rescheduled.
RescheduleAny(p) ==
    /\ req[p] = Rest
    /\ \E i \in DOMAIN appt, s \in Start, d \in Duration :
          Step(p, [at |-> "check", target |-> i, resource |-> appt[i].resource,
                   start |-> s, length |-> d, mine |-> 0, step |-> 0, left |-> 0])
    /\ UNCHANGED <<appt, rem, worker, delivered, crashes>>

\* The length is the service's, which may have been edited since the booking.
Reschedule(p) ==
    /\ req[p] = Rest
    /\ \E i \in DOMAIN appt, s \in Start, d \in Duration :
          /\ appt[i].status # "cancelled"
          /\ Step(p, [at |-> "check", target |-> i, resource |-> appt[i].resource,
                      start |-> s, length |-> d, mine |-> 0, step |-> 0, left |-> 0])
    /\ UNCHANGED <<appt, rem, worker, delivered, crashes>>

CheckSlot(p) ==
    /\ At(p, "check")
    /\ IF OpenSlot(req[p].resource, req[p].start, req[p].length)
       THEN GoTo(p, "insert")
       ELSE Return(p)
    /\ UNCHANGED <<appt, rem, worker, delivered, crashes>>

\* AppointmentsRepository.book: the constraint's error becomes a 409.
Insert(p) ==
    /\ At(p, "insert")
    /\ \/ /\ Excludes(req[p].resource, req[p].start, req[p].start + req[p].length)
          /\ Return(p)
          /\ UNCHANGED appt
       \/ /\ ~Excludes(req[p].resource, req[p].start, req[p].start + req[p].length)
          /\ Len(appt) < MaxRows
          /\ appt' = Append(appt, NewRow(req[p].resource, req[p].start, req[p].length))
          /\ Step(p, [req[p] EXCEPT !.mine = Len(appt) + 1,
                         !.at = IF req[p].target = 0 THEN "createReminders" ELSE "link"])
    /\ UNCHANGED <<rem, worker, delivered, crashes>>

\* Mutant: rescheduled_from_id is not unique.
LinkAny(p) ==
    /\ At(p, "link")
    /\ appt' = [appt EXCEPT ![req[p].mine].from = req[p].target]
    /\ GoTo(p, "markOriginal")
    /\ UNCHANGED <<rem, worker, delivered, crashes>>

\* rescheduled_from_id is unique: a second replacement stays unlinked.
Link(p) ==
    /\ At(p, "link")
    /\ \/ /\ \E i \in DOMAIN appt : appt[i].from = req[p].target
          /\ Return(p)
          /\ UNCHANGED appt
       \/ /\ \A i \in DOMAIN appt : appt[i].from # req[p].target
          /\ appt' = [appt EXCEPT ![req[p].mine].from = req[p].target]
          /\ GoTo(p, "markOriginal")
    /\ UNCHANGED <<rem, worker, delivered, crashes>>

\* Unconditional, whatever happened to the original since it was read.
MarkOriginal(p) ==
    /\ At(p, "markOriginal")
    /\ appt' = [appt EXCEPT ![req[p].target].status = "rescheduled"]
    /\ GoTo(p, "cancelReminders")
    /\ UNCHANGED <<rem, worker, delivered, crashes>>

SetCancelled(p) ==
    /\ At(p, "setCancelled")
    /\ appt' = [appt EXCEPT ![req[p].target].status = "cancelled"]
    /\ GoTo(p, "cancelReminders")
    /\ UNCHANGED <<rem, worker, delivered, crashes>>

CancelReminders(p) ==
    /\ At(p, "cancelReminders")
    /\ rem' = [r \in Reminder |->
                  IF r[1] = req[p].target /\ rem[r] = "scheduled" THEN "cancelled" ELSE rem[r]]
    /\ IF req[p] \in Cancelling THEN Return(p) ELSE GoTo(p, "createReminders")
    /\ UNCHANGED <<appt, worker, delivered, crashes>>

\* Only the reminders whose time is still to come are created.
CreateReminders(p) ==
    /\ At(p, "createReminders")
    /\ \E future \in SUBSET Lead :
          rem' = [r \in Reminder |->
                     IF r[1] = req[p].mine /\ r[2] \in future THEN "scheduled" ELSE rem[r]]
    /\ AfterReminders(p)
    /\ UNCHANGED <<appt, worker, delivered, crashes>>

\* A further occurrence is booked without an availability check or reminders; a
\* conflict ends the request and keeps the occurrences before it.
InsertChild(p) ==
    LET start == req[p].start + req[p].step
    IN  /\ At(p, "insertChild")
        /\ \/ /\ Excludes(req[p].resource, start, start + req[p].length)
              /\ Return(p)
              /\ UNCHANGED appt
           \/ /\ ~Excludes(req[p].resource, start, start + req[p].length)
              /\ Len(appt) < MaxRows
              /\ appt' = Append(appt, NewRow(req[p].resource, start, req[p].length))
              /\ IF req[p].left = 1
                 THEN Return(p)
                 ELSE Step(p, [req[p] EXCEPT !.start = start, !.left = @ - 1])
        /\ UNCHANGED <<rem, worker, delivered, crashes>>

\* The process stops, or an await rejects, between two calls.
Abandon(p) ==
    /\ req[p] # Rest
    /\ Return(p)
    /\ UNCHANGED <<appt, rem, worker, delivered, crashes>>

-------------------------------------------------------------------------------
Doing(w, step) == worker[w].at = step
WorkerStep(w, s) == worker' = [worker EXCEPT ![w] = s]
WorkerGoTo(w, step) == WorkerStep(w, [worker[w] EXCEPT !.at = step])
NextReminder(w) ==
    LET rest == worker[w].batch \ {worker[w].current}
    IN  IF rest = {} THEN WorkerStep(w, Poll)
        ELSE \E r \in rest : WorkerStep(w, [at |-> "fetch", batch |-> rest, current |-> r])

\* Mutant: the status is set whatever it is.
SetReminderStatusAlways(r, s) == rem' = [rem EXCEPT ![r] = s]

\* updateMany ... WHERE status = 'scheduled'.
SetReminderStatus(r, s) == rem' = [rem EXCEPT ![r] = IF @ = "scheduled" THEN s ELSE @]

\* Time decides which of the scheduled reminders are due.
ListDue(w) ==
    /\ worker[w] = Poll
    /\ \E due \in SUBSET {r \in Reminder : rem[r] = "scheduled"} :
          /\ due # {}
          /\ \E r \in due : WorkerStep(w, [at |-> "fetch", batch |-> due, current |-> r])
    /\ UNCHANGED <<appt, rem, req, delivered, crashes>>

\* The appointment's own status is not looked at.
GetReminderDelivery(w) ==
    /\ Doing(w, "fetch")
    /\ WorkerGoTo(w, IF rem[worker[w].current] = "scheduled" THEN "send" ELSE "markFailed")
    /\ UNCHANGED <<appt, rem, req, delivered, crashes>>

\* Mutant: an error of the transport is taken for success.
SendUnacknowledged(w) ==
    /\ Doing(w, "send")
    /\ \E carried \in BOOLEAN :
          /\ delivered' = [delivered EXCEPT ![worker[w].current] = IF carried THEN @ + 1 ELSE @]
          /\ WorkerGoTo(w, "markSent")
    /\ UNCHANGED <<appt, rem, req, crashes>>

\* The transport may carry the message and still reject.
Send(w) ==
    /\ Doing(w, "send")
    /\ \E carried, acknowledged \in BOOLEAN :
          /\ acknowledged => carried
          /\ delivered' = [delivered EXCEPT ![worker[w].current] = IF carried THEN @ + 1 ELSE @]
          /\ WorkerGoTo(w, IF acknowledged THEN "markSent" ELSE "markFailed")
    /\ UNCHANGED <<appt, rem, req, crashes>>

MarkSent(w) ==
    /\ Doing(w, "markSent")
    /\ \/ /\ SetReminderStatus(worker[w].current, "sent")
          /\ NextReminder(w)
       \/ /\ WorkerGoTo(w, "markFailed")       \* the write rejects
          /\ UNCHANGED rem
    /\ UNCHANGED <<appt, req, delivered, crashes>>

\* Mutant: a failed delivery is only logged.
MarkFailedQuietly(w) ==
    /\ Doing(w, "markFailed")
    /\ NextReminder(w)
    /\ UNCHANGED <<appt, rem, req, delivered, crashes>>

MarkFailed(w) ==
    /\ Doing(w, "markFailed")
    /\ SetReminderStatus(worker[w].current, "failed")
    /\ NextReminder(w)
    /\ UNCHANGED <<appt, req, delivered, crashes>>

\* The process stops and is restarted; so does it when MarkFailed rejects.
Crash(w) ==
    /\ worker[w] # Poll
    /\ crashes < MaxCrashes
    /\ crashes' = crashes + 1
    /\ WorkerStep(w, Poll)
    /\ UNCHANGED <<appt, rem, req, delivered>>

RequestStep(p) ==
    \/ Book(p) \/ Cancel(p) \/ Reschedule(p)
    \/ CheckSlot(p) \/ Insert(p) \/ Link(p) \/ MarkOriginal(p) \/ SetCancelled(p)
    \/ CancelReminders(p) \/ CreateReminders(p) \/ InsertChild(p)
    \/ Abandon(p)

ReminderStep(w) ==
    \/ ListDue(w) \/ GetReminderDelivery(w) \/ Send(w) \/ MarkSent(w) \/ MarkFailed(w)
    \/ Crash(w)

Next ==
    \/ \E p \in Request : RequestStep(p)
    \/ \E w \in Worker : ReminderStep(w)

Spec == Init /\ [][Next]_vars

-------------------------------------------------------------------------------
Held ==
    {[id |-> i, resource |-> appt[i].resource, start |-> appt[i].start, end |-> appt[i].end] :
        i \in {k \in DOMAIN appt : appt[k].status = "booked"}}
Released == {i \in DOMAIN appt : appt[i].status # "booked"}
Promise == INSTANCE Calendar WITH held <- Held, released <- Released

\* However requests race (the availability check is stale when the insert runs,
\* a series inserts unchecked, a cancel meets a reschedule), no two appointments
\* in force overlap on a resource and none comes back into force
\* (docs/api/appointments.md: "two requests for the same slot cannot both succeed").
CalendarSpec == Promise!Spec

\* An appointment is marked rescheduled only once its one replacement is linked to
\* it: no crash and no second reschedule leaves the customer without a successor
\* (linkReschedule).
RescheduledHasReplacement ==
    \A i \in DOMAIN appt : appt[i].status = "rescheduled" =>
        Cardinality({k \in DOMAIN appt : appt[k].from = i}) = 1

\* A cancelled appointment with no request at work on it.
Over(i) ==
    /\ i \in DOMAIN appt
    /\ appt[i].status = "cancelled"
    /\ \A p \in Request : req[p] # Rest => req[p].target # i

\* Cancelling holds from the moment nobody is at work on the appointment: it is not
\* revived and gets no replacement.  Before, a reschedule that read it earlier
\* overwrites the status (AppointmentsRepository.linkReschedule).
CancelledIsOver ==
    [][\A i \in Row : Over(i) =>
          /\ Over(i)'
          /\ \A k \in DOMAIN appt' : appt'[k].from = i => k \in DOMAIN appt /\ appt[k].from = i]_vars

\* A reminder is never recorded as sent unless the transport carried it
\* (docs/api/appointments.md: "it is never falsely reported sent").
SentWasDelivered == \A r \in Reminder : rem[r] = "sent" => delivered[r] > 0

\* A reminder that was sent, has failed or was cancelled keeps that status, though
\* a worker, a cancellation and a reschedule may all be about to write it.
ReminderSettlesOnce ==
    [][\A r \in Reminder : rem[r] \in {"sent", "failed", "cancelled"} => rem'[r] = rem[r]]_vars

\* A customer gets the same reminder twice only through a second worker or a
\* crash: nothing else sends it again (processDueReminders, which settles a
\* reminder however its delivery ended).
DeliveriesBounded ==
    \A r \in Reminder : delivered[r] <= Cardinality(Worker) + crashes

\* "Cancelling sets `cancelled` and cancels future reminders."
\* (docs/api/appointments.md:155)
CancelledRemindersCancelled ==
    \A i \in DOMAIN appt :
        (appt[i].status = "cancelled" /\ \A p \in Request : req[p] = Rest)
            => \A l \in Lead : rem[<<i, l>>] # "scheduled"
================================================================================
