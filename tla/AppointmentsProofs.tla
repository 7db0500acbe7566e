-------------------------- MODULE AppointmentsProofs ---------------------------
(***************************************************************************)
(* What bookings and their reminders keep for any resources, services,     *)
(* requests and workers.  The last section counts the deliveries of a      *)
(* reminder with the finite set of the workers that list or hold it.       *)
(***************************************************************************)
EXTENDS Appointments, FiniteSetTheorems, SequenceTheorems, TLAPS

RequestState == {Rest} \union Booking \union Cancelling
ReminderStatus == {"absent", "scheduled", "sent", "failed", "cancelled"}

\* A series that goes on has an occurrence left.
SeriesGoesOn == \A p \in Request : At(p, "insertChild") => req[p].left > 0

\* Between its insert and its reminders a request owns the row it has made: nobody
\* else does, and the row has no reminders.
Owns(p) == /\ req[p] \in Booking
           /\ req[p].at \in {"link", "markOriginal", "cancelReminders", "createReminders"}
OwnsAlone ==
    \A p \in Request : Owns(p) =>
        /\ req[p].mine \in DOMAIN appt
        /\ \A q \in Request \ {p} : Owns(q) => req[q].mine # req[p].mine
        /\ \A r \in Reminder : r[1] = req[p].mine => rem[r] = "absent"
RemindersHaveRow == \A r \in Reminder : rem[r] # "absent" => r[1] <= Len(appt)

\* A row is linked to at most one original, before the original is marked.
LinksFresh == \A p \in Request : At(p, "link") =>
                  req[p].target # 0 /\ appt[req[p].mine].from = 0
MarksLinked == \A p \in Request : At(p, "markOriginal") =>
                  req[p].target # 0 /\ \E k \in DOMAIN appt : appt[k].from = req[p].target
OneSuccessor == \A k, l \in DOMAIN appt :
                  appt[k].from = appt[l].from /\ appt[k].from # 0 => k = l
RescheduledIsLinked == \A i \in DOMAIN appt : appt[i].status = "rescheduled" =>
                  \E k \in DOMAIN appt : appt[k].from = i

\* Rows in force last some time and keep apart.
Apart ==
    /\ \A i \in DOMAIN appt : appt[i].start < appt[i].end
    /\ \A i, j \in DOMAIN appt :
          /\ i # j
          /\ appt[i].status = "booked" /\ appt[j].status = "booked"
          /\ appt[i].resource = appt[j].resource
          => ~Overlaps(appt[i], appt[j].start, appt[j].end)

\* A worker about to record a delivery has made it.
MarksDelivered == \A w \in Worker : Doing(w, "markSent") => delivered[worker[w].current] > 0

Rows == OwnsAlone /\ RemindersHaveRow /\ LinksFresh /\ MarksLinked /\ OneSuccessor
        /\ RescheduledIsLinked /\ Apart
IInv == TypeOK /\ SeriesGoesOn /\ Rows /\ MarksDelivered /\ SentWasDelivered

-------------------------------------------------------------------------------
(* The shapes of a request's step *)

\* Request p goes on as r.  It takes up only an appointment that is not cancelled.
Moves(p, r) ==
    /\ r \in RequestState
    /\ req' = [req EXCEPT ![p] = r]
    /\ r.at = "insertChild" => r.left > 0
    /\ r # Rest => \/ req[p] # Rest /\ r.target = req[p].target
                   \/ req[p] = Rest /\ r.target = 0
                   \/ req[p] = Rest /\ r.target \in DOMAIN appt
                      /\ appt[r.target].status # "cancelled"
    /\ UNCHANGED <<worker, delivered, crashes>>

StaysOff(r) == r.at \notin {"link", "markOriginal", "cancelReminders", "createReminders"}
KeepsRow(p, r) == Owns(p) /\ r.mine = req[p].mine

Quiet(p, r) ==
    /\ UNCHANGED <<appt, rem>>
    /\ StaysOff(r)

Adds(p, r) ==
    \E resource \in Resource, start \in Nat, length \in Duration :
       /\ ~Excludes(resource, start, start + length)
       /\ Len(appt) < MaxRows
       /\ appt' = Append(appt, NewRow(resource, start, length))
       /\ r \in Booking => /\ r.at \in {"link", "createReminders"} => r.mine = Len(appt) + 1
                           /\ r.at = "link" => r.target # 0
       /\ r.at \notin {"markOriginal", "cancelReminders"}
       /\ UNCHANGED rem

Links(p, r) ==
    /\ At(p, "link")
    /\ \A i \in DOMAIN appt : appt[i].from # req[p].target
    /\ appt' = [appt EXCEPT ![req[p].mine].from = req[p].target]
    /\ r \in Booking /\ r.at = "markOriginal" /\ KeepsRow(p, r)
    /\ UNCHANGED rem

Retires(p, r) ==
    \E s \in {"rescheduled", "cancelled"} :
       /\ req[p] # Rest
       /\ appt' = [appt EXCEPT ![req[p].target].status = s]
       /\ s = "rescheduled" => At(p, "markOriginal")
       /\ r.at = "cancelReminders"
       /\ r \in Booking => KeepsRow(p, r)
       /\ UNCHANGED rem

CancelsReminders(p, r) ==
    /\ UNCHANGED appt
    /\ rem' = [q \in Reminder |->
                  IF q[1] = req[p].target /\ rem[q] = "scheduled" THEN "cancelled" ELSE rem[q]]
    /\ r.at \in {"rest", "createReminders"}
    /\ r \in Booking => KeepsRow(p, r)

AddsReminders(p, r) ==
    /\ Owns(p)
    /\ UNCHANGED appt
    /\ \E future \in SUBSET Lead :
          rem' = [q \in Reminder |->
                     IF q[1] = req[p].mine /\ q[2] \in future THEN "scheduled" ELSE rem[q]]
    /\ StaysOff(r)

Shape(p, r) == Quiet(p, r) \/ Adds(p, r) \/ Links(p, r) \/ Retires(p, r)
               \/ CancelsReminders(p, r) \/ AddsReminders(p, r)

BookingStep == {"check", "insert", "link", "markOriginal", "cancelReminders",
                "createReminders", "insertChild"}

LEMMA BookingGoes ==
    ASSUME NEW b \in Booking, NEW step \in BookingStep
    PROVE  /\ [b EXCEPT !.at = step] \in Booking
           /\ [b EXCEPT !.at = step].at = step
           /\ [b EXCEPT !.at = step].target = b.target
           /\ [b EXCEPT !.at = step].mine = b.mine
           /\ [b EXCEPT !.at = step].left = b.left
           /\ [b EXCEPT !.at = step] # Rest
  BY DEF Booking, BookingStep, Rest

LEMMA KindsApart ==
    /\ Rest \notin Booking /\ Rest \notin Cancelling
    /\ \A b \in Booking : b \notin Cancelling
  BY DEF Rest, Booking, Cancelling

LEMMA BookingAt ==
    ASSUME TypeOK, NEW p \in Request,
           \/ At(p, "check") \/ At(p, "insert") \/ At(p, "link") \/ At(p, "markOriginal")
           \/ At(p, "createReminders") \/ At(p, "insertChild")
    PROVE  req[p] \in Booking /\ req[p] # Rest
  BY DEF TypeOK, At, Rest, Booking, Cancelling

LEMMA CancellingAt ==
    ASSUME TypeOK, NEW p \in Request, At(p, "setCancelled")
    PROVE  req[p] \in Cancelling /\ req[p] # Rest
  BY DEF TypeOK, At, Rest, Booking, Cancelling

LEMMA RowOfTable ==
    ASSUME appt \in Seq(Appointment), Len(appt) <= MaxRows, NEW i \in DOMAIN appt
    PROVE  i \in Row /\ i \in 1..Len(appt) /\ appt[i] \in Appointment
<1>1. i \in 1..Len(appt) /\ Len(appt) \in Nat
  OBVIOUS
<1>2. i \in Row
  BY <1>1, CalendarAssumption DEF Row
<1> QED
  BY <1>1, <1>2

LEMMA RestAllowed ==
    ASSUME NEW p \in Request, Return(p), UNCHANGED <<worker, delivered, crashes>>
    PROVE  Moves(p, Rest) /\ StaysOff(Rest) /\ Rest.at = "rest"
  BY DEF Return, Step, Moves, RequestState, StaysOff, Rest

LEMMA GoesOn ==
    ASSUME TypeOK, NEW p \in Request, req[p] \in Booking, req[p] # Rest,
           NEW step \in BookingStep, step = "insertChild" => req[p].left > 0,
           GoTo(p, step), UNCHANGED <<worker, delivered, crashes>>
    PROVE  \E r \in Booking :
              Moves(p, r) /\ r.at = step /\ r.target = req[p].target /\ r.mine = req[p].mine
<1>1. [req[p] EXCEPT !.at = step] \in Booking
  BY BookingGoes
<1>2. Moves(p, [req[p] EXCEPT !.at = step])
  BY <1>1, BookingGoes DEF GoTo, Step, Moves, RequestState
<1> QED
  BY <1>1, <1>2, BookingGoes

LEMMA BeginsShape ==
    ASSUME TypeOK, NEW p \in Request, Book(p) \/ Cancel(p) \/ Reschedule(p)
    PROVE  \E r \in RequestState : Moves(p, r) /\ Shape(p, r)
<1>1. CASE Book(p)
  <2>1. PICK resource \in Resource, s \in Start, d \in Duration,
             series \in Series \union {[step |-> 0, extra |-> 0]} :
             Step(p, [at |-> "check", target |-> 0, resource |-> resource, start |-> s,
                      length |-> d, mine |-> 0, step |-> series.step, left |-> series.extra])
    BY <1>1 DEF Book
  <2>2. series.step \in Nat /\ series.extra \in Nat /\ s \in Nat
    BY CalendarAssumption
  <2> DEFINE r == [at |-> "check", target |-> 0, resource |-> resource, start |-> s,
                   length |-> d, mine |-> 0, step |-> series.step, left |-> series.extra]
  <2>3. r \in Booking /\ r.at = "check" /\ r.target = 0
    BY <2>2, CalendarAssumption DEF Booking
  <2> QED
    BY <1>1, <2>1, <2>3 DEF Book, Moves, Step, RequestState, Shape, Quiet, StaysOff
<1>2. CASE Cancel(p)
  <2>1. PICK i \in DOMAIN appt : appt[i].status # "cancelled"
                                 /\ Step(p, [at |-> "setCancelled", target |-> i])
    BY <1>2 DEF Cancel
  <2> DEFINE r == [at |-> "setCancelled", target |-> i]
  <2>2. i \in Row
    BY RowOfTable DEF TypeOK
  <2>3. r \in Cancelling /\ r.at = "setCancelled" /\ r.target = i
    BY <2>2 DEF Cancelling
  <2>4. req[p] = Rest /\ Step(p, r) /\ UNCHANGED <<appt, rem, worker, delivered, crashes>>
    BY <1>2, <2>1 DEF Cancel
  <2> HIDE DEF r
  <2> QED
    BY <2>1, <2>3, <2>4 DEF Moves, Step, RequestState, Shape, Quiet, StaysOff
<1>3. CASE Reschedule(p)
  <2>1. PICK i \in DOMAIN appt, s \in Start, d \in Duration :
             /\ appt[i].status # "cancelled"
             /\ Step(p, [at |-> "check", target |-> i, resource |-> appt[i].resource,
                         start |-> s, length |-> d, mine |-> 0, step |-> 0, left |-> 0])
    BY <1>3 DEF Reschedule
  <2>2. i \in 0..MaxRows /\ appt[i].resource \in Resource /\ s \in Nat
    <3>1. i \in Row /\ appt[i] \in Appointment
      BY RowOfTable DEF TypeOK
    <3>2. i \in 0..MaxRows
      BY <3>1, CalendarAssumption DEF Row
    <3>3. appt[i].resource \in Resource
      BY <3>1 DEF Appointment
    <3> QED
      BY <3>2, <3>3, CalendarAssumption
  <2> DEFINE r == [at |-> "check", target |-> i, resource |-> appt[i].resource,
                   start |-> s, length |-> d, mine |-> 0, step |-> 0, left |-> 0]
  <2>3. r \in Booking /\ r.at = "check" /\ r.target = i
    BY <2>2, CalendarAssumption DEF Booking
  <2> QED
    BY <1>3, <2>1, <2>3 DEF Reschedule, Moves, Step, RequestState, Shape, Quiet, StaysOff
<1> QED
  BY <1>1, <1>2, <1>3

LEMMA InsertShape ==
    ASSUME TypeOK, SeriesGoesOn, NEW p \in Request, Insert(p) \/ InsertChild(p)
    PROVE  \E r \in RequestState : Moves(p, r) /\ Shape(p, r)
<1>1. UNCHANGED <<rem, worker, delivered, crashes>>
  BY DEF Insert, InsertChild
<1>2. req[p] \in Booking /\ req[p] # Rest
  BY BookingAt DEF Insert, InsertChild
<1>3. CASE Return(p) /\ UNCHANGED appt
  BY <1>1, <1>3, RestAllowed DEF Shape, Quiet, RequestState
<1>4. CASE Insert(p) /\ ~(Return(p) /\ UNCHANGED appt)
  <2> DEFINE next == IF req[p].target = 0 THEN "createReminders" ELSE "link"
             r == [req[p] EXCEPT !.mine = Len(appt) + 1, !.at = next]
  <2>1. /\ At(p, "insert")
        /\ ~Excludes(req[p].resource, req[p].start, req[p].start + req[p].length)
        /\ Len(appt) < MaxRows
        /\ appt' = Append(appt, NewRow(req[p].resource, req[p].start, req[p].length))
        /\ Step(p, r)
    BY <1>4 DEF Insert
  <2>2. Len(appt) + 1 \in 0..MaxRows
    BY <2>1, CalendarAssumption DEF TypeOK
  <2>3. next \in {"createReminders", "link"} /\ (next = "link" => req[p].target # 0)
    OBVIOUS
  <2> HIDE DEF next
  <2>4. /\ r \in Booking /\ r.at = next /\ r.mine = Len(appt) + 1
        /\ r.target = req[p].target /\ r.left = req[p].left
    BY <1>2, <2>2, <2>3 DEF Booking
  <2> HIDE DEF r
  <2>5. Moves(p, r)
    BY <1>1, <1>2, <2>1, <2>3, <2>4, KindsApart DEF Moves, Step, RequestState
  <2>6. req[p].resource \in Resource /\ req[p].start \in Nat /\ req[p].length \in Duration
    BY <1>2 DEF Booking
  <2>7. Adds(p, r)
    BY <1>1, <2>1, <2>3, <2>4, <2>6 DEF Adds
  <2> QED
    BY <2>4, <2>5, <2>7 DEF Shape, RequestState
<1>5. CASE InsertChild(p) /\ ~(Return(p) /\ UNCHANGED appt)
  <2> DEFINE start == req[p].start + req[p].step
             r == [[req[p] EXCEPT !.start = start] EXCEPT !.left = req[p].left - 1]
  <2>1. /\ At(p, "insertChild")
        /\ ~Excludes(req[p].resource, start, start + req[p].length)
        /\ Len(appt) < MaxRows
        /\ appt' = Append(appt, NewRow(req[p].resource, start, req[p].length))
        /\ IF req[p].left = 1 THEN Return(p)
           ELSE Step(p, [req[p] EXCEPT !.start = start, !.left = @ - 1])
    BY <1>5 DEF InsertChild
  <2>2. /\ req[p].resource \in Resource /\ start \in Nat /\ req[p].length \in Duration
        /\ req[p].left \in Nat /\ req[p].left > 0
    BY <1>2, <2>1 DEF Booking, SeriesGoesOn
  <2>3. CASE req[p].left = 1
    <3>1. Return(p)
      BY <2>1, <2>3
    <3>2. Adds(p, Rest)
      BY <1>1, <2>1, <2>2, KindsApart DEF Adds, Rest
    <3> QED
      BY <1>1, <3>1, <3>2, RestAllowed DEF Shape, RequestState
  <2>4. CASE req[p].left # 1
    <3>1. [req[p] EXCEPT !.start = start, !.left = @ - 1] = r
      BY <1>2 DEF Booking
    <3>2. Step(p, r)
      BY <2>1, <2>4, <3>1
    <3>3. req[p].left - 1 \in Nat /\ req[p].left - 1 > 0
      BY <2>2, <2>4
    <3>4. /\ r \in Booking /\ r.at = "insertChild" /\ r.target = req[p].target
          /\ r.left > 0
      BY <1>2, <2>1, <2>2, <3>3 DEF Booking, At
    <3> HIDE DEF r
    <3>5. Moves(p, r)
      BY <1>1, <1>2, <3>2, <3>4 DEF Moves, Step, RequestState
    <3>6. Adds(p, r)
      BY <1>1, <2>1, <2>2, <3>4 DEF Adds
    <3> QED
      BY <3>4, <3>5, <3>6 DEF Shape, RequestState
  <2> QED
    BY <2>3, <2>4
<1> QED
  BY <1>3, <1>4, <1>5

LEMMA RequestShape ==
    ASSUME TypeOK, SeriesGoesOn, NEW p \in Request, RequestStep(p)
    PROVE  \E r \in RequestState : Moves(p, r) /\ Shape(p, r)
<1>1. CASE CheckSlot(p)
  <2>1. req[p] \in Booking /\ req[p] # Rest
    BY <1>1, BookingAt DEF CheckSlot
  <2>2. CASE Return(p)
    BY <1>1, <2>2, RestAllowed DEF CheckSlot, Shape, Quiet, RequestState
  <2>3. CASE GoTo(p, "insert")
    BY <1>1, <2>1, <2>3, GoesOn DEF CheckSlot, BookingStep, Shape, Quiet, RequestState, StaysOff
  <2> QED
    BY <1>1, <2>2, <2>3 DEF CheckSlot
<1>2. CASE Link(p)
  <2>1. req[p] \in Booking /\ req[p] # Rest /\ Owns(p)
    BY <1>2, BookingAt DEF Link, Owns, At
  <2>2. CASE Return(p) /\ UNCHANGED appt
    BY <1>2, <2>2, RestAllowed DEF Link, Shape, Quiet, RequestState
  <2>3. CASE GoTo(p, "markOriginal") /\ ~(Return(p) /\ UNCHANGED appt)
    <3>1. PICK r \in Booking : /\ Moves(p, r) /\ r.at = "markOriginal"
                               /\ r.target = req[p].target /\ r.mine = req[p].mine
      BY <1>2, <2>1, <2>3, GoesOn DEF Link, BookingStep
    <3> QED
      BY <1>2, <2>1, <2>3, <3>1 DEF Link, Shape, Links, KeepsRow, RequestState
  <2> QED
    BY <1>2, <2>2, <2>3 DEF Link
<1>3. CASE MarkOriginal(p)
  <2>1. req[p] \in Booking /\ req[p] # Rest /\ Owns(p)
    BY <1>3, BookingAt DEF MarkOriginal, Owns, At
  <2>2. PICK r \in Booking : /\ Moves(p, r) /\ r.at = "cancelReminders"
                             /\ r.target = req[p].target /\ r.mine = req[p].mine
    BY <1>3, <2>1, GoesOn DEF MarkOriginal, BookingStep
  <2> QED
    BY <1>3, <2>1, <2>2 DEF MarkOriginal, Shape, Retires, KeepsRow, RequestState
<1>4. CASE SetCancelled(p)
  <2>1. req[p] \in Cancelling /\ req[p] # Rest
    BY <1>4, CancellingAt DEF SetCancelled
  <2> DEFINE r == [req[p] EXCEPT !.at = "cancelReminders"]
  <2>2. r \in Cancelling /\ r.at = "cancelReminders" /\ r.target = req[p].target
    BY <2>1 DEF Cancelling
  <2>3. Step(p, r)
    BY <1>4 DEF SetCancelled, GoTo
  <2> HIDE DEF r
  <2>4. Moves(p, r)
    BY <1>4, <2>1, <2>2, <2>3 DEF SetCancelled, Moves, Step, RequestState
  <2> QED
    BY <1>4, <2>1, <2>2, <2>4, KindsApart DEF SetCancelled, Shape, Retires, RequestState
<1>5. CASE CancelReminders(p)
  <2>1. CASE req[p] \in Cancelling
    BY <1>5, <2>1, RestAllowed, KindsApart
    DEF CancelReminders, Shape, CancelsReminders, RequestState
  <2>2. CASE req[p] \notin Cancelling
    <3>1. req[p] \in Booking /\ req[p] # Rest /\ Owns(p)
      BY <1>5, <2>2 DEF CancelReminders, At, TypeOK, Rest, Owns
    <3>2. PICK r \in Booking : /\ Moves(p, r) /\ r.at = "createReminders"
                               /\ r.target = req[p].target /\ r.mine = req[p].mine
      BY <1>5, <2>2, <3>1, GoesOn DEF CancelReminders, BookingStep
    <3> QED
      BY <1>5, <3>1, <3>2 DEF CancelReminders, Shape, CancelsReminders, KeepsRow, RequestState
  <2> QED
    BY <2>1, <2>2
<1>6. CASE CreateReminders(p)
  <2>1. req[p] \in Booking /\ req[p] # Rest /\ Owns(p)
    BY <1>6, BookingAt DEF CreateReminders, Owns, At
  <2>2. CASE Return(p)
    BY <1>6, <2>1, <2>2, RestAllowed DEF CreateReminders, Shape, AddsReminders, RequestState
  <2>3. CASE GoTo(p, "insertChild") /\ req[p].left > 0
    <3>1. PICK r \in Booking : Moves(p, r) /\ r.at = "insertChild"
      BY <1>6, <2>1, <2>3, GoesOn DEF CreateReminders, BookingStep
    <3> QED
      BY <1>6, <2>1, <3>1 DEF CreateReminders, Shape, AddsReminders, RequestState, StaysOff
  <2> QED
    BY <1>6, <2>2, <2>3 DEF CreateReminders, AfterReminders
<1>7. CASE Abandon(p)
  BY <1>7, RestAllowed DEF Abandon, Shape, Quiet, RequestState
<1> QED
  BY <1>1, <1>2, <1>3, <1>4, <1>5, <1>6, <1>7, BeginsShape, InsertShape DEF RequestStep

-------------------------------------------------------------------------------
(* What the tables are after a step of a request *)

LEMMA RequestAfter ==
    ASSUME TypeOK, SeriesGoesOn, NEW p \in Request, NEW r \in RequestState, Moves(p, r)
    PROVE  /\ req' \in [Request -> {Rest} \union Booking \union Cancelling]
           /\ req'[p] = r
           /\ \A q \in Request \ {p} : req'[q] = req[q]
           /\ SeriesGoesOn'
<1>1. /\ req' \in [Request -> {Rest} \union Booking \union Cancelling]
      /\ req'[p] = r
      /\ \A q \in Request \ {p} : req'[q] = req[q]
  BY DEF TypeOK, Moves, RequestState
<1>2. SeriesGoesOn'
  BY <1>1 DEF SeriesGoesOn, At, Moves
<1> QED
  BY <1>1, <1>2

LEMMA AppendedRow ==
    ASSUME appt \in Seq(Appointment), NEW a \in Appointment, appt' = Append(appt, a)
    PROVE  /\ appt' \in Seq(Appointment) /\ Len(appt') = Len(appt) + 1
           /\ Len(appt) \in Nat
           /\ DOMAIN appt = 1..Len(appt) /\ DOMAIN appt' = 1..(Len(appt) + 1)
           /\ appt'[Len(appt) + 1] = a
           /\ \A k \in DOMAIN appt : appt'[k] = appt[k]
  OBVIOUS

LEMMA UnchangedRow ==
    ASSUME appt \in Seq(Appointment), NEW i, NEW a, i \notin DOMAIN appt
    PROVE  [appt EXCEPT ![i] = a] = appt
  OBVIOUS

LEMMA ChangedRow ==
    ASSUME appt \in Seq(Appointment), NEW i \in Nat, NEW a \in Appointment,
           appt' = [appt EXCEPT ![i] = a]
    PROVE  /\ appt' \in Seq(Appointment) /\ Len(appt') = Len(appt)
           /\ DOMAIN appt' = DOMAIN appt
           /\ i \in DOMAIN appt => appt'[i] = a
           /\ \A k \in DOMAIN appt : k # i => appt'[k] = appt[k]
<1>1. CASE i \in DOMAIN appt
  <2>1. DOMAIN appt = 1..Len(appt)
    OBVIOUS
  <2>2. /\ appt' \in Seq(Appointment) /\ Len(appt') = Len(appt)
        /\ \A j \in 1..Len(appt) : appt'[j] = IF j = i THEN a ELSE appt[j]
    BY <1>1, <2>1, ExceptSeq
  <2>3. DOMAIN appt' = 1..Len(appt)
    BY <2>2
  <2> QED
    BY <2>1, <2>2, <2>3
<1>2. CASE i \notin DOMAIN appt
  BY <1>2, UnchangedRow
<1> QED
  BY <1>1, <1>2

\* What a changed row keeps.
SameBooking(a, b) == /\ a.resource = b.resource /\ a.start = b.start /\ a.end = b.end
                     /\ a.status = b.status
SameLink(a, b) == a.resource = b.resource /\ a.start = b.start /\ a.end = b.end /\ a.from = b.from

LEMMA LinksAfter ==
    ASSUME TypeOK, OwnsAlone, NEW p \in Request, NEW r \in RequestState, Links(p, r)
    PROVE  /\ appt' \in Seq(Appointment) /\ Len(appt') = Len(appt) /\ DOMAIN appt' = DOMAIN appt
           /\ req[p].mine \in DOMAIN appt
           /\ appt'[req[p].mine].from = req[p].target
           /\ \A k \in DOMAIN appt : SameBooking(appt'[k], appt[k])
           /\ \A k \in DOMAIN appt : k # req[p].mine => appt'[k] = appt[k]
<1> DEFINE i == req[p].mine
           a == [appt[i] EXCEPT !.from = req[p].target]
<1>1. req[p] \in Booking /\ Owns(p)
  BY BookingAt DEF Links, Owns, At
<1>2. i \in DOMAIN appt /\ i \in Nat /\ appt[i] \in Appointment /\ appt \in Seq(Appointment)
  BY <1>1, RowOfTable DEF OwnsAlone, TypeOK, Booking
<1>3. a \in Appointment /\ a.from = req[p].target /\ SameBooking(a, appt[i])
  BY <1>1, <1>2 DEF Appointment, Booking, SameBooking
<1>4. appt' = [appt EXCEPT ![i] = a]
  BY <1>2 DEF Links
<1> HIDE DEF a
<1>5. /\ appt' \in Seq(Appointment) /\ Len(appt') = Len(appt) /\ DOMAIN appt' = DOMAIN appt
      /\ appt'[i] = a /\ \A k \in DOMAIN appt : k # i => appt'[k] = appt[k]
  BY <1>2, <1>3, <1>4, ChangedRow
<1>6. \A k \in DOMAIN appt : SameBooking(appt'[k], appt[k])
  BY <1>3, <1>5 DEF SameBooking
<1> QED
  BY <1>2, <1>3, <1>5, <1>6

LEMMA RetiresAfter ==
    ASSUME TypeOK, NEW i \in 0..MaxRows, NEW s \in {"rescheduled", "cancelled"},
           appt' = [appt EXCEPT ![i].status = s]
    PROVE  /\ appt' \in Seq(Appointment) /\ Len(appt') = Len(appt) /\ DOMAIN appt' = DOMAIN appt
           /\ i \in DOMAIN appt => appt'[i].status = s
           /\ i \notin DOMAIN appt => appt' = appt
           /\ \A k \in DOMAIN appt : SameLink(appt'[k], appt[k])
           /\ \A k \in DOMAIN appt : k # i => appt'[k] = appt[k]
<1>1. CASE i \in DOMAIN appt
  <2> DEFINE a == [appt[i] EXCEPT !.status = s]
  <2>1. i \in Nat /\ appt[i] \in Appointment /\ appt \in Seq(Appointment)
    BY <1>1, RowOfTable DEF TypeOK
  <2>2. a \in Appointment /\ a.status = s /\ SameLink(a, appt[i])
    BY <2>1 DEF Appointment, SameLink
  <2>3. appt' = [appt EXCEPT ![i] = a]
    BY <1>1
  <2> HIDE DEF a
  <2>4. /\ appt' \in Seq(Appointment) /\ Len(appt') = Len(appt) /\ DOMAIN appt' = DOMAIN appt
        /\ appt'[i] = a /\ \A k \in DOMAIN appt : k # i => appt'[k] = appt[k]
    BY <1>1, <2>1, <2>2, <2>3, ChangedRow
  <2>5. \A k \in DOMAIN appt : SameLink(appt'[k], appt[k])
    BY <2>2, <2>4 DEF SameLink
  <2> QED
    BY <1>1, <2>2, <2>4, <2>5
<1>2. CASE i \notin DOMAIN appt
  <2>1. appt' = appt
    BY <1>2, UnchangedRow DEF TypeOK
  <2> QED
    BY <1>2, <2>1 DEF TypeOK, SameLink
<1> QED
  BY <1>1, <1>2

LEMMA TargetIsRow ==
    ASSUME TypeOK, NEW p \in Request, req[p] # Rest
    PROVE  req[p].target \in 0..MaxRows
  BY CalendarAssumption DEF TypeOK, Booking, Cancelling, Row

LEMMA NewRowType ==
    ASSUME NEW resource \in Resource, NEW start \in Nat, NEW length \in Duration
    PROVE  /\ NewRow(resource, start, length) \in Appointment
           /\ NewRow(resource, start, length).start < NewRow(resource, start, length).end
  BY CalendarAssumption DEF NewRow, Appointment

LEMMA RequestTypes ==
    ASSUME TypeOK, SeriesGoesOn, OwnsAlone, NEW p \in Request, NEW r \in RequestState,
           Moves(p, r), Shape(p, r)
    PROVE  TypeOK' /\ SeriesGoesOn'
<1>1. /\ req' \in [Request -> {Rest} \union Booking \union Cancelling]
      /\ SeriesGoesOn' /\ UNCHANGED <<worker, delivered, crashes>>
  BY RequestAfter DEF Moves
<1>2. appt' \in Seq(Appointment) /\ Len(appt') <= MaxRows
  <2>1. CASE Adds(p, r)
    <3>1. PICK a \in Appointment : appt' = Append(appt, a) /\ Len(appt) < MaxRows
      BY <2>1, NewRowType DEF Adds
    <3> QED
      BY <3>1, AppendedRow, CalendarAssumption DEF TypeOK
  <2>2. CASE Links(p, r)
    BY <2>2, LinksAfter DEF TypeOK
  <2>3. CASE Retires(p, r)
    BY <2>3, RetiresAfter, TargetIsRow DEF Retires, TypeOK
  <2>4. CASE Quiet(p, r) \/ CancelsReminders(p, r) \/ AddsReminders(p, r)
    BY <2>4 DEF Quiet, CancelsReminders, AddsReminders, TypeOK
  <2> QED
    BY <2>1, <2>2, <2>3, <2>4 DEF Shape
<1>3. rem' \in [Reminder -> ReminderStatus]
  <2>1. CASE CancelsReminders(p, r) \/ AddsReminders(p, r)
    BY <2>1 DEF CancelsReminders, AddsReminders, TypeOK, ReminderStatus
  <2>2. CASE UNCHANGED rem
    BY <2>2 DEF TypeOK, ReminderStatus
  <2> QED
    BY <2>1, <2>2 DEF Shape, Quiet, Adds, Links, Retires
<1> QED
  BY <1>1, <1>2, <1>3 DEF TypeOK, ReminderStatus

-------------------------------------------------------------------------------
(* The invariants of the rows *)

\* Who owns a row after the step is p or owned it before.
LEMMA OthersOwnAsBefore ==
    ASSUME TypeOK, SeriesGoesOn, NEW p \in Request, NEW r \in RequestState, Moves(p, r)
    PROVE  /\ Owns(p)' <=> r \in Booking /\ r.at \in
                 {"link", "markOriginal", "cancelReminders", "createReminders"}
           /\ req'[p] = r
           /\ \A q \in Request \ {p} : req'[q] = req[q] /\ (Owns(q)' <=> Owns(q))
  BY RequestAfter DEF Owns

LEMMA RequestOwns ==
    ASSUME TypeOK, SeriesGoesOn, OwnsAlone, RemindersHaveRow, NEW p \in Request,
           NEW r \in RequestState, Moves(p, r), Shape(p, r)
    PROVE  OwnsAlone' /\ RemindersHaveRow'
<1> USE OthersOwnAsBefore
<1>t. appt \in Seq(Appointment) /\ Len(appt) \in Nat /\ DOMAIN appt = 1..Len(appt)
  BY DEF TypeOK
<1>1. CASE Quiet(p, r)
  BY <1>1 DEF Quiet, StaysOff, OwnsAlone, RemindersHaveRow
<1>2. CASE Adds(p, r)
  <2>1. PICK a \in Appointment : appt' = Append(appt, a)
    BY <1>2, NewRowType DEF Adds
  <2>2. /\ DOMAIN appt' = 1..(Len(appt) + 1) /\ Len(appt') = Len(appt) + 1
        /\ DOMAIN appt = 1..Len(appt) /\ Len(appt) \in Nat
    BY <1>t, <2>1, AppendedRow
  <2>3. /\ UNCHANGED rem
        /\ r \in Booking /\ r.at \in {"link", "createReminders"} => r.mine = Len(appt) + 1
        /\ r.at \notin {"markOriginal", "cancelReminders"}
    BY <1>2 DEF Adds
  <2>4. \A q \in Reminder : q[1] = Len(appt) + 1 => rem[q] = "absent"
    BY <2>2 DEF RemindersHaveRow
  <2>5. RemindersHaveRow'
    BY <2>2, <2>3 DEF RemindersHaveRow, Reminder, Row
  <2>6. \A q \in Request \ {p} : Owns(q)' => /\ req'[q].mine \in DOMAIN appt
                                             /\ req'[q].mine # Len(appt) + 1
    BY <2>2 DEF OwnsAlone
  <2>7. Owns(p)' => req'[p].mine = Len(appt) + 1
    BY <2>3
  <2>8. OwnsAlone'
    BY <2>2, <2>3, <2>4, <2>6, <2>7 DEF OwnsAlone
  <2> QED
    BY <2>5, <2>8
<1>3. CASE Links(p, r) \/ Retires(p, r) \/ CancelsReminders(p, r)
  <2>1. DOMAIN appt' = DOMAIN appt /\ Len(appt') = Len(appt)
    BY <1>3, LinksAfter, RetiresAfter, TargetIsRow DEF Retires, CancelsReminders
  <2>2. Owns(p)' => Owns(p) /\ r.mine = req[p].mine
    BY <1>3 DEF Links, Retires, CancelsReminders, KeepsRow
  <2>3. \A q \in Reminder : rem'[q] # "absent" <=> rem[q] # "absent"
    BY <1>3 DEF Links, Retires, CancelsReminders
  <2> QED
    BY <2>1, <2>2, <2>3 DEF OwnsAlone, RemindersHaveRow
<1>4. CASE AddsReminders(p, r)
  <2>1. ~Owns(p)' /\ UNCHANGED appt /\ Owns(p)
    BY <1>4 DEF AddsReminders, StaysOff
  <2>2. \A q \in Reminder : q[1] # req[p].mine => rem'[q] = rem[q]
    BY <1>4 DEF AddsReminders
  <2> QED
    BY <1>t, <2>1, <2>2 DEF OwnsAlone, RemindersHaveRow
<1> QED
  BY <1>1, <1>2, <1>3, <1>4 DEF Shape

\* The links between rows, as one formula.
Linked == LinksFresh /\ MarksLinked /\ OneSuccessor /\ RescheduledIsLinked

LEMMA LinkOwns ==
    ASSUME TypeOK, NEW p \in Request, At(p, "link")
    PROVE  req[p] \in Booking /\ Owns(p)
  BY BookingAt DEF Owns, At

LEMMA RequestLinks ==
    ASSUME TypeOK, SeriesGoesOn, OwnsAlone, Linked, NEW p \in Request,
           NEW r \in RequestState, Moves(p, r), Shape(p, r)
    PROVE  Linked'
<1> USE RequestAfter
<1>t. appt \in Seq(Appointment) /\ Len(appt) \in Nat /\ DOMAIN appt = 1..Len(appt)
  BY DEF TypeOK
<1>o. \A q \in Request : At(q, "link") => req[q].mine \in DOMAIN appt
  BY LinkOwns DEF OwnsAlone
<1>1. CASE Quiet(p, r) \/ AddsReminders(p, r) \/ CancelsReminders(p, r)
  <2>1. UNCHANGED appt /\ r.at \notin {"link", "markOriginal"}
    BY <1>1 DEF Quiet, AddsReminders, CancelsReminders, StaysOff
  <2> QED
    BY <2>1 DEF Linked, LinksFresh, MarksLinked, OneSuccessor, RescheduledIsLinked, At
<1>2. CASE Adds(p, r)
  <2>1. PICK a \in Appointment : /\ appt' = Append(appt, a)
                                 /\ a.from = 0 /\ a.status = "booked"
    BY <1>2, NewRowType DEF Adds, NewRow
  <2>2. /\ DOMAIN appt' = 1..(Len(appt) + 1) /\ appt'[Len(appt) + 1] = a
        /\ \A k \in DOMAIN appt : appt'[k] = appt[k]
    BY <1>t, <2>1, AppendedRow
  <2>3. LinksFresh'
    <3>1. At(p, "link")' => req'[p].target # 0 /\ req'[p].mine = Len(appt) + 1
      <4>1. r.at = "link" => r \in Booking
        BY DEF RequestState, Rest, Cancelling
      <4> QED
        BY <1>2, <4>1 DEF Adds, At
    <3> QED
      BY <1>o, <2>1, <2>2, <3>1 DEF Linked, LinksFresh, At
  <2>4. MarksLinked'
    <3>1. ~At(p, "markOriginal")'
      BY <1>2 DEF Adds, At
    <3> QED
      BY <1>t, <2>2, <3>1 DEF Linked, MarksLinked, At
  <2>5. OneSuccessor'
    BY <1>t, <2>1, <2>2 DEF Linked, OneSuccessor
  <2>6. RescheduledIsLinked'
    BY <1>t, <2>1, <2>2 DEF Linked, RescheduledIsLinked
  <2> QED
    BY <2>3, <2>4, <2>5, <2>6 DEF Linked
<1>3. CASE Links(p, r)
  <2> DEFINE i == req[p].mine
  <2>1. /\ DOMAIN appt' = DOMAIN appt /\ i \in DOMAIN appt
        /\ appt'[i].from = req[p].target
        /\ \A k \in DOMAIN appt : appt'[k].status = appt[k].status
        /\ \A k \in DOMAIN appt : k # i => appt'[k] = appt[k]
    BY <1>3, LinksAfter DEF SameBooking
  <2>2. /\ At(p, "link") /\ req[p].target # 0 /\ appt[i].from = 0
        /\ \A k \in DOMAIN appt : appt[k].from # req[p].target
        /\ r.at = "markOriginal" /\ r.target = req[p].target
    BY <1>3 DEF Linked, LinksFresh, Links, Moves, Owns, KeepsRow, Rest
  <2>3. LinksFresh'
    <3>1. \A q \in Request \ {p} : At(q, "link") => req[q].mine # i
      BY <2>2, LinkOwns DEF OwnsAlone
    <3> QED
      BY <1>o, <2>1, <2>2, <3>1 DEF Linked, LinksFresh, At
  <2>4. MarksLinked'
    <3>1. \A q \in Request \ {p} : At(q, "markOriginal") =>
              req[q].target # 0 /\ \E k \in DOMAIN appt' : appt'[k].from = req[q].target
      BY <2>1, <2>2 DEF Linked, MarksLinked
    <3> QED
      BY <2>1, <2>2, <3>1 DEF MarksLinked, At
  <2>5. OneSuccessor'
    BY <2>1, <2>2 DEF Linked, OneSuccessor
  <2>6. RescheduledIsLinked'
    BY <1>t, <2>1, <2>2 DEF Linked, RescheduledIsLinked
  <2> QED
    BY <2>3, <2>4, <2>5, <2>6 DEF Linked
<1>4. CASE Retires(p, r)
  <2>1. PICK s \in {"rescheduled", "cancelled"} :
           /\ req[p] # Rest
           /\ appt' = [appt EXCEPT ![req[p].target].status = s]
           /\ s = "rescheduled" => At(p, "markOriginal")
           /\ r.at = "cancelReminders"
    BY <1>4 DEF Retires
  <2>2. /\ DOMAIN appt' = DOMAIN appt
        /\ \A k \in DOMAIN appt : appt'[k].from = appt[k].from
        /\ \A k \in DOMAIN appt : k # req[p].target => appt'[k] = appt[k]
        /\ req[p].target \in DOMAIN appt => appt'[req[p].target].status = s
    BY <2>1, RetiresAfter, TargetIsRow DEF SameLink
  <2>3. LinksFresh' /\ MarksLinked' /\ OneSuccessor'
    BY <1>o, <2>1, <2>2 DEF Linked, LinksFresh, MarksLinked, OneSuccessor, At
  <2>4. RescheduledIsLinked'
    BY <2>1, <2>2 DEF Linked, RescheduledIsLinked, MarksLinked
  <2> QED
    BY <2>3, <2>4 DEF Linked
<1> QED
  BY <1>1, <1>2, <1>3, <1>4 DEF Shape

LEMMA RequestKeepsApart ==
    ASSUME TypeOK, OwnsAlone, Apart, NEW p \in Request, NEW r \in RequestState, Shape(p, r)
    PROVE  Apart'
<1>t. appt \in Seq(Appointment) /\ Len(appt) \in Nat /\ DOMAIN appt = 1..Len(appt)
  BY DEF TypeOK
<1>n. \A k \in DOMAIN appt : appt[k].start \in Nat /\ appt[k].end \in Nat
  BY RowOfTable DEF TypeOK, Appointment
<1>1. CASE UNCHANGED appt
  BY <1>1 DEF Apart, Overlaps
<1>2. CASE Adds(p, r)
  <2>1. PICK resource \in Resource, start \in Nat, length \in Duration :
           /\ ~Excludes(resource, start, start + length)
           /\ appt' = Append(appt, NewRow(resource, start, length))
    BY <1>2 DEF Adds
  <2>2. start + length \in Nat /\ start < start + length
    BY CalendarAssumption
  <2>3. PICK a \in Appointment : /\ appt' = Append(appt, a)
                                 /\ a.resource = resource /\ a.start = start
                                 /\ a.end = start + length
    BY <2>1, NewRowType DEF NewRow
  <2>4. /\ DOMAIN appt' = 1..(Len(appt) + 1) /\ appt'[Len(appt) + 1] = a
        /\ \A k \in DOMAIN appt : appt'[k] = appt[k]
    BY <1>t, <2>3, AppendedRow
  <2>5. \A k \in DOMAIN appt :
           appt[k].status = "booked" /\ appt[k].resource = a.resource
           => ~Overlaps(appt[k], a.start, a.end) /\ ~Overlaps(a, appt[k].start, appt[k].end)
    BY <1>n, <2>1, <2>2, <2>3 DEF Excludes, Overlaps
  <2>6. \A k \in DOMAIN appt' : k \in DOMAIN appt \/ k = Len(appt) + 1
    BY <1>t, <2>4
  <2>7. \A k \in DOMAIN appt' : appt'[k].start < appt'[k].end
    BY <2>2, <2>3, <2>4, <2>6 DEF Apart
  <2>8. ASSUME NEW i \in DOMAIN appt', NEW j \in DOMAIN appt', i # j,
               appt'[i].status = "booked", appt'[j].status = "booked",
               appt'[i].resource = appt'[j].resource
        PROVE  ~Overlaps(appt'[i], appt'[j].start, appt'[j].end)
    BY <2>4, <2>5, <2>6, <2>8 DEF Apart
  <2> QED
    BY <2>7, <2>8 DEF Apart, Overlaps
<1>3. CASE Links(p, r)
  <2>1. DOMAIN appt' = DOMAIN appt /\ \A k \in DOMAIN appt : SameBooking(appt'[k], appt[k])
    BY <1>3, LinksAfter
  <2> QED
    BY <2>1 DEF Apart, Overlaps, SameBooking
<1>4. CASE Retires(p, r)
  <2>1. PICK s \in {"rescheduled", "cancelled"} :
           req[p] # Rest /\ appt' = [appt EXCEPT ![req[p].target].status = s]
    BY <1>4 DEF Retires
  <2>2. /\ DOMAIN appt' = DOMAIN appt
        /\ \A k \in DOMAIN appt : SameLink(appt'[k], appt[k])
        /\ \A k \in DOMAIN appt : appt'[k].status = "booked" => appt[k].status = "booked"
    BY <2>1, RetiresAfter, TargetIsRow
  <2> QED
    BY <2>2 DEF Apart, Overlaps, SameLink
<1> QED
  BY <1>1, <1>2, <1>3, <1>4 DEF Shape, Quiet, CancelsReminders, AddsReminders

-------------------------------------------------------------------------------
(* A step of a request keeps the calendar's promise *)

Keeps == Promise!Next \/ UNCHANGED <<Held, Released>>

Booked(i) == [id |-> i, resource |-> appt[i].resource,
              start |-> appt[i].start, end |-> appt[i].end]

LEMMA HeldIs ==
    /\ Held = {Booked(i) : i \in {k \in DOMAIN appt : appt[k].status = "booked"}}
    /\ \A i : /\ Booked(i).id = i /\ Booked(i).resource = appt[i].resource
              /\ Booked(i).start = appt[i].start /\ Booked(i).end = appt[i].end
  BY DEF Held, Booked

LEMMA SameRowsSameHeld ==
    ASSUME DOMAIN appt' = DOMAIN appt,
           \A k \in DOMAIN appt : SameBooking(appt'[k], appt[k])
    PROVE  UNCHANGED <<Held, Released>>
  BY DEF Held, Released, SameBooking

LEMMA AddingReserves ==
    ASSUME TypeOK, Apart, Apart', NEW a \in Appointment, a.status = "booked",
           appt' = Append(appt, a)
    PROVE  Promise!Next
<1>1. /\ DOMAIN appt = 1..Len(appt) /\ Len(appt) \in Nat
      /\ DOMAIN appt' = 1..(Len(appt) + 1) /\ appt'[Len(appt) + 1] = a
      /\ \A k \in DOMAIN appt : appt'[k] = appt[k]
  BY AppendedRow DEF TypeOK
<1> DEFINE n == Len(appt) + 1
<1>d. PICK b : b = [id |-> n, resource |-> a.resource, start |-> a.start, end |-> a.end]
  OBVIOUS
<1>f. b.id = n /\ b.resource = a.resource /\ b.start = a.start /\ b.end = a.end
  BY <1>d
<1>2. DOMAIN appt' = DOMAIN appt \union {n} /\ n \notin DOMAIN appt /\ appt'[n] = a
  BY <1>1
<1> HIDE DEF n
<1>3. Released' = Released
  BY <1>1, <1>2 DEF Released
<1>4. Held' = Held \union {b}
  BY <1>1, <1>2, <1>d DEF Held
<1>5. \A c \in Held : c.id \in DOMAIN appt /\ c.id # n
  BY <1>2, HeldIs
<1>6. \A c \in Held : ~Promise!Overlap(b, c)
  <2> SUFFICES ASSUME NEW c \in Held, Promise!Overlap(b, c) PROVE FALSE
    OBVIOUS
  <2>1. PICK i \in DOMAIN appt : appt[i].status = "booked" /\ c = Booked(i)
    BY HeldIs
  <2>2. c.resource = appt[i].resource /\ c.start = appt[i].start /\ c.end = appt[i].end
    BY <2>1, HeldIs
  <2>3. i # n /\ i \in DOMAIN appt' /\ n \in DOMAIN appt' /\ appt'[i] = appt[i]
    BY <1>1, <1>2
  <2>4. /\ appt'[n].status = "booked" /\ appt'[i].status = "booked"
        /\ appt'[n].resource = appt'[i].resource
    BY <1>2, <1>f, <2>1, <2>2, <2>3 DEF Promise!Overlap
  <2>5. ~Overlaps(appt'[n], appt'[i].start, appt'[i].end)
    BY <2>3, <2>4 DEF Apart, Overlaps
  <2> QED
    BY <1>2, <1>f, <2>2, <2>3, <2>5 DEF Overlaps, Promise!Overlap
<1>7. b.start < b.end /\ b.id \notin Released /\ b \notin Held
  BY <1>2, <1>5, <1>f DEF Apart, Released
<1>8. Promise!Reserve(b)
  BY <1>3, <1>4, <1>5, <1>6, <1>7, <1>f DEF Promise!Reserve
<1> QED
  BY <1>4, <1>8 DEF Promise!Next

LEMMA RetiringReleases ==
    ASSUME TypeOK, NEW i \in 0..MaxRows, NEW s \in {"rescheduled", "cancelled"},
           appt' = [appt EXCEPT ![i].status = s]
    PROVE  Keeps
<1>1. /\ DOMAIN appt' = DOMAIN appt
      /\ i \in DOMAIN appt => appt'[i].status = s
      /\ i \notin DOMAIN appt => appt' = appt
      /\ \A k \in DOMAIN appt : SameLink(appt'[k], appt[k])
      /\ \A k \in DOMAIN appt : k # i => appt'[k] = appt[k]
  BY RetiresAfter
<1>2. CASE i \notin DOMAIN appt
  BY <1>1, <1>2 DEF Keeps, Held, Released
<1>3. CASE i \in DOMAIN appt /\ appt[i].status # "booked"
  BY <1>1, <1>3 DEF Keeps, Held, Released
<1>4. CASE i \in DOMAIN appt /\ appt[i].status = "booked"
  <2> DEFINE b == Booked(i)
  <2>1. PICK c : c = b
    OBVIOUS
  <2>2. c \in Held /\ c.id = i
    BY <1>4, <2>1, HeldIs
  <2>3. Released' = Released \union {i}
    BY <1>1, <1>4 DEF Released
  <2>4. Held' = Held \ {c}
    <3>1. \A k \in DOMAIN appt : appt[k].status = "booked" /\ k # i => Booked(k) # c
      BY <2>2, HeldIs
    <3> QED
      BY <1>1, <1>4, <2>1, <3>1 DEF Held, Booked
  <2>5. Promise!Release(c)
    BY <2>2, <2>3, <2>4 DEF Promise!Release
  <2> QED
    BY <2>2, <2>5 DEF Promise!Next, Keeps
<1> QED
  BY <1>2, <1>3, <1>4

LEMMA RequestImplements ==
    ASSUME TypeOK, OwnsAlone, Apart, Apart', NEW p \in Request, NEW r \in RequestState,
           Shape(p, r)
    PROVE  Keeps
<1>1. CASE UNCHANGED appt
  BY <1>1 DEF Keeps, Held, Released
<1>2. CASE Adds(p, r)
  <2>1. PICK a \in Appointment : appt' = Append(appt, a) /\ a.status = "booked"
    BY <1>2, NewRowType DEF Adds, NewRow
  <2> QED
    BY <2>1, AddingReserves DEF Keeps
<1>3. CASE Links(p, r)
  BY <1>3, LinksAfter, SameRowsSameHeld DEF Keeps
<1>4. CASE Retires(p, r)
  BY <1>4, RetiringReleases, TargetIsRow DEF Retires
<1> QED
  BY <1>1, <1>2, <1>3, <1>4 DEF Shape, Quiet, CancelsReminders, AddsReminders

-------------------------------------------------------------------------------
(* A step of a request: cancelled appointments and reminders *)

LEMMA RequestLeavesOver ==
    ASSUME TypeOK, SeriesGoesOn, OwnsAlone, NEW p \in Request, NEW r \in RequestState,
           Moves(p, r), Shape(p, r), NEW i \in Row, Over(i)
    PROVE  /\ Over(i)'
           /\ \A k \in DOMAIN appt' : appt'[k].from = i => k \in DOMAIN appt /\ appt[k].from = i
<1>0. i # 0 /\ i \in DOMAIN appt /\ appt[i].status = "cancelled"
  BY CalendarAssumption DEF Row, Over
<1>1. req[p] # Rest => req[p].target # i
  BY DEF Over
<1>2. \A q \in Request : req'[q] # Rest => req'[q].target # i
  <2>1. r # Rest => r.target # i
    BY <1>0, <1>1 DEF Moves
  <2> QED
    BY <2>1, RequestAfter DEF Over
<1>3. CASE UNCHANGED appt
  BY <1>0, <1>2, <1>3 DEF Over
<1>4. CASE Adds(p, r)
  <2>1. PICK a \in Appointment : appt' = Append(appt, a) /\ a.from = 0
    BY <1>4, NewRowType DEF Adds, NewRow
  <2>2. /\ DOMAIN appt' = 1..(Len(appt) + 1) /\ appt'[Len(appt) + 1] = a
        /\ DOMAIN appt = 1..Len(appt) /\ Len(appt) \in Nat
        /\ \A k \in DOMAIN appt : appt'[k] = appt[k]
    BY <2>1, AppendedRow DEF TypeOK
  <2> QED
    BY <1>0, <1>2, <2>1, <2>2 DEF Over
<1>5. CASE Links(p, r)
  <2>1. req[p].target # i
    BY <1>1, <1>5, BookingAt DEF Links
  <2> QED
    BY <1>0, <1>2, <1>5, <2>1, LinksAfter DEF Over, SameBooking
<1>6. CASE Retires(p, r)
  <2>1. PICK s \in {"rescheduled", "cancelled"} :
           req[p] # Rest /\ appt' = [appt EXCEPT ![req[p].target].status = s]
    BY <1>6 DEF Retires
  <2>2. /\ DOMAIN appt' = DOMAIN appt
        /\ \A k \in DOMAIN appt : SameLink(appt'[k], appt[k])
        /\ \A k \in DOMAIN appt : k # req[p].target => appt'[k] = appt[k]
    BY <2>1, RetiresAfter, TargetIsRow
  <2> QED
    BY <1>0, <1>1, <1>2, <2>1, <2>2 DEF Over, SameLink
<1> QED
  BY <1>3, <1>4, <1>5, <1>6 DEF Shape, Quiet, CancelsReminders, AddsReminders

Settled == {"sent", "failed", "cancelled"}

LEMMA RequestKeepsReminders ==
    ASSUME TypeOK, OwnsAlone, NEW p \in Request, NEW r \in RequestState, Shape(p, r),
           NEW q \in Reminder
    PROVE  /\ rem[q] \in Settled => rem'[q] = rem[q]
           /\ rem'[q] = "sent" => rem[q] = "sent"
<1>1. CASE AddsReminders(p, r)
  BY <1>1 DEF AddsReminders, OwnsAlone, Settled
<1>2. CASE CancelsReminders(p, r)
  BY <1>2 DEF CancelsReminders, Settled
<1>3. CASE UNCHANGED rem
  BY <1>3
<1> QED
  BY <1>1, <1>2, <1>3 DEF Shape, Quiet, Adds, Links, Retires

-------------------------------------------------------------------------------
(* Steps of a reminder worker *)

WorkerState ==
    {Poll} \union [at : {"fetch", "send", "markSent", "markFailed"},
                   batch : SUBSET Reminder, current : Reminder]

\* Worker w goes on as s, and may settle a scheduled reminder that it delivered, or
\* whose delivery it gave up.
Works(w, s) ==
    /\ s \in WorkerState
    /\ worker' = [worker EXCEPT ![w] = s]
    /\ delivered' \in [Reminder -> Nat]
    /\ \A q \in Reminder : delivered'[q] >= delivered[q]
    /\ s.at = "markSent" => delivered'[s.current] > 0
    /\ crashes' \in 0..MaxCrashes
    /\ rem' \in [Reminder -> ReminderStatus]
    /\ \A q \in Reminder : rem'[q] # rem[q] =>
          /\ rem[q] = "scheduled"
          /\ \/ rem'[q] = "failed"
             \/ rem'[q] = "sent" /\ delivered[q] > 0
    /\ UNCHANGED <<appt, req>>

LEMMA WorkerAt ==
    ASSUME TypeOK, NEW w \in Worker,
           \/ Doing(w, "fetch") \/ Doing(w, "send")
           \/ Doing(w, "markSent") \/ Doing(w, "markFailed")
    PROVE  /\ worker[w] \in [at : {"fetch", "send", "markSent", "markFailed"},
                             batch : SUBSET Reminder, current : Reminder]
           /\ worker[w].current \in Reminder /\ worker[w].batch \subseteq Reminder
  BY DEF TypeOK, Doing, Poll

LEMMA Fetching ==
    ASSUME NEW batch \in SUBSET Reminder, NEW q \in batch
    PROVE  /\ [at |-> "fetch", batch |-> batch, current |-> q] \in WorkerState
           /\ [at |-> "fetch", batch |-> batch, current |-> q].at = "fetch"
  BY DEF WorkerState

LEMMA Polling == Poll \in WorkerState /\ Poll.at = "poll"
  BY DEF Poll, WorkerState

LEMMA WorkerGoesOn ==
    ASSUME TypeOK, NEW w \in Worker,
           \/ Doing(w, "fetch") \/ Doing(w, "send")
           \/ Doing(w, "markSent") \/ Doing(w, "markFailed"),
           NEW step \in {"send", "markSent", "markFailed"}, WorkerGoTo(w, step)
    PROVE  \E s \in WorkerState : /\ s.at = step /\ s.current = worker[w].current
                                  /\ worker' = [worker EXCEPT ![w] = s]
<1> DEFINE s == [worker[w] EXCEPT !.at = step]
<1>1. s \in WorkerState /\ s.at = step /\ s.current = worker[w].current
  BY WorkerAt DEF WorkerState
<1> QED
  BY <1>1 DEF WorkerGoTo, WorkerStep

LEMMA WorkerTakesNext ==
    ASSUME TypeOK, NEW w \in Worker, Doing(w, "markSent") \/ Doing(w, "markFailed"),
           NextReminder(w)
    PROVE  \E s \in WorkerState : s.at # "markSent" /\ worker' = [worker EXCEPT ![w] = s]
<1> DEFINE rest == worker[w].batch \ {worker[w].current}
<1>1. CASE WorkerStep(w, Poll)
  BY <1>1, Polling DEF WorkerStep
<1>2. CASE \E q \in rest :
              WorkerStep(w, [at |-> "fetch", batch |-> rest, current |-> q])
  <2>1. PICK q \in rest : WorkerStep(w, [at |-> "fetch", batch |-> rest, current |-> q])
    BY <1>2
  <2>2. rest \in SUBSET Reminder
    BY WorkerAt
  <2> HIDE DEF rest
  <2> QED
    BY <2>1, <2>2, Fetching DEF WorkerStep
<1> QED
  BY <1>1, <1>2 DEF NextReminder

LEMMA Settling ==
    ASSUME TypeOK, NEW q \in Reminder, NEW s \in {"sent", "failed"}, SetReminderStatus(q, s)
    PROVE  /\ rem' \in [Reminder -> ReminderStatus]
           /\ \A c \in Reminder : rem'[c] # rem[c] => c = q /\ rem[c] = "scheduled" /\ rem'[c] = s
  BY DEF TypeOK, SetReminderStatus, ReminderStatus

LEMMA WorkerWorks ==
    ASSUME TypeOK, MarksDelivered, NEW w \in Worker, ReminderStep(w)
    PROVE  \E s \in WorkerState : Works(w, s)
<1>t. /\ rem \in [Reminder -> ReminderStatus] /\ delivered \in [Reminder -> Nat]
      /\ crashes \in 0..MaxCrashes
      /\ \A q \in Reminder : delivered[q] >= delivered[q]
  BY DEF TypeOK, ReminderStatus
<1>1. CASE ListDue(w)
  <2>1. PICK due \in SUBSET Reminder : \E q \in due :
           WorkerStep(w, [at |-> "fetch", batch |-> due, current |-> q])
    BY <1>1 DEF ListDue
  <2>3. PICK q \in due : WorkerStep(w, [at |-> "fetch", batch |-> due, current |-> q])
    BY <2>1
  <2>2. UNCHANGED <<appt, rem, req, delivered, crashes>>
    BY <1>1 DEF ListDue
  <2> QED
    BY <1>t, <2>3, <2>2, Fetching DEF WorkerStep, Works
<1>2. CASE GetReminderDelivery(w)
  <2>1. Doing(w, "fetch") /\ UNCHANGED <<appt, rem, req, delivered, crashes>>
        /\ WorkerGoTo(w, IF rem[worker[w].current] = "scheduled" THEN "send" ELSE "markFailed")
    BY <1>2 DEF GetReminderDelivery
  <2>2. PICK s \in WorkerState : s.at # "markSent" /\ worker' = [worker EXCEPT ![w] = s]
    BY <2>1, WorkerGoesOn
  <2> QED
    BY <1>t, <2>1, <2>2 DEF Works
<1>3. CASE Send(w)
  <2>1. PICK carried \in BOOLEAN, acknowledged \in BOOLEAN :
           /\ acknowledged => carried
           /\ delivered' = [delivered EXCEPT ![worker[w].current] = IF carried THEN @ + 1 ELSE @]
           /\ WorkerGoTo(w, IF acknowledged THEN "markSent" ELSE "markFailed")
    BY <1>3 DEF Send
  <2>2. Doing(w, "send") /\ UNCHANGED <<appt, rem, req, crashes>>
    BY <1>3 DEF Send
  <2>3. PICK s \in WorkerState :
           /\ s.at = IF acknowledged THEN "markSent" ELSE "markFailed"
           /\ s.current = worker[w].current /\ worker' = [worker EXCEPT ![w] = s]
    BY <2>1, <2>2, WorkerGoesOn
  <2>4. worker[w].current \in Reminder
    BY <2>2, WorkerAt
  <2>5. /\ delivered' \in [Reminder -> Nat]
        /\ \A q \in Reminder : delivered'[q] >= delivered[q]
        /\ carried => delivered'[worker[w].current] > 0
    BY <1>t, <2>1, <2>4
  <2> QED
    BY <1>t, <2>1, <2>2, <2>3, <2>5 DEF Works
<1>4. CASE MarkSent(w)
  <2>1. Doing(w, "markSent") /\ UNCHANGED <<appt, req, delivered, crashes>>
    BY <1>4 DEF MarkSent
  <2>2. worker[w].current \in Reminder /\ delivered[worker[w].current] > 0
    BY <2>1, WorkerAt DEF MarksDelivered
  <2>3. CASE SetReminderStatus(worker[w].current, "sent") /\ NextReminder(w)
    <3>1. PICK s \in WorkerState : s.at # "markSent" /\ worker' = [worker EXCEPT ![w] = s]
      BY <2>1, <2>3, WorkerTakesNext
    <3>2. /\ rem' \in [Reminder -> ReminderStatus]
          /\ \A c \in Reminder : rem'[c] # rem[c] =>
                c = worker[w].current /\ rem[c] = "scheduled" /\ rem'[c] = "sent"
      BY <2>2, <2>3, Settling
    <3> QED
      BY <1>t, <2>1, <2>2, <3>1, <3>2 DEF Works
  <2>4. CASE WorkerGoTo(w, "markFailed") /\ UNCHANGED rem
    <3>1. PICK s \in WorkerState : s.at # "markSent" /\ worker' = [worker EXCEPT ![w] = s]
      BY <2>1, <2>4, WorkerGoesOn
    <3> QED
      BY <1>t, <2>1, <2>4, <3>1 DEF Works
  <2> QED
    BY <1>4, <2>3, <2>4 DEF MarkSent
<1>5. CASE MarkFailed(w)
  <2>1. Doing(w, "markFailed") /\ UNCHANGED <<appt, req, delivered, crashes>>
        /\ SetReminderStatus(worker[w].current, "failed") /\ NextReminder(w)
    BY <1>5 DEF MarkFailed
  <2>2. PICK s \in WorkerState : s.at # "markSent" /\ worker' = [worker EXCEPT ![w] = s]
    BY <2>1, WorkerTakesNext
  <2>3. /\ rem' \in [Reminder -> ReminderStatus]
        /\ \A c \in Reminder : rem'[c] # rem[c] => rem[c] = "scheduled" /\ rem'[c] = "failed"
    BY <2>1, WorkerAt, Settling
  <2> QED
    BY <1>t, <2>1, <2>2, <2>3 DEF Works
<1>6. CASE Crash(w)
  <2>1. crashes' \in 0..MaxCrashes
    BY <1>t, <1>6, CalendarAssumption DEF Crash
  <2> QED
    BY <1>t, <1>6, <2>1, Polling DEF Crash, WorkerStep, Works
<1> QED
  BY <1>1, <1>2, <1>3, <1>4, <1>5, <1>6 DEF ReminderStep

LEMMA WorkerKeeps ==
    ASSUME IInv, NEW w \in Worker, NEW s \in WorkerState, Works(w, s)
    PROVE  IInv'
<1>1. /\ worker' \in [Worker -> WorkerState] /\ worker'[w] = s
      /\ \A v \in Worker \ {w} : worker'[v] = worker[v]
  BY DEF IInv, TypeOK, Works, WorkerState
<1>2. TypeOK'
  BY <1>1 DEF IInv, TypeOK, Works, WorkerState, ReminderStatus
<1>3. MarksDelivered'
  <2>1. ASSUME NEW v \in Worker, v # w, worker'[v].at = "markSent"
        PROVE  delivered'[worker'[v].current] > 0
    <3>1. worker'[v] = worker[v] /\ Doing(v, "markSent")
      BY <1>1, <2>1 DEF Doing
    <3>2. worker[v].current \in Reminder /\ delivered[worker[v].current] > 0
      BY <3>1, WorkerAt DEF MarksDelivered, IInv
    <3> QED
      BY <3>1, <3>2 DEF Works, IInv, TypeOK
  <2>2. worker'[w].at = "markSent" => delivered'[worker'[w].current] > 0
    BY <1>1 DEF Works
  <2> QED
    BY <2>1, <2>2 DEF MarksDelivered, Doing
<1>4. SentWasDelivered'
  BY DEF IInv, SentWasDelivered, Works, TypeOK
<1>5. OwnsAlone' /\ RemindersHaveRow'
  BY DEF IInv, Rows, OwnsAlone, RemindersHaveRow, Owns, Works
<1>6. SeriesGoesOn' /\ LinksFresh' /\ MarksLinked' /\ OneSuccessor' /\ RescheduledIsLinked' /\ Apart'
  BY DEF IInv, Rows, SeriesGoesOn, LinksFresh, MarksLinked, OneSuccessor, RescheduledIsLinked,
         Apart, At, Overlaps, Works
<1> QED
  BY <1>2, <1>3, <1>4, <1>5, <1>6 DEF IInv, Rows

-------------------------------------------------------------------------------
(* The invariant and what follows from it *)

LEMMA Initially == Init => IInv
  BY CalendarAssumption DEF Init, IInv, TypeOK, SeriesGoesOn, Rows, OwnsAlone, RemindersHaveRow,
     LinksFresh, MarksLinked, OneSuccessor, RescheduledIsLinked, Apart, MarksDelivered,
     SentWasDelivered, Owns, At, Doing, Rest, Poll, Booking

LEMMA RequestKeeps ==
    ASSUME IInv, NEW p \in Request, NEW r \in RequestState, Moves(p, r), Shape(p, r)
    PROVE  IInv'
<1>1. TypeOK' /\ SeriesGoesOn'
  BY RequestTypes DEF IInv, Rows
<1>2. Rows'
  BY RequestOwns, RequestLinks, RequestKeepsApart DEF IInv, Rows, Linked
<1>3. MarksDelivered'
  BY DEF IInv, MarksDelivered, Moves, Doing
<1>4. SentWasDelivered'
  BY RequestKeepsReminders DEF IInv, Rows, SentWasDelivered, Moves
<1> QED
  BY <1>1, <1>2, <1>3, <1>4 DEF IInv

LEMMA Inductive == IInv /\ [Next]_vars => IInv'
<1> SUFFICES ASSUME IInv, [Next]_vars PROVE IInv'
  OBVIOUS
<1>1. CASE \E p \in Request : RequestStep(p)
  BY <1>1, RequestShape, RequestKeeps DEF IInv
<1>2. CASE \E w \in Worker : ReminderStep(w)
  BY <1>2, WorkerWorks, WorkerKeeps DEF IInv
<1>3. CASE UNCHANGED vars
  BY <1>3 DEF vars, IInv, TypeOK, SeriesGoesOn, Rows, OwnsAlone, RemindersHaveRow,
     LinksFresh, MarksLinked, OneSuccessor, RescheduledIsLinked, Apart, Overlaps, MarksDelivered,
     SentWasDelivered, Owns, At, Doing
<1> QED
  BY <1>1, <1>2, <1>3 DEF Next

LEMMA Invariance == Spec => []IInv
  BY Initially, Inductive, PTL DEF Spec

\* The tables, the requests and the workers keep their types; rows never exceed the bound.
THEOREM AppointmentsTypeCorrect == Spec => []TypeOK
<1>1. IInv => TypeOK
  BY DEF IInv
<1> QED
  BY <1>1, Invariance, PTL

\* A reminder recorded as sent was carried by the transport (processDueReminders).
THEOREM ReminderSentWasDelivered == Spec => []SentWasDelivered
<1>1. IInv => SentWasDelivered
  BY DEF IInv
<1> QED
  BY <1>1, Invariance, PTL

\* An appointment is marked rescheduled only with exactly one replacement (linkReschedule).
THEOREM OneReplacement == Spec => []RescheduledHasReplacement
<1>1. IInv => RescheduledHasReplacement
  <2> SUFFICES ASSUME IInv, NEW i \in DOMAIN appt, appt[i].status = "rescheduled"
               PROVE  Cardinality({k \in DOMAIN appt : appt[k].from = i}) = 1
    BY DEF RescheduledHasReplacement
  <2>1. i # 0
    BY RowOfTable, CalendarAssumption DEF IInv, TypeOK, Row
  <2>2. PICK k \in DOMAIN appt : appt[k].from = i
    BY DEF IInv, Rows, RescheduledIsLinked
  <2>3. {l \in DOMAIN appt : appt[l].from = i} = {k}
    BY <2>1, <2>2 DEF IInv, Rows, OneSuccessor
  <2> QED
    BY <2>3, FS_Singleton
<1> QED
  BY <1>1, Invariance, PTL

\* A settled reminder keeps its status, whoever is about to write it.
THEOREM SettledReminderStays == Spec => ReminderSettlesOnce
<1>1. IInv /\ [Next]_vars =>
        [\A r \in Reminder : rem[r] \in {"sent", "failed", "cancelled"} => rem'[r] = rem[r]]_vars
  <2> SUFFICES ASSUME IInv, Next, NEW q \in Reminder, rem[q] \in Settled
               PROVE  rem'[q] = rem[q]
    BY DEF Settled
  <2>1. CASE \E p \in Request : RequestStep(p)
    BY <2>1, RequestShape, RequestKeepsReminders DEF IInv, Rows
  <2>2. CASE \E w \in Worker : ReminderStep(w)
    BY <2>2, WorkerWorks DEF IInv, Works, Settled
  <2> QED
    BY <2>1, <2>2 DEF Next
<1> QED
  BY <1>1, Invariance, PTL DEF Spec, ReminderSettlesOnce

\* Cancelling holds once nobody is at work on the appointment.
THEOREM CancelledStaysOver == Spec => CancelledIsOver
<1>1. IInv /\ [Next]_vars =>
        [\A i \in Row : Over(i) =>
            /\ Over(i)'
            /\ \A k \in DOMAIN appt' :
                  appt'[k].from = i => k \in DOMAIN appt /\ appt[k].from = i]_vars
  <2> SUFFICES ASSUME IInv, Next, NEW i \in Row, Over(i)
               PROVE  /\ Over(i)'
                      /\ \A k \in DOMAIN appt' :
                            appt'[k].from = i => k \in DOMAIN appt /\ appt[k].from = i
    OBVIOUS
  <2>1. CASE \E p \in Request : RequestStep(p)
    BY <2>1, RequestShape, RequestLeavesOver DEF IInv, Rows
  <2>2. CASE \E w \in Worker : ReminderStep(w)
    BY <2>2, WorkerWorks DEF IInv, Works, Over
  <2> QED
    BY <2>1, <2>2 DEF Next
<1> QED
  BY <1>1, Invariance, PTL DEF Spec, CancelledIsOver

\* The bookings implement the calendar: none in force overlap, none comes back into force.
THEOREM BookingsImplementCalendar == Spec => CalendarSpec
<1>1. Init => Promise!Init
  BY DEF Init, Promise!Init, Held, Released
<1>2. IInv /\ IInv' /\ [Next]_vars => [Promise!Next]_<<Held, Released>>
  <2> SUFFICES ASSUME IInv, IInv', [Next]_vars PROVE [Promise!Next]_<<Held, Released>>
    OBVIOUS
  <2>1. CASE \E p \in Request : RequestStep(p)
    BY <2>1, RequestShape, RequestImplements DEF IInv, Rows, Keeps
  <2>2. CASE \E w \in Worker : ReminderStep(w)
    BY <2>2, WorkerWorks DEF IInv, Works, Held, Released
  <2>3. CASE UNCHANGED vars
    BY <2>3 DEF vars, Held, Released
  <2> QED
    BY <2>1, <2>2, <2>3 DEF Next
<1> QED
  BY <1>1, <1>2, Invariance, PTL DEF Spec, CalendarSpec, Promise!Spec

-------------------------------------------------------------------------------
(* Deliveries in numbers *)

\* A worker in state s has reminder q still to deal with; it has dealt with q and only
\* the status is left to write.
Lists(s, q) == s # Poll /\ q \in s.batch /\ (q # s.current \/ s.at \in {"fetch", "send"})
Holds(s, q) == s.at \in {"markSent", "markFailed"} /\ q = s.current
Listing(q) == {w \in Worker : Lists(worker[w], q)}
Holding(q) == {w \in Worker : Holds(worker[w], q)}
Unsettled(status) == status \in {"absent", "scheduled"}

\* What a worker works on is in its batch, and has a row.
WorksOnRows ==
    \A w \in Worker :
        /\ worker[w] # Poll => worker[w].current \in worker[w].batch
        /\ \A q \in Reminder : Lists(worker[w], q) \/ Holds(worker[w], q) => rem[q] # "absent"

\* Until a reminder is settled, each of its deliveries is held by a worker or was
\* forgotten in a crash; afterwards only the workers that list it may still deliver it.
Accounted(q) ==
    /\ Unsettled(rem[q]) => delivered[q] <= Cardinality(Holding(q)) + crashes
    /\ ~ Unsettled(rem[q]) => delivered[q] + Cardinality(Listing(q)) <= Cardinality(Worker) + crashes

CountInv == WorksOnRows /\ \A q \in Reminder : Accounted(q)

\* What a step does to the deliveries of one reminder.
StaysCounted(q) ==
    /\ delivered'[q] = delivered[q] /\ crashes' = crashes
    /\ Unsettled(rem[q]) <=> Unsettled(rem'[q])
    /\ Holding(q) \subseteq Holding(q)'
    /\ ~ Unsettled(rem[q]) => Listing(q)' \subseteq Listing(q)
Delivers(q) ==
    \E w \in Listing(q) :
        /\ rem'[q] = rem[q] /\ crashes' = crashes
        /\ delivered'[q] \in {delivered[q], delivered[q] + 1}
        /\ Listing(q)' \subseteq Listing(q) \ {w}
        /\ Holding(q) \union {w} \subseteq Holding(q)'
Settles(q) ==
    /\ ~ Unsettled(rem'[q]) /\ delivered'[q] = delivered[q] /\ crashes' = crashes
    /\ Listing(q)' \subseteq Listing(q)
Forgets(q) ==
    /\ rem'[q] = rem[q] /\ delivered'[q] = delivered[q] /\ crashes' = crashes + 1
    /\ Listing(q)' \subseteq Listing(q)
    /\ \E w \in Worker : Holding(q) \ {w} \subseteq Holding(q)'
Accounts(q) == StaysCounted(q) \/ Delivers(q) \/ Settles(q) \/ Forgets(q)

LEMMA SetAside ==
    ASSUME TypeOK, NEW w \in Worker, NEW s \in WorkerState,
           worker' = [worker EXCEPT ![w] = s], NEW q \in Reminder
    PROVE  /\ w \in Listing(q)' <=> Lists(s, q)
           /\ w \in Holding(q)' <=> Holds(s, q)
           /\ \A v \in Worker \ {w} : v \in Listing(q)' <=> v \in Listing(q)
           /\ \A v \in Worker \ {w} : v \in Holding(q)' <=> v \in Holding(q)
           /\ Listing(q)' \subseteq Worker /\ Holding(q)' \subseteq Worker
<1>1. worker'[w] = s /\ \A v \in Worker \ {w} : worker'[v] = worker[v]
  BY DEF TypeOK
<1> QED
  BY <1>1 DEF Listing, Holding

LEMMA WorksOn ==
    ASSUME TypeOK, WorksOnRows, NEW w \in Worker, NEW s \in WorkerState,
           worker' = [worker EXCEPT ![w] = s],
           s # Poll => s.current \in s.batch,
           \A q \in Reminder : Lists(s, q) \/ Holds(s, q) => rem[q] # "absent",
           \A q \in Reminder : rem[q] # "absent" => rem'[q] # "absent"
    PROVE  WorksOnRows'
<1>1. worker'[w] = s /\ \A v \in Worker \ {w} : worker'[v] = worker[v]
  BY DEF TypeOK
<1>2. /\ worker'[w] # Poll => worker'[w].current \in worker'[w].batch
      /\ \A q \in Reminder : Lists(worker'[w], q) \/ Holds(worker'[w], q) => rem'[q] # "absent"
  BY <1>1
<1>3. ASSUME NEW v \in Worker \ {w}
      PROVE  /\ worker'[v] # Poll => worker'[v].current \in worker'[v].batch
             /\ \A q \in Reminder :
                   Lists(worker'[v], q) \/ Holds(worker'[v], q) => rem'[q] # "absent"
  BY <1>1 DEF WorksOnRows
<1> QED
  BY <1>2, <1>3 DEF WorksOnRows

LEMMA RequestAccounts ==
    ASSUME TypeOK, OwnsAlone, WorksOnRows, NEW p \in Request, NEW r \in RequestState,
           Moves(p, r), Shape(p, r)
    PROVE  WorksOnRows' /\ \A q \in Reminder : Accounts(q)
<1>1. \A q \in Reminder : /\ rem[q] # "absent" => rem'[q] # "absent"
                          /\ Unsettled(rem'[q]) => Unsettled(rem[q])
                          /\ rem[q] \in Settled => rem'[q] = rem[q]
  <2>1. CASE AddsReminders(p, r)
    <3>1. \A q \in Reminder : q[1] = req[p].mine => rem[q] = "absent"
      BY <2>1 DEF AddsReminders, OwnsAlone
    <3> QED
      BY <2>1, <3>1 DEF AddsReminders, Settled, Unsettled
  <2>2. CASE CancelsReminders(p, r)
    BY <2>2 DEF CancelsReminders, Settled, Unsettled
  <2>3. CASE UNCHANGED rem
    BY <2>3
  <2> QED
    BY <2>1, <2>2, <2>3 DEF Shape, Quiet, Adds, Links, Retires
<1>2. UNCHANGED <<worker, delivered, crashes>>
  BY DEF Moves
<1>3. \A q \in Reminder : Listing(q)' = Listing(q) /\ Holding(q)' = Holding(q)
  BY <1>2 DEF Listing, Holding
<1>4. WorksOnRows'
  BY <1>1, <1>2 DEF WorksOnRows
<1>5. ASSUME NEW q \in Reminder PROVE Accounts(q)
  <2>1. CASE Unsettled(rem'[q])
    BY <1>1, <1>2, <1>3, <2>1 DEF Accounts, StaysCounted
  <2>2. CASE ~ Unsettled(rem'[q])
    BY <1>1, <1>2, <1>3, <2>2 DEF Accounts, Settles
  <2> QED
    BY <2>1, <2>2
<1> QED
  BY <1>4, <1>5

LEMMA PollIsEmpty == \A q \in Reminder : ~ Lists(Poll, q) /\ ~ Holds(Poll, q)
  BY DEF Poll, Lists, Holds

LEMMA FetchLists ==
    ASSUME NEW batch \in SUBSET Reminder, NEW c \in batch
    PROVE  \E s \in WorkerState :
              /\ s = [at |-> "fetch", batch |-> batch, current |-> c]
              /\ s # Poll /\ s.current \in s.batch
              /\ \A q \in Reminder : (Lists(s, q) <=> q \in batch) /\ ~ Holds(s, q)
<1> DEFINE s == [at |-> "fetch", batch |-> batch, current |-> c]
<1>1. s \in WorkerState /\ s.at = "fetch" /\ s.batch = batch /\ s.current = c
  BY Fetching
<1> HIDE DEF s
<1>2. s # Poll
  BY <1>1 DEF Poll
<1>3. \A q \in Reminder : (Lists(s, q) <=> q \in batch) /\ ~ Holds(s, q)
  BY <1>1, <1>2 DEF Lists, Holds
<1>4. s = [at |-> "fetch", batch |-> batch, current |-> c]
  BY DEF s
<1> QED
  BY <1>1, <1>2, <1>3, <1>4

\* The worker goes on with the reminder in hand.
LEMMA SameInHand ==
    ASSUME TypeOK, NEW w \in Worker, worker[w] # Poll,
           NEW step \in {"send", "markSent", "markFailed"}, WorkerGoTo(w, step)
    PROVE  \E s \in WorkerState :
              /\ s # Poll /\ s.at = step /\ s.current = worker[w].current
              /\ s.batch = worker[w].batch
              /\ worker' = [worker EXCEPT ![w] = s]
<1> DEFINE s == [worker[w] EXCEPT !.at = step]
<1>1. worker[w] \in [at : {"fetch", "send", "markSent", "markFailed"},
                     batch : SUBSET Reminder, current : Reminder]
  BY DEF TypeOK
<1>2. /\ s \in WorkerState /\ s # Poll /\ s.at = step /\ s.current = worker[w].current
      /\ s.batch = worker[w].batch
  BY <1>1 DEF WorkerState, Poll
<1> QED
  BY <1>2 DEF WorkerGoTo, WorkerStep

\* The worker puts the reminder in hand aside.
LEMMA PutsAside ==
    ASSUME TypeOK, NEW w \in Worker, Doing(w, "markSent") \/ Doing(w, "markFailed"),
           NextReminder(w)
    PROVE  \E s \in WorkerState :
              /\ worker' = [worker EXCEPT ![w] = s]
              /\ s # Poll => s.current \in s.batch
              /\ \A q \in Reminder :
                    /\ ~ Holds(s, q)
                    /\ Lists(s, q) => Lists(worker[w], q) /\ q # worker[w].current
<1> DEFINE rest == worker[w].batch \ {worker[w].current}
<1>1. CASE WorkerStep(w, Poll)
  BY <1>1, Polling, PollIsEmpty DEF WorkerStep
<1>2. CASE \E q \in rest : WorkerStep(w, [at |-> "fetch", batch |-> rest, current |-> q])
  <2>1. rest \in SUBSET Reminder /\ worker[w] # Poll
    BY WorkerAt DEF Doing, Poll
  <2>2. PICK c \in rest : WorkerStep(w, [at |-> "fetch", batch |-> rest, current |-> c])
    BY <1>2
  <2>3. \A q \in rest : Lists(worker[w], q) /\ q # worker[w].current
    BY <2>1 DEF Lists
  <2> HIDE DEF rest
  <2>4. PICK s \in WorkerState :
           /\ s = [at |-> "fetch", batch |-> rest, current |-> c]
           /\ s # Poll /\ s.current \in s.batch
           /\ \A q \in Reminder : (Lists(s, q) <=> q \in rest) /\ ~ Holds(s, q)
    BY <2>1, <2>2, FetchLists
  <2>5. worker' = [worker EXCEPT ![w] = s]
    BY <2>2, <2>4 DEF WorkerStep
  <2> QED
    BY <2>3, <2>4, <2>5
<1> QED
  BY <1>1, <1>2 DEF NextReminder

LEMMA ListDueAccounts ==
    ASSUME TypeOK, WorksOnRows, NEW w \in Worker, ListDue(w)
    PROVE  WorksOnRows' /\ \A q \in Reminder : Accounts(q)
<1>1. worker[w] = Poll /\ UNCHANGED <<rem, delivered, crashes>>
  BY DEF ListDue
<1>0. PICK due \in SUBSET {r \in Reminder : rem[r] = "scheduled"} :
         \E c \in due : WorkerStep(w, [at |-> "fetch", batch |-> due, current |-> c])
  BY DEF ListDue
<1>2. PICK c \in due : WorkerStep(w, [at |-> "fetch", batch |-> due, current |-> c])
  BY <1>0
<1>3. due \in SUBSET Reminder /\ \A q \in due : rem[q] = "scheduled"
  OBVIOUS
<1>4. PICK s \in WorkerState :
         /\ s = [at |-> "fetch", batch |-> due, current |-> c]
         /\ s # Poll /\ s.current \in s.batch
         /\ \A q \in Reminder : (Lists(s, q) <=> q \in due) /\ ~ Holds(s, q)
  BY <1>2, <1>3, FetchLists
<1>5. worker' = [worker EXCEPT ![w] = s]
  BY <1>2, <1>4 DEF WorkerStep
<1>6. WorksOnRows'
  <2>1. \A q \in Reminder : Lists(s, q) \/ Holds(s, q) => rem[q] # "absent"
    BY <1>3, <1>4
  <2> QED
    BY <1>1, <1>4, <1>5, <2>1, WorksOn
<1>7. ASSUME NEW q \in Reminder PROVE StaysCounted(q)
  <2>1. w \notin Holding(q)
    BY <1>1, PollIsEmpty DEF Holding
  <2>2. Holding(q) \subseteq Holding(q)'
    <3>1. \A v \in Holding(q) : v \in Worker \ {w}
      BY <2>1 DEF Holding
    <3> QED
      BY <1>5, <3>1, SetAside
  <2>3. ~ Unsettled(rem[q]) => Listing(q)' \subseteq Listing(q)
    <3>1. ~ Unsettled(rem[q]) => ~ Lists(s, q)
      BY <1>3, <1>4 DEF Unsettled
    <3> QED
      BY <1>5, <3>1, SetAside
  <2> QED
    BY <1>1, <2>2, <2>3 DEF StaysCounted
<1> QED
  BY <1>6, <1>7 DEF Accounts

LEMMA FetchAccounts ==
    ASSUME TypeOK, WorksOnRows, NEW w \in Worker, GetReminderDelivery(w)
    PROVE  WorksOnRows' /\ \A q \in Reminder : Accounts(q)
<1> DEFINE step == IF rem[worker[w].current] = "scheduled" THEN "send" ELSE "markFailed"
<1>1. /\ worker[w].at = "fetch" /\ worker[w] # Poll /\ UNCHANGED <<rem, delivered, crashes>>
      /\ WorkerGoTo(w, step)
  BY DEF GetReminderDelivery, Doing, Poll
<1>2. /\ step \in {"send", "markFailed"}
      /\ step = "markFailed" => rem[worker[w].current] # "scheduled"
  OBVIOUS
<1> HIDE DEF step
<1>3. PICK s \in WorkerState :
         /\ s # Poll /\ s.at = step /\ s.current = worker[w].current
         /\ s.batch = worker[w].batch
         /\ worker' = [worker EXCEPT ![w] = s]
  BY <1>1, <1>2, SameInHand
<1>4. /\ worker[w].current \in Reminder /\ worker[w].current \in worker[w].batch
      /\ Lists(worker[w], worker[w].current) /\ rem[worker[w].current] # "absent"
  BY <1>1, WorkerAt DEF Doing, WorksOnRows, Lists
<1>5. \A q \in Reminder : Lists(s, q) \/ Holds(s, q) => Lists(worker[w], q)
  BY <1>1, <1>3, <1>4 DEF Lists, Holds
<1>6. WorksOnRows'
  <2>1. \A q \in Reminder : Lists(s, q) \/ Holds(s, q) => rem[q] # "absent"
    BY <1>5 DEF WorksOnRows
  <2>2. s.current \in s.batch
    BY <1>3, <1>4
  <2> QED
    BY <1>1, <1>3, <2>1, <2>2, WorksOn
<1>7. ASSUME NEW q \in Reminder PROVE StaysCounted(q)
  <2>1. w \notin Holding(q)
    BY <1>1 DEF Holding, Holds
  <2>2. Holding(q) \subseteq Holding(q)'
    <3>1. \A v \in Holding(q) : v \in Worker \ {w}
      BY <2>1 DEF Holding
    <3> QED
      BY <1>3, <3>1, SetAside
  <2>3. Listing(q)' \subseteq Listing(q)
    <3>1. Lists(s, q) => w \in Listing(q)
      BY <1>5 DEF Listing
    <3> QED
      BY <1>3, <3>1, SetAside
  <2> QED
    BY <1>1, <2>2, <2>3 DEF StaysCounted
<1> QED
  BY <1>6, <1>7 DEF Accounts

LEMMA SendAccounts ==
    ASSUME TypeOK, WorksOnRows, NEW w \in Worker, Send(w)
    PROVE  WorksOnRows' /\ \A q \in Reminder : Accounts(q)
<1>1. worker[w].at = "send" /\ worker[w] # Poll /\ UNCHANGED <<rem, crashes>>
  BY DEF Send, Doing, Poll
<1>2. PICK c \in Reminder :
         /\ c = worker[w].current /\ c \in worker[w].batch
         /\ Lists(worker[w], c) /\ rem[c] # "absent"
  BY <1>1, WorkerAt DEF Doing, WorksOnRows, Lists
<1>3. PICK carried \in BOOLEAN, acknowledged \in BOOLEAN :
         /\ delivered' = [delivered EXCEPT ![c] = IF carried THEN @ + 1 ELSE @]
         /\ WorkerGoTo(w, IF acknowledged THEN "markSent" ELSE "markFailed")
  BY <1>2 DEF Send
<1>4. PICK s \in WorkerState :
         /\ s # Poll /\ s.at \in {"markSent", "markFailed"} /\ s.current = c
         /\ s.batch = worker[w].batch
         /\ worker' = [worker EXCEPT ![w] = s]
  BY <1>1, <1>2, <1>3, SameInHand
<1>5. /\ delivered'[c] \in {delivered[c], delivered[c] + 1}
      /\ \A q \in Reminder \ {c} : delivered'[q] = delivered[q]
  BY <1>2, <1>3 DEF TypeOK
<1>6. /\ \A q \in Reminder : Lists(s, q) => Lists(worker[w], q) /\ q # c
      /\ \A q \in Reminder : Holds(s, q) <=> q = c
  BY <1>1, <1>2, <1>4 DEF Lists, Holds
<1>7. WorksOnRows'
  <2>1. \A q \in Reminder : Lists(s, q) \/ Holds(s, q) => rem[q] # "absent"
    BY <1>2, <1>6 DEF WorksOnRows
  <2>2. s.current \in s.batch
    BY <1>2, <1>4
  <2> QED
    BY <1>1, <1>4, <2>1, <2>2, WorksOn
<1>8. Delivers(c)
  <2>1. w \in Listing(c)
    BY <1>2 DEF Listing
  <2>2. Listing(c)' \subseteq Listing(c) \ {w}
    BY <1>2, <1>4, <1>6, SetAside
  <2>3. Holding(c) \union {w} \subseteq Holding(c)'
    <3>1. w \in Holding(c)'
      BY <1>2, <1>4, <1>6, SetAside
    <3>2. \A v \in Holding(c) : v = w \/ v \in Worker \ {w}
      BY DEF Holding
    <3> QED
      BY <1>2, <1>4, <3>1, <3>2, SetAside
  <2> QED
    BY <1>1, <1>5, <2>1, <2>2, <2>3 DEF Delivers
<1>9. ASSUME NEW q \in Reminder \ {c} PROVE StaysCounted(q)
  <2>1. w \notin Holding(q)
    BY <1>1 DEF Holding, Holds
  <2>2. Holding(q) \subseteq Holding(q)'
    <3>1. \A v \in Holding(q) : v \in Worker \ {w}
      BY <2>1 DEF Holding
    <3> QED
      BY <1>4, <3>1, SetAside
  <2>3. Listing(q)' \subseteq Listing(q)
    <3>1. Lists(s, q) => w \in Listing(q)
      BY <1>6 DEF Listing
    <3> QED
      BY <1>4, <3>1, SetAside
  <2> QED
    BY <1>1, <1>5, <2>2, <2>3 DEF StaysCounted
<1> QED
  BY <1>7, <1>8, <1>9 DEF Accounts

LEMMA SettleAccounts ==
    ASSUME TypeOK, WorksOnRows, NEW w \in Worker, NEW status \in {"sent", "failed"},
           Doing(w, "markSent") \/ Doing(w, "markFailed"),
           SetReminderStatus(worker[w].current, status), NextReminder(w),
           UNCHANGED <<delivered, crashes>>
    PROVE  WorksOnRows' /\ \A q \in Reminder : Accounts(q)
<1>1. PICK c \in Reminder :
      /\ c = worker[w].current /\ rem[c] # "absent"
      /\ \A q \in Reminder : Holds(worker[w], q) <=> q = c
  BY WorkerAt DEF Doing, WorksOnRows, Holds
<1>2. PICK s \in WorkerState :
         /\ worker' = [worker EXCEPT ![w] = s]
         /\ s # Poll => s.current \in s.batch
         /\ \A q \in Reminder : ~ Holds(s, q) /\ (Lists(s, q) => Lists(worker[w], q) /\ q # c)
  BY <1>1, PutsAside
<1>3. /\ rem'[c] = IF rem[c] = "scheduled" THEN status ELSE rem[c]
      /\ \A q \in Reminder \ {c} : rem'[q] = rem[q]
  BY <1>1 DEF SetReminderStatus, TypeOK
<1>4. ~ Unsettled(rem'[c])
  BY <1>1, <1>3 DEF Unsettled
<1>5. WorksOnRows'
  <2>1. \A q \in Reminder : Lists(s, q) \/ Holds(s, q) => rem[q] # "absent"
    BY <1>2 DEF WorksOnRows
  <2>2. \A q \in Reminder : rem[q] # "absent" => rem'[q] # "absent"
    BY <1>1, <1>3
  <2> QED
    BY <1>2, <2>1, <2>2, WorksOn
<1>6. \A q \in Reminder : Listing(q)' \subseteq Listing(q)
  <2> SUFFICES ASSUME NEW q \in Reminder PROVE Listing(q)' \subseteq Listing(q)
    OBVIOUS
  <2>1. Lists(s, q) => w \in Listing(q)
    BY <1>2 DEF Listing
  <2> QED
    BY <1>2, <2>1, SetAside
<1>7. Settles(c)
  BY <1>1, <1>4, <1>6 DEF Settles
<1>8. ASSUME NEW q \in Reminder \ {c} PROVE StaysCounted(q)
  <2>1. \A v \in Holding(q) : v \in Worker \ {w}
    BY <1>1 DEF Holding
  <2>2. Holding(q) \subseteq Holding(q)'
    BY <1>2, <2>1, SetAside
  <2> QED
    BY <1>3, <1>6, <2>2 DEF StaysCounted
<1> QED
  BY <1>5, <1>7, <1>8 DEF Accounts

LEMMA RejectedMarkAccounts ==
    ASSUME TypeOK, WorksOnRows, NEW w \in Worker, Doing(w, "markSent"),
           WorkerGoTo(w, "markFailed"), UNCHANGED <<rem, delivered, crashes>>
    PROVE  WorksOnRows' /\ \A q \in Reminder : Accounts(q)
<1>1. worker[w].at = "markSent" /\ worker[w] # Poll
  BY DEF Doing, Poll
<1>2. PICK s \in WorkerState :
         /\ s # Poll /\ s.at = "markFailed" /\ s.current = worker[w].current
         /\ s.batch = worker[w].batch
         /\ worker' = [worker EXCEPT ![w] = s]
  BY <1>1, SameInHand
<1>3. \A q \in Reminder : /\ Lists(s, q) <=> Lists(worker[w], q)
                          /\ Holds(s, q) <=> Holds(worker[w], q)
  BY <1>1, <1>2 DEF Lists, Holds
<1>4. WorksOnRows'
  <2>1. \A q \in Reminder : Lists(s, q) \/ Holds(s, q) => rem[q] # "absent"
    BY <1>3 DEF WorksOnRows
  <2>2. s.current \in s.batch
    BY <1>1, <1>2 DEF WorksOnRows
  <2> QED
    BY <1>2, <2>1, <2>2, WorksOn
<1>5. ASSUME NEW q \in Reminder PROVE StaysCounted(q)
  <2>1. /\ w \in Listing(q)' <=> w \in Listing(q)
        /\ w \in Holding(q)' <=> w \in Holding(q)
    BY <1>2, <1>3, SetAside DEF Listing, Holding
  <2>2. \A v \in Worker : /\ v \in Listing(q)' <=> v \in Listing(q)
                          /\ v \in Holding(q)' <=> v \in Holding(q)
    BY <1>2, <2>1, SetAside
  <2> QED
    BY <2>2 DEF StaysCounted, Listing, Holding
<1> QED
  BY <1>4, <1>5 DEF Accounts

LEMMA CrashAccounts ==
    ASSUME TypeOK, WorksOnRows, NEW w \in Worker, Crash(w)
    PROVE  WorksOnRows' /\ \A q \in Reminder : Accounts(q)
<1>1. /\ worker' = [worker EXCEPT ![w] = Poll] /\ crashes' = crashes + 1
      /\ UNCHANGED <<rem, delivered>>
  BY DEF Crash, WorkerStep
<1>2. WorksOnRows'
  BY <1>1, Polling, PollIsEmpty, WorksOn
<1>3. ASSUME NEW q \in Reminder PROVE Forgets(q)
  <2>1. Listing(q)' \subseteq Listing(q)
    BY <1>1, Polling, PollIsEmpty, SetAside
  <2>2. Holding(q) \ {w} \subseteq Holding(q)'
    <3>1. \A v \in Holding(q) \ {w} : v \in Worker \ {w}
      BY DEF Holding
    <3> QED
      BY <1>1, <3>1, Polling, SetAside
  <2> QED
    BY <1>1, <2>1, <2>2 DEF Forgets
<1> QED
  BY <1>2, <1>3 DEF Accounts

LEMMA WorkerAccounts ==
    ASSUME TypeOK, WorksOnRows, NEW w \in Worker, ReminderStep(w)
    PROVE  WorksOnRows' /\ \A q \in Reminder : Accounts(q)
<1>1. CASE MarkSent(w)
  <2>1. Doing(w, "markSent") /\ UNCHANGED <<delivered, crashes>>
    BY <1>1 DEF MarkSent
  <2>2. CASE SetReminderStatus(worker[w].current, "sent") /\ NextReminder(w)
    BY <2>1, <2>2, SettleAccounts
  <2>3. CASE WorkerGoTo(w, "markFailed") /\ UNCHANGED rem
    BY <2>1, <2>3, RejectedMarkAccounts
  <2> QED
    BY <1>1, <2>2, <2>3 DEF MarkSent
<1>2. CASE MarkFailed(w)
  BY <1>2, SettleAccounts DEF MarkFailed
<1> QED
  BY <1>1, <1>2, ListDueAccounts, FetchAccounts, SendAccounts, CrashAccounts DEF ReminderStep

\* Two sets of workers apart, in numbers.
LEMMA SeparateSets ==
    ASSUME NEW L \in SUBSET Worker, NEW H \in SUBSET Worker, L \cap H = {}
    PROVE  /\ IsFiniteSet(L) /\ IsFiniteSet(H)
           /\ Cardinality(L) \in Nat /\ Cardinality(H) \in Nat /\ Cardinality(Worker) \in Nat
           /\ Cardinality(L) + Cardinality(H) <= Cardinality(Worker)
<1>1. IsFiniteSet(L) /\ IsFiniteSet(H) /\ IsFiniteSet(Worker) /\ Cardinality(Worker) \in Nat
  BY CalendarAssumption, FS_Subset, FS_CardinalityType
<1>2. Cardinality(L) \in Nat /\ Cardinality(H) \in Nat
  BY <1>1, FS_CardinalityType
<1>3. Cardinality(L \union H) = Cardinality(L) + Cardinality(H) - Cardinality(L \cap H)
  BY <1>1, FS_Union
<1>4. Cardinality(L \cap H) = 0
  BY FS_EmptySet
<1>5. Cardinality(L \union H) <= Cardinality(Worker)
  BY <1>1, FS_Subset
<1> QED
  BY <1>1, <1>2, <1>3, <1>4, <1>5

\* One set of workers in another, in numbers; and one with a worker more or less.
LEMMA Smaller ==
    ASSUME NEW S \in SUBSET Worker, NEW T \in SUBSET Worker
    PROVE  /\ S \subseteq T => Cardinality(S) <= Cardinality(T)
           /\ \A w \in T : S \subseteq T \ {w} => Cardinality(S) + 1 <= Cardinality(T)
           /\ \A p : S \ {p} \subseteq T => Cardinality(S) <= Cardinality(T) + 1
<1>1. IsFiniteSet(S) /\ IsFiniteSet(T) /\ Cardinality(S) \in Nat /\ Cardinality(T) \in Nat
  BY CalendarAssumption, FS_Subset, FS_CardinalityType
<1>2. S \subseteq T => Cardinality(S) <= Cardinality(T)
  BY <1>1, FS_Subset
<1>3. ASSUME NEW w \in T, S \subseteq T \ {w} PROVE Cardinality(S) + 1 <= Cardinality(T)
  <2>1. IsFiniteSet(T \ {w}) /\ Cardinality(T \ {w}) = Cardinality(T) - 1
    BY <1>1, FS_RemoveElement
  <2>2. Cardinality(S) <= Cardinality(T \ {w})
    BY <1>3, <2>1, FS_Subset
  <2> QED
    BY <1>1, <2>1, <2>2
<1>4. ASSUME NEW p, S \ {p} \subseteq T PROVE Cardinality(S) <= Cardinality(T) + 1
  <2>1. S \subseteq T \union {p} /\ IsFiniteSet(T \union {p})
    BY <1>1, <1>4, FS_AddElement
  <2>2. Cardinality(S) <= Cardinality(T \union {p})
    BY <2>1, FS_Subset
  <2>3. Cardinality(T \union {p}) = Cardinality(T) \/ Cardinality(T \union {p}) = Cardinality(T) + 1
    BY <1>1, FS_AddElement
  <2> QED
    BY <1>1, <2>2, <2>3
<1> QED
  BY <1>2, <1>3, <1>4


LEMMA AccountedStep ==
    ASSUME TypeOK, TypeOK', NEW q \in Reminder, Accounted(q), Accounts(q)
    PROVE  Accounted(q)'
<1> DEFINE L == Listing(q)
           H == Holding(q)
           K == Listing(q)'
           J == Holding(q)'
           n == Cardinality(Worker)
           l == Cardinality(L)
           h == Cardinality(H)
           k == Cardinality(K)
           j == Cardinality(J)
<1>1. /\ L \in SUBSET Worker /\ H \in SUBSET Worker /\ K \in SUBSET Worker /\ J \in SUBSET Worker
      /\ L \cap H = {} /\ K \cap J = {}
  BY DEF Listing, Holding, Lists, Holds
<1>2. /\ delivered[q] \in Nat /\ delivered'[q] \in Nat /\ crashes \in Nat /\ crashes' \in Nat
  BY CalendarAssumption DEF TypeOK
<1>3. /\ Unsettled(rem[q]) => delivered[q] <= h + crashes
      /\ ~ Unsettled(rem[q]) => delivered[q] + l <= n + crashes
  BY DEF Accounted
<1> SUFFICES /\ Unsettled(rem'[q]) => delivered'[q] <= j + crashes'
             /\ ~ Unsettled(rem'[q]) => delivered'[q] + k <= n + crashes'
  BY DEF Accounted
<1>4. /\ l \in Nat /\ h \in Nat /\ l + h <= n /\ k \in Nat /\ j \in Nat /\ k + j <= n /\ n \in Nat
  <2> HIDE DEF L, H, K, J
  <2> QED
    BY <1>1, SeparateSets
<1>5. CASE StaysCounted(q)
  <2>1. /\ delivered'[q] = delivered[q] /\ crashes' = crashes
        /\ Unsettled(rem[q]) <=> Unsettled(rem'[q])
        /\ H \subseteq J /\ (~ Unsettled(rem[q]) => K \subseteq L)
    BY <1>5 DEF StaysCounted
  <2>2. h <= j /\ (~ Unsettled(rem[q]) => k <= l)
    <3> HIDE DEF L, H, K, J
    <3> QED
      BY <1>1, <2>1, Smaller
  <2> HIDE DEF l, h, k, j, n
  <2> QED
    BY <1>2, <1>3, <1>4, <2>1, <2>2
<1>6. CASE Delivers(q)
  <2>1. PICK w \in L \ H :
           /\ rem'[q] = rem[q] /\ delivered'[q] \in {delivered[q], delivered[q] + 1}
           /\ crashes' = crashes /\ K \subseteq L \ {w} /\ H \union {w} \subseteq J
    BY <1>1, <1>6 DEF Delivers
  <2>2. k + 1 <= l
    <3> HIDE DEF L, H, K, J
    <3> QED
      BY <1>1, <2>1, Smaller
  <2>3. h + 1 <= j
    <3>1. w \in J /\ H \subseteq J \ {w}
      BY <2>1
    <3> HIDE DEF L, H, K, J
    <3> QED
      BY <1>1, <3>1, Smaller
  <2>4. rem'[q] = rem[q] /\ crashes' = crashes /\ delivered'[q] <= delivered[q] + 1
    BY <1>2, <2>1
  <2> HIDE DEF l, h, k, j, n
  <2> QED
    BY <1>2, <1>3, <1>4, <2>2, <2>3, <2>4
<1>7. CASE Settles(q)
  <2>1. /\ ~ Unsettled(rem'[q]) /\ delivered'[q] = delivered[q] /\ crashes' = crashes
        /\ K \subseteq L
    BY <1>7 DEF Settles
  <2>2. k <= l
    <3> HIDE DEF L, K
    <3> QED
      BY <1>1, <2>1, Smaller
  <2> HIDE DEF l, h, k, j, n
  <2>3. delivered[q] + l <= n + crashes
    BY <1>2, <1>3, <1>4
  <2> QED
    BY <1>2, <1>4, <2>1, <2>2, <2>3
<1>8. CASE Forgets(q)
  <2>1. PICK w \in Worker : H \ {w} \subseteq J
    BY <1>8 DEF Forgets
  <2>2. /\ rem'[q] = rem[q] /\ delivered'[q] = delivered[q] /\ crashes' = crashes + 1
        /\ K \subseteq L
    BY <1>8 DEF Forgets
  <2>3. k <= l /\ h <= j + 1
    <3> HIDE DEF L, H, K, J
    <3> QED
      BY <1>1, <2>1, <2>2, Smaller
  <2> HIDE DEF l, h, k, j, n
  <2> QED
    BY <1>2, <1>3, <1>4, <2>2, <2>3
<1> QED
  BY <1>5, <1>6, <1>7, <1>8 DEF Accounts

LEMMA CountInit == Init => CountInv
<1> SUFFICES ASSUME Init PROVE CountInv
  OBVIOUS
<1>1. /\ \A w \in Worker : worker[w] = Poll
      /\ crashes = 0 /\ \A q \in Reminder : rem[q] = "absent" /\ delivered[q] = 0
  BY DEF Init
<1>2. \A q \in Reminder : Listing(q) = {} /\ Holding(q) = {}
  BY <1>1, PollIsEmpty DEF Listing, Holding
<1>3. WorksOnRows
  BY <1>1, PollIsEmpty DEF WorksOnRows
<1>4. \A q \in Reminder : Accounted(q)
  BY <1>1, <1>2, FS_EmptySet DEF Accounted, Unsettled
<1> QED
  BY <1>3, <1>4 DEF CountInv

LEMMA CountNext == IInv /\ IInv' /\ CountInv /\ [Next]_vars => CountInv'
<1> SUFFICES ASSUME IInv, IInv', CountInv, [Next]_vars PROVE CountInv'
  OBVIOUS
<1>1. CASE UNCHANGED vars
  BY <1>1 DEF vars, CountInv, WorksOnRows, Accounted, Listing, Holding
<1>2. CASE Next
  <2>1. CASE \E p \in Request : RequestStep(p)
    BY <2>1, RequestShape, RequestAccounts, AccountedStep DEF IInv, Rows, CountInv
  <2>2. CASE \E w \in Worker : ReminderStep(w)
    BY <2>2, WorkerAccounts, AccountedStep DEF IInv, CountInv
  <2> QED
    BY <1>2, <2>1, <2>2 DEF Next
<1> QED
  BY <1>1, <1>2

\* Workers that listed the same reminder may each deliver it, but beyond once per worker
\* only a crash between delivery and write repeats it; no request, failed delivery or
\* rejected write does (processDueReminders).
THEOREM RemindersAreCounted == Spec => []DeliveriesBounded
<1>1. IInv /\ CountInv => DeliveriesBounded
  <2> SUFFICES ASSUME TypeOK, CountInv, NEW q \in Reminder
               PROVE  delivered[q] <= Cardinality(Worker) + crashes
    BY DEF DeliveriesBounded, IInv
  <2>1. Listing(q) \in SUBSET Worker /\ Holding(q) \in SUBSET Worker /\ Listing(q) \cap Holding(q) = {}
    BY DEF Listing, Holding, Lists, Holds
  <2>2. /\ Cardinality(Listing(q)) \in Nat /\ Cardinality(Holding(q)) \in Nat
        /\ Cardinality(Worker) \in Nat
        /\ Cardinality(Listing(q)) + Cardinality(Holding(q)) <= Cardinality(Worker)
    BY <2>1, SeparateSets
  <2>3. delivered[q] \in Nat /\ crashes \in Nat
    BY CalendarAssumption DEF TypeOK
  <2>4. Accounted(q)
    BY DEF CountInv
  <2> QED
    BY <2>2, <2>3, <2>4 DEF Accounted
<1> QED
  BY Invariance, CountInit, CountNext, <1>1, PTL DEF Spec
================================================================================
