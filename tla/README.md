# Verification of the WhatsApp AI receptionist

This directory holds TLA+ models of the receptionist (a TypeScript application on Next.js, Prisma
and PostgreSQL with polling workers), the TLC configurations that check them on small instances,
and proofs that TLAPS checks for every instance. `PROJECT.json` maps each definition to the lines it
stands for, lists the runs with the properties they check, a mutated definition that breaks each
property, the hazards of the code and the theorems.

    tlc -workers 2 -config MCRequests.cfg MCRequests.tla   # a run: its cfg and its MC module
    tlapm AppointmentsProofs.tla                           # any of the eight *Proofs modules

Paths below are relative to the application's `src/` directory unless they start with `docs/`,
`prisma/` or `scripts/`.

## 1. Inventory

The application serves one organization per request scope. State lives in PostgreSQL; nothing is
kept in memory between two awaits except a handler's local variables. Three kinds of process touch
it: API handlers (`app/api/**`), gateway webhooks, and nine polling loops that
`scripts/worker-service.ts` starts in one process (or one script each). Components do not send each
other messages: they meet in shared tables. Almost every handler is a sequence of awaited
statements without a transaction, so the hard behaviours are the same everywhere: a value read
before an await and used after it, a process that stops between two statements, two workers that
poll the same row, and unique or exclusion constraints that decide who wins.

| Component | State it keeps | Operations | Meets | Hard behaviour | What makes it correct |
|---|---|---|---|---|---|
| AI turn queue (`features/ai`, `workflows/ai-turn.worker.ts`) | `ai_turn_jobs`, `ai_runs`, citations, `conversations.is_escalated` and assignee | enqueue, claim with a five minute lease, recover, draft, escalate, record, acknowledge, fail | inbox, knowledge, provider | lease expiry while the first worker is alive, crash between record and acknowledge, unfenced fail | one turn per message, recorded once; failure seen by a person; attempts bound the provider's bill |
| Appointments (`features/appointments`, `workflows/appointment-reminders.worker.ts`) | `appointments`, `appointment_reminders` | book, recur, cancel, reschedule, remind | contacts, loyalty, reviews | stale availability, cancel against reschedule, reminders delivered and not recorded | no overlap in force, a successor for each rescheduled one, sent means delivered |
| Invoices (`features/invoices`) | invoice, line items, payments, refunds, webhook journal | edit, issue, void, pay, webhook, refund, redeem a coupon | quotes, coupons, gateway | repeated and concurrent webhooks, read-sum-write reconciliation, edit against coupon | no credit without money, figures agree |
| Loyalty (`features/loyalty`, `workflows/loyalty.worker.ts`) | accounts, point ledger, referrals, coupons | earn, bonus, spend | invoices | two workers on one invoice, crash between bonus and mark, stale tier | balance is the ledger, bonuses bounded, invoices are not starved |
| Workflows (`features/workflow-builder`, `workflows/workflow-delay.worker.ts`) | versions, runs, run steps | save a version, start, resume after a delay | CRM and inbox data | concurrent saves, claim without a lease, a failure after completion | steps are a path of the pinned version, over is over |
| Broadcast (`features/broadcast`, `workflows/broadcast.worker.ts`) | campaigns, recipients | schedule, send, cancel, materialise, deliver | contacts' consent, transport | workers without a claim, "sending" before the recipients exist, shared catch | only consenting contacts, sent means delivered, nobody left behind |
| Knowledge (`features/knowledge`, its worker) | sources, documents, versions, chunks, ingestion jobs | upload, ingest, approve, retrieve | AI turns | claim without LIMIT, a job claimed twice, a crash inside the pipeline | a job reported done is searchable, a queued job is claimed |
| Transcription (`features/voice`, its worker) | transcriptions | enqueue, lease, complete, fail | inbox | as the AI turn queue, with an unguarded fail | settled once, silent after an erasure |
| Reviews (`features/reviews`, its worker) | review requests | queue, send, cancel | appointments | send against cancel, workers that list before they send | a cancelled request is left alone |
| Quotations (`features/quotations`) | quotes, versions | edit, send, accept, invoice | invoices | check then act on status and number | what was sent is what was snapshotted, a quote is invoiced once it is seen, numbers have no gap |
| CRM (`features/crm`, its worker) | contacts, tags, deals, activities | pipeline, automations | inbox, broadcast | the tag is looked for, then created and assigned, by workers and people | a valuable deal is tagged and noted |
| Organizations (`features/auth`, `features/organizations`) | members, invitations, branches | invite, change role, remove, set the default | everything | two owners demoted at once; two defaults set at once | an owner remains; one default |
| Privacy (`features/privacy`, `lib/db/erasure.ts`) | requests, redacted rows | export, erase | everything about a contact | a message or a transcript that arrives during the erasure | nothing that was there stays |
| Integrations (`features/integrations`) and the tenant cache (`lib/cache.ts`) | connections, generations, entries | list, configure, disconnect, test; get, load, invalidate | each other | version shown against version stored, a load that outlives an invalidation | a refusal means a change, no stale hit after one |
| Inbox (`features/inbox`) | conversations, messages, read markers | assign, archive, read | AI turns, privacy | none of its own | single statements |
| Scope, rate limit (`lib`, `server`) | window counters | count, fall back | everything | fallback starts a count of its own | limits hold |
| Worker service (`scripts/worker-service.ts`) | none | start the loops | all workers | a loop that rejects ends while the process lives | every loop is restarted |
| Admin, analytics, dashboard, health, gateways, UI | settings; otherwise read only | single statements, I/O | | | |

Everything above the inbox is modelled; section 6 says what is left out of it, and why the rest is
not modelled.

## 2. What is modelled

Conventions common to the modules:

- An action is one awaited call with what happens before the next await; the record of a process
  (`worker[w]`, `req[p]`, `proc[p]`) holds the next call (`at`) and the local variables it needs.
  So every interleaving of requests and workers, and every stop between two awaits, is a behaviour.
- A database statement, or a transaction, is atomic. Unique keys, exclusion constraints and
  conditional updates (`updateMany ... where`) are guards or conditionals of the action.
- Time is not counted. A lease may expire, and a delay, a reminder or a campaign may fall due, at any
  moment after it starts.
- A stop of a process, or a call that rejects, is an action counted by a bound (`MaxCrashes`);
  abandoned requests need no bound where they end by themselves.
- What an external party answers (provider, transport, gateway) is a choice. Rows of other
  organizations are absent: scoping is a property of the query builder that is not modelled.
- A definition under a comment that begins with `Mutant:` is a plausible bug, used by nothing here;
  `PROJECT.json` names the property it breaks.
- Each module states its types (`TypeOK`, or with the module's name before it where modules are
  checked together). Where a module has proofs the types are a theorem; no run spends time on them.

**AiTurnQueue** (with **TurnLedger**, its abstract specification). State: job rows, status, attempts,
lease; runs and citations; the conversation's escalation and assignee; workers. Actions:
`Enqueue` (the runs API), `Claim` (`claimAiTurnJob`: oldest queued job, or running with a stale lease,
with attempts left), then `processNextAiTurn` step by step: `FindRun`, `GetInput`, `GetConversation`,
`Draft`, `Escalate`, `CreateRun`, `CreateCitations`, `Succeed`; `Throw`, `FailRead` and `FailWrite` are
its catch; `LeaseExpires`, `Assign` and `Crash` are the environment. What a turn says (intent, tools,
prompt, token budget) is a choice of outcome. `TurnLedger` promises one turn per message, recorded at
most once and never revised, settled once, succeeded only with its outcome on record. The refinement
mapping merges queued and running into `open`.

**Appointments** (with **Calendar**). Book with recurrence, cancel, reschedule and the reminder worker.
`OpenSlot` abstracts slot computation to what a stale check can let through: inside opening hours,
off the exceptions, on the service's own grid, free. `Excludes` is the database's exclusion constraint.
`Calendar` promises that bookings in force never overlap and that a released one never comes back; it
is implemented under stale checks, unchecked series inserts and a reschedule that overwrites a cancel.

**Loyalty**. Workers list paid, unearned invoices in batches and credit accounts (`applyPoints` is one
transaction), then pay referral bonuses and mark them; requests spend points under a conditional
update. Points per invoice are constants, for the multiplication is not in question.

**Billing**. One invoice with lines, payments, refunds, journal and coupon, under requests and
webhooks that may be abandoned anywhere. Amounts are whole numbers, so the code's tolerance of 0.0001
vanishes. The refunds of all payments are summed in one step. The deployed factory
(`InvoicesService.forOrganization`) registers no gateway adapter; the model follows `withGateways`,
which the tests use, and the manual path is the same in both. `disturbed` is a history variable: two
reconciliations (or two edits) overlapped or one was cut short. Two properties are conditional on it,
because the code's read-sum-write really loses the race; the others hold regardless.

**WorkflowRuns**. Versions are saved by concurrent requests, runs start in the current version and
workers claim and resume delays. `Trace` is the code's walk (follow the branch, stop at a delay or at
a node seen in this segment) as a recursive function of the nodes seen. `contended` (in `ObservedSpec`) is a history
variable: two saves overlapped or one was cut short. What conditions say is fixed per run.

**Broadcast**. One campaign: clients schedule, send and cancel on a status they read earlier; clients
and workers materialise recipients; workers deliver without claiming. A segment may select any set of
contacts at each evaluation, so consent that changes over time is covered. The worker's loop has no
catch, so a call that rejects, or a segment that selects nobody, stops it until its process is
started again (`Reject`, `Restart`). The order in which queued recipients are delivered is left free.
`raced` is a history variable: a worker delivered while recipients were being created.

**Ingestion**. Documents with their jobs, FAQs that are indexed by their own request, and workers.
The claim
is followed row by row (`SelectRow`): the subquery skips rows that another claim has locked, and it has no LIMIT, so a
second row makes the statement fail, which ends the loop; `ClaimNextJob` updates the one row it holds. A worker then
deletes and inserts the chunks, counts and acknowledges; an await that rejects in between leads to the
update to failed, and a stop leaves the job running for ever, for nothing takes it over.

**Members** and **Branches** (organizations). A role change reads the actor, the member and the
number of owners in separate calls and writes by id; a removal does the same. `Overtaken` says that
another request wrote between the count and the write. The default branch moves in one transaction
at read committed: the first `updateMany` sees the committed default (`seen`), locks it, waiting for whoever
has it, and passes over a row that is no longer default; the second update meets the partial unique index, which
may roll the transaction back.

**Erasure**. One conversation of one contact: messages and voice notes arrive, privacy requests are
filed and carried out in one transaction whose statements are actions, and the transcription queue
(claim under a lease, read the job, fetch, transcribe, complete or fail, retry) runs beside it.
`late` is a history variable: what arrived after the erasure had read its list.

**Reviews**. Staff create, send, cancel and record answers; workers list created, eligible and expired
visits and go through their lists with a status they read at the start of the pass. `consent` may change
at any moment. In the deployed factory the transport always rejects; the model has one that may carry.

**Quotes** and **QuoteInvoices**. A quote's row and its lines are written apart, sending stores what
was read at the beginning, and answers write by id. `overlapped` is a history variable: an edit was
under way together with another request. Invoices from quotes check `quoteAlreadyInvoiced`, read the last
number and insert under the unique key of the number; `emptied` is the moment in which an edit of the
quote has deleted its lines, where an invoice from it is refused.

**Settings**. One connection row (with its version and soft deletion) and the cache in front of the
list. A list reads the generation, looks up, loads and stores; any call to the cache may reject. A save
checks the version it was sent and then writes by id. `published` and `since` record what a list may
be held to.

**Automation** (CRM). Deals are created and closed, tags are created, set and removed by people;
workers list the latest deals and tag the valuable ones: find the tag, create it by name, look whether
the deal has it, assign it, record the activity. A call that rejects ends the cycle, not the loop. Deals age
(`AgeOut`): those created before the look-back of seven days are no longer listed.

**MCServices**, **MCReminders** and **MCRequests** put the modules that share no table side by side.
A behaviour keeps to one of them (`area`, chosen at the start), so an instance is the sum of its areas
and not their product, and every property is checked in the area it is about. Where components do meet they share a module:
Transcription with Erasure, invoices with quotes, settings with the cache.

## 3. Runs

| Run | Instance | Shows |
|---|---|---|
| `ai_turn_queue` | 2 messages of one conversation (one never sent to the provider), 2 workers, 2 attempts, 1 crash | `FailedRunIsEscalated`, `TurnsWithinAttempts`, `RecoveryNeverRedrafts`, refinement of TurnLedger |
| `services` (MCServices) | turns: 1 message, 2 workers, 3 attempts, 2 crashes; ingestion: 2 documents, 1 FAQ author, 2 workers, 2 crashes; members: 2 and 2 requests; branches: 3 and 3 requests; automation: 3 deals (2 valuable), batches of 2, 2 workers, 2 edits, 1 fault; fair | `EventuallySettled`; `LoneJobIsClaimed`, `SucceededIsIndexed`; `OwnersAreKept`; `OneDefaultBranch`; `ValuableIsTagged` |
| `requests` (MCRequests) | appointments: 1 resource, 2 days of 2 instants, services of 1 and 2, a series, 2 requests, 3 rows; invoice: 2 requests at once and 5 in all, 2 payments, at most 2 of each paid back; quotes: 2 editions, 2 requests, 3 revisions; numbers: 2 quotes, 2 requests, 4 invoices; connection: 2 administrators, 2 versions, 2 lists | `RescheduledHasReplacement`, `CancelledIsOver`, refinement of Calendar; `NeverCreditsUnpaid`, `FiguresTie`, `UndisturbedFiguresAgree`; `SnapshotIsWhatWasSent`; `InvoicedWhileUnseen`; `FreshAfterPublishing` |
| `reminders` (MCReminders) | reminders: 2 rows, 1 lead, 1 request, 2 workers, 1 crash; reviews: 1 visit, 2 staff, 2 workers; erasure: 1 message, 1 privacy request, 2 clerks, 2 transcribers, 2 attempts, 1 lease that runs out | `SentWasDelivered`, `DeliveriesBounded`, `ReminderSettlesOnce`; `CancelledIsLeftAlone`; `SurvivorsCameLate`, `TranscriptIsSettled` |
| `loyalty` | 2 contacts, 3 invoices (one worth nothing), 1 referral, 2 workers, 1 request, 1 crash, batches of 2, fair | `BalanceIsLedger`, `BonusPerEarning`, `TierIsDeserved`, `PaidInvoiceEarns` |
| `workflow` | 3 valid graphs (a fork, a loop through the delay, a trailing delay) and an invalid one, 2 requests, 2 workers, 2 faults, 2 versions, fair | `NewestIsCurrent`, `StepsFollowPath`, `OverIsOver`, `RunAgreesWithSteps`, `WaitingRunEnds` |
| `broadcast` | 2 contacts, 1 client with 2 requests, 2 workers, 1 fault, fair | `DeliveredWasEligible`, `SentWasDelivered`, `DeliveriesBounded`, `NoneLeftBehind`, `CancelledIsDropped`, `SendingSettles` |
| `ai_turn_linked` (violation) | 1 message, 1 worker, 2 attempts, fair | a run recorded on the last attempt before a crash is never linked |
| `reminders_cancelled` (violation) | 1 request, no worker | an abandoned cancellation leaves reminders scheduled |
| `billing_webhook` (violation) | the instance of `requests` | a webhook that stops after journaling loses the payment for good |
| `knowledge_queue` (violation) | the instance of `services`, fair | two queued jobs stop every ingestion loop |
| `integrations_refused` (violation) | the instance of `requests` | after a disconnect every configure is refused |

Each run is exhaustive within its bounds (a violation stops at the first counterexample) and takes one
to four minutes at most on two cores.

*Why the bounds suffice to be interesting.* Every race found or excluded here is between two
processes and one row: two workers cover claims, takeovers and double delivery; a third would repeat
the second's steps. One fault between any two steps covers each partial failure; two are given where
a retry can fail again. In the queue, two attempts let a job be claimed, abandoned, reclaimed and
settled; in the liveness instance three outlast the two crashes. In Appointments, services of different
length put bookings on different grids, the case in which slot starts differ and ranges still
overlap; three rows hold an original and two competing replacements. A batch of two with one worthless
invoice ahead leaves one place, so starvation is one step away: with as many worthless invoices as a
batch holds, `PaidInvoiceEarns` fails, and its comment says so. In Billing, five requests admit a
payment, its webhook twice, a refund and an edit. In Broadcast the second process that materialises is
the worker itself, so one client is enough for sends and cancels to meet it. Two documents are what the
claim without LIMIT needs to fail, and three branches let two moves have different targets beside the
old default. Three deals and a batch of two push the oldest out of what a cycle lists. Two versions
of a connection are a write and a disconnect; two lists are one before and one after them.
Symmetry is used only in runs without liveness.

*Fairness.* Workers are `for (;;)` loops over `poll; sleep`, so a worker that can go on does: weak
fairness per worker over its whole loop (not over each action) in AiTurnQueue, Ingestion, Loyalty,
WorkflowRuns, Broadcast and Automation. Automation's loop catches what a cycle throws; where a loop has
no catch, the process must be started again: Ingestion assumes that it is (so that `LoneJobIsClaimed` and the
violation of `QueuedIsClaimed` are about the claim and not about a missing restart), Broadcast does not. Client requests are
fair only in WorkflowRuns, once they have started. No environment action is fair: nothing crashes,
expires, ages, is paid or is cancelled because the specification says so; the exceptions are the lease
(AiTurnQueue's `LeaseExpires` must happen, since time passes) and the end of a delay, which is part of the
worker's claim.

## 4. What is proved

Eight modules of proofs. Every theorem is stated for all values of the constants. All invariants and
action properties that the passing runs check, and both refinements, are theorems; the liveness
properties are not.

| Module | About | Theorems |
|---|---|---|
| `AiTurnQueueProofs` | AiTurnQueue, TurnLedger | `TypeCorrect`, `SuccessIsRecorded`, `FailureIsEscalated`, `RecoveryIsIdempotent`, `TurnsArePaid`, `QueueImplementsLedger` |
| `AppointmentsProofs` | Appointments, Calendar | `AppointmentsTypeCorrect`, `ReminderSentWasDelivered`, `OneReplacement`, `SettledReminderStays`, `CancelledStaysOver`, `RemindersAreCounted`, `BookingsImplementCalendar` |
| `BroadcastProofs` | Broadcast | `TypeCorrect`, `OnlyEligibleDelivered`, `SentMeansDelivered`, `NobodyLeftBehind`, `DeliveriesAreCounted`, `CancellationHolds` |
| `LedgerProofs` | Billing, Loyalty | `BillingTypeCorrect`, `FiguresAgree`, `NeverOvercredited`, `FiguresRight`; `LoyaltyTypeCorrect`, `BalanceRight`, `BonusesAreCounted`, `TiersAreDeserved` |
| `WorkflowProofs` | WorkflowRuns | `WorkflowTypeCorrect`, `SegmentIsAPath`, `RowsAreAPath`, `SucceededIsComplete`, `OverStays`, `CurrentIsNewest` |
| `OrganizationProofs` | Members, Branches, Ingestion, Settings | `MembersTypeCorrect`, `LastOwnerKept`, `BranchesTypeCorrect`, `DefaultIsOne`, `IngestionTypeCorrect`, `SuccessIsIndexed`, `SettingsTypeCorrect`, `PublishedIsShown` |
| `QuotationProofs` | Quotes, QuoteInvoices | `QuotesTypeCorrect`, `SentIsKept`, `QuoteInvoicesTypeCorrect`, `InvoicedOnlyUnseen` |
| `ContactProofs` | Reviews, Erasure | `ReviewsTypeCorrect`, `CancelledStays`, `ErasureTypeCorrect`, `ErasureIsComplete`, `TranscriptStays` |

None of the invariants is inductive as it stands; what each needs beside it is the knowledge that a
process keeps between two awaits.

*AI turns.* A worker about to acknowledge must know that the run is on record, and one about to record a
failure that the conversation is escalated. `IInv` adds `AcknowledgesRecorded`, `DecidedThenEscalated`,
`HeldJobExists` and `RunHasRow`. Each action of a turn preserves what its own worker knows; the others
keep what they know because rows are never deleted, runs never change and escalation is never reset.
`SuccessIsRecorded` (an acknowledged job has its run) is implied by the refinement and is not a run's
property of its own. `TurnsArePaid` counts: `Pending(m)` is the set of workers whose turn on m is still to be
drafted, and what was drafted plus the size of that set never exceeds the attempts (`Paid`). A claim adds a
worker and an attempt, a draft moves one from the set to the count, and a crash only takes one away.

*Appointments.* `IInv` is `TypeOK`, `SeriesGoesOn`, `MarksDelivered` and `Rows`: a request owns the row
it is building (`OwnsAlone`), reminders belong to rows that exist, a row about to be linked is fresh
(`LinksFresh`), an original about to be marked has its link (`MarksLinked`), nobody has two successors
(`OneSuccessor`), and bookings in force are apart (`Apart`, which the exclusion constraint keeps whatever
was checked before). The steps fall into classes (quiet ones, ones that add a row, link one, retire one,
cancel reminders or add them), and each invariant is proved for the classes, not for each action anew.
For `RemindersAreCounted`, `Listing(q)` are the workers with reminder q still to deliver and `Holding(q)`
those that have dealt with it and not written so. Until q is settled, each delivery is held or was forgotten
in a crash; from then on each worker that still lists it may add one (`Accounted`). The two sets are disjoint,
so either way there are at most as many as workers and crashes. A step keeps the count, delivers, settles or
forgets (`Accounts`), and one lemma (`AccountedStep`) does the arithmetic for the four.

*Broadcast.* Three strands: whom any process handles was eligible (`HandledWereEligible`); a worker about
to mark a recipient sent holds only acknowledged deliveries (`HeldWasDelivered`, `HeldOnlyToMark`); while
`raced` is false nobody creates beside a worker that delivers (`CreationApart`), a sent campaign has no
creator (`SentApart`), and each delivering worker holds everyone queued (`ListedIsHeld`), so the one that
finishes leaves nobody. The overlap of materialising and delivering is therefore the *only* way in which a
recipient is lost, for any number of workers. `DeliveriesAreCounted` is the argument of the reminders again,
for recipients that are created once and settled once. `CancellationHolds` needs no more than the types: when
a cancelled campaign is in nobody's hands, the status refuses every poll and every schedule.

*Billing.* The rows have their types and the figures tie after every step (`RInv`), since an edit
writes subtotal, discount and total together, and a redemption takes off the total what it sets as the
discount. What a reconciliation read is covered by payments that have succeeded (`Covered`), which never
become fewer, so it can be stale but not too high. While nothing is `disturbed` there is at most one
reconciliation and one edit, and what it remembers is exactly the present sum (`InStep`).

*Loyalty.* `PInv` says what a worker may rely on between two calls (`Sound`: the account it read is open and
its lifetime points have not shrunk; before the mark the bonus was paid), that balances are their
ledgers, and that each bonus, paid or still owed by a worker (`Owing`), has an earned invoice of the referred
contact behind it (`Counted`): an invoice is earned once, by one worker, and only that worker then owes
the bonuses.

*Sums and recursion.* Totals are folds over finite sets (`SumFunctionOnSet`), a batch is taken from a
recursive function over a sequence (`OpenOf`), and a walk from one over sets of visited nodes (`Trace`). The
induction theorems of the library take an operator and cannot be instantiated here; `NatSet` takes
a *set* of naturals that holds 0 and, with k, k + 1, and derives that it is all of them from the well-founded
order of the naturals. By it `LedgerProofs` shows that the recursive function a sum is chosen from exists,
that its value does not depend on which one is chosen, and what adding an element does (`SumAdd`); and
`WorkflowProofs` shows the same of walks, by the number of nodes not yet seen.

*Workflows.* `SegmentIsAPath` is about the walk alone. `WInv` then says that the rows of each run are a path of the
version it was started with (`PathOK`), complete if it succeeded (`Whole`); that one request or worker at a
time has a run in hand (`Alone`), so that the row it is about to complete is the last, pending or running,
and a delay (`RequestOK`, `ResumeOK`); and that versions are valid and never change. Steps are
segments put behind one another (`Joined`) or a new status of the last row (`EndSet`). `CurrentIsNewest` is about
the behaviour with the history variable `contended` (`ObservedSpec`): without contention the one save under
way is what the current version is behind.

*Ingestion.* Rows held by a claim are queued and held once (`HeldIsQueued`, `HeldByOne`), so a job is worked
on by one worker, while it is running (`WorkedOnByOne`, `WorkedOnIsRunning`), and a worker about to count or to
acknowledge has its chunks in the index (`DoneIsIndexed`).

*Organizations.* A write that takes the last owner away had counted two, so another request has written
since the count; nobody who is not an owner can make one. For the default branch, what a
transaction has locked is default still, and the locks of two transactions are disjoint; the unique index settles the
rest.

*Settings.* Whatever a list may still be shown is new enough (`FreshEnough`): an entry of the generation in
use is as new as the last publication, one of an older generation as new as any list still asks for that has its
key; and a list about to store holds something that satisfies it (`AdminKnows`). An invalidation
that comes through moves the generation on, which is when a change counts as published; so no entry from before it
is in use after it.

*Quotations.* While `overlapped` is false an edit has the quote to itself (`EditsAlone`), so what a request
has seen is what the quote shows (`SeenIsShown`), and one about to set the status knows that the snapshot
is in place (`SettersKnow`). Numbers follow one another (`NumbersFollow`), and each request that still may
insert has room beside the invoices there are (`RoomForAll`), which is a count of finite sets.

*Reviews.* A cancelled request that no process has in hand (`Unheld`) stays so, for every list is taken by
status.

*Erasure.* A clerk past its reads knows each message that is not late (the invariant's `Knows`), and a
file has its message (`FilesHaveBodies`). A worker before its completion holds the lease or has been overrun
(`LeaseHeld`), and completes only with a storage key it has read (`KeyToComplete`).

Assumptions: the named `ASSUME`s of the modules only (typing of constants, bounds are naturals, at
least one attempt; "none" is no visit and no quote). Finite are the sets of members, of requests for
invoices, of workers (a process is started by somebody) and of nodes of a workflow's graph (it is one JSON
document). TLC evaluates them in the runs.

Only model-checked: the liveness properties (`EventuallySettled`, `LoneJobIsClaimed`, `PaidInvoiceEarns`,
`WaitingRunEnds`, `SendingSettles`, `ValuableIsTagged`, and the half of `RunAgreesWithSteps` that says that a failed
step fails its run), for liveness under fairness and ENABLED are out of the prover's reach.

## 5. Disagreements met

1. `lib/db/system-discovery.repository.ts:59` claims only jobs with attempts left, so a job that
   crashed on its last attempt after recording its run stays `running` and unlinked, while
   `docs/milestones/MILESTONE_08_COMPLETED.md:16` says the next worker links it (`ai_turn_linked`).
2. `cancel()` of appointments writes the status and cancels the reminders in two statements, and a
   second cancel is refused (`reminders_cancelled`, against `docs/api/appointments.md:155`).
3. The payment webhook journals the event before it advances the payment; a stop in between turns
   every retry into a no-op (`billing_webhook`, against `docs/api/invoices.md:162`).

4. `claimNextJob` (`features/knowledge/lib/retrieval.ts:230`) compares the id with a subquery that has no
   LIMIT. Two jobs queued in one organization make the statement fail, nothing catches it, and
   `runWorker` ends, though it "polls ... until the process is killed" (`knowledge_queue`).
5. A disconnect deletes the connection softly: the list shows none and the page sends no version, but
   `save()` (`lib/db/integrations.repository.ts:57`) finds the row and requires its version. Every configure
   afterwards is refused with "Refresh and try again" (`integrations_refused`).

Weaker truths that the properties had to admit, since the code allows the exception:

- bonuses may be paid once per earning instead of once per referral (`BonusPerEarning`); messages may be
  delivered once per worker and fault (`DeliveriesBounded`);
- `amountPaid` and line items agree with their rows only if no two reconciliations or edits overlapped
  (`UndisturbedFiguresAgree`), and a quote agrees with its snapshot only if no edit overlapped
  (`SnapshotIsWhatWasSent`);
- a quote may be invoiced once per request that looked before the first was inserted (`InvoicedWhileUnseen`);
- a campaign may end with recipients queued if a worker delivered during their creation
  (`NoneLeftBehind`), and a cancelled campaign may be overwritten by "sent" while a poll holds it
  (`CancelledIsDropped`);
- a reschedule that read an appointment before its cancellation revives it (`CancelledIsOver`), and a review
  request read before its cancellation may still be sent (`CancelledIsLeftAlone`);
- a valuable deal that newer deals or the look-back of seven days have taken off the list of a cycle gets no tag
  any more (`ValuableIsTagged`);
- the last owner is lost to a request that was overtaken (`OwnersAreKept`);
- what arrives during an erasure stays (`SurvivorsCameLate`), and a completed transcription is reopened
  after a lease ran out (`TranscriptIsSettled`);
- a run stays `running` when the worker that claimed its delay stops (`WaitingRunEnds`), and a campaign stays
  `sending` when every loop has ended (`SendingSettles`);
- the version a workflow is at may be an older one when two saves race (`NewestIsCurrent` states when it
  is not).

Met beside them, without a sentence of the repository to contradict: a transcription whose worker stops on
its last attempt stays `processing`; `reviews.forOrganization` is given a transport that always rejects; a
save of a connection writes by id after its check, so a second writer is not noticed; a closed deal can be moved
to another stage, and closed twice it is noted twice.

## 6. Not modelled, and what is left

Not modelled, since nothing in it can be stated that a statement does not already say:

- *Inbox*: every operation is one statement or one transaction, and nothing in the repository receives messages or
  counts unread ones. What turns and erasures do to its tables is in AiTurnQueue and Erasure.
- *Tenant scoping*: a static property of the query builder, which the modules assume by modelling one
  organization.
- *Rate limiting*: one atomic statement, or one script, for each request.
- *Worker service, gateways, storage, email, encryption*: process start and I/O; what they answer or when they stop is
  a choice in the modules that use them.
- *Platform admin, analytics, dashboard, health, UI*: single statements, reads and presentation.

Left out of the modelled components: time zones, parsing of recurrence rules and the slot grid of the
catalogue; currencies and due dates; the catalogue of rewards; cloning and
enabling workflows; segments and templates; parsing, embedding and ranking of knowledge, and approval of a
version (one conditional update); sessions and invitations (an external library); platforms, replies and moderation of
reviews; totals and PDFs of quotes; stages, tasks and companies of the CRM.
Two details are simpler than the code: a call that was applied and rejects all the same is not modelled
for `finishRun` and for the completion of a transcription; and the erasure of a contact, who has one
conversation in the model, reads conversations and messages in one step. The stored audio itself is outside
the model.

What would add most next: `moveDealToStage` and `closeDeal`, which meet on a deal's status; the pure
algorithms (slots, recurrence, rounding to four places) against reference definitions; an abstract outbox
("each message settles once") that reminders, reviews and broadcast implement.
