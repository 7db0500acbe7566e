----------------------------- MODULE AiTurnQueue ------------------------------
(***************************************************************************)
(* The durable queue of AI turns: the ai_turn_jobs and ai_runs tables, the *)
(* workers that poll them, and the two conversation columns a turn reads   *)
(* and writes.  Each action is one awaited database or provider call, so   *)
(* that workers interleave, crash and lose their lease between any two.    *)
(* A job is named by its input message (input_message_id is unique) and    *)
(* the run of a job has the job's own id.                                  *)
(***************************************************************************)
EXTENDS Naturals, Sequences

CONSTANTS Message,       \* inbound contact messages that carry text
          Conversation,
          Conv,          \* Conv[m]: the conversation of message m
          Hard,          \* messages the guardrails never send to the provider
          Worker,        \* worker processes polling one organization
          MaxAttempts,   \* ai_turn_jobs.max_attempts
          MaxCrashes     \* bound: worker crashes in a behaviour

ASSUME QueueAssumption ==
    /\ Conv \in [Message -> Conversation]
    /\ Hard \subseteq Message
    /\ MaxAttempts \in Nat \ {0}
    /\ MaxCrashes \in Nat

Outcome == {"answered", "escalated", "refused", "failed"}
None == "none"
Idle == [at |-> "idle"]
Awaiting(step, m) ==
    [at |-> step, job |-> m, outcome |-> None, cites |-> FALSE, read |-> 0]

VARIABLES rows,        \* job rows in created_at order, each named by its message
          status,      \* status[m], "absent" before the row exists
          attempts,    \* attempts[m]: claims of the job so far
          lock,        \* locked_at: "null", "fresh", or "stale" after five minutes
          run,         \* run[m]: outcome of the ai_runs row of m, or None
          cited,       \* messages whose run has its citation rows
          calls,       \* calls[m]: turns in which the provider was asked
          escalated,   \* conversations with is_escalated set
          assigned,    \* conversations with an assignee
          worker,      \* worker[w]: what w is about to do, and what it remembers
          crashes      \* crashes so far

jobVars == <<rows, status, attempts, lock>>
runVars == <<run, cited, calls>>
conversationVars == <<escalated, assigned>>
vars == <<jobVars, runVars, conversationVars, worker, crashes>>

\* The awaits of processNextAiTurn's try block, in order, and of fail().
TryBlock == {"findRun", "getInput", "getConversation", "draft", "escalate",
             "createRun", "createCitations", "succeed"}
Holding == [at : TryBlock \union {"failRead"}, job : Message,
            outcome : Outcome \union {None}, cites : BOOLEAN, read : {0}]
Failing == [at : {"failWrite"}, job : Message,
            outcome : Outcome \union {None}, cites : BOOLEAN, read : 0..MaxAttempts]

TypeOK ==
    /\ rows \in Seq(Message)
    /\ status \in [Message -> {"absent", "queued", "running", "succeeded", "failed"}]
    /\ attempts \in [Message -> 0..MaxAttempts]
    /\ lock \in [Message -> {"null", "fresh", "stale"}]
    /\ run \in [Message -> Outcome \union {None}]
    /\ cited \in SUBSET Message
    /\ calls \in [Message -> Nat]
    /\ escalated \in SUBSET Conversation
    /\ assigned \in SUBSET Conversation
    /\ worker \in [Worker -> {Idle} \union Holding \union Failing]
    /\ crashes \in 0..MaxCrashes

Init ==
    /\ rows = <<>>
    /\ status = [m \in Message |-> "absent"]
    /\ attempts = [m \in Message |-> 0]
    /\ lock = [m \in Message |-> "null"]
    /\ run = [m \in Message |-> None]
    /\ cited = {}
    /\ calls = [m \in Message |-> 0]
    /\ escalated = {}
    /\ assigned = {}
    /\ worker = [w \in Worker |-> Idle]
    /\ crashes = 0

-------------------------------------------------------------------------------
\* POST /api/ai/runs: createMany skips the message that already has a row, so
\* asking again changes nothing.
Enqueue(m) ==
    /\ status[m] = "absent"
    /\ rows' = Append(rows, m)
    /\ status' = [status EXCEPT ![m] = "queued"]
    /\ UNCHANGED <<attempts, lock, runVars, conversationVars, worker, crashes>>

\* Mutant: no recovery of a stale claim.
ClaimableQueued(m) == status[m] = "queued" /\ attempts[m] < MaxAttempts

Claimable(m) ==
    /\ \/ status[m] = "queued"
       \/ status[m] = "running" /\ lock[m] = "stale"
    /\ attempts[m] < MaxAttempts

\* ORDER BY created_at LIMIT 1.
NextClaimable(m) ==
    \E i \in DOMAIN rows :
        /\ rows[i] = m
        /\ Claimable(m)
        /\ \A k \in DOMAIN rows : k < i => ~Claimable(rows[k])

\* Mutant: taking over a stale claim does not count as an attempt.
ClaimFreeTakeover(w, m) ==
    /\ worker[w] = Idle
    /\ NextClaimable(m)
    /\ status' = [status EXCEPT ![m] = "running"]
    /\ attempts' = IF status[m] = "running" THEN attempts ELSE [attempts EXCEPT ![m] = @ + 1]
    /\ lock' = [lock EXCEPT ![m] = "fresh"]
    /\ worker' = [worker EXCEPT ![w] = Awaiting("findRun", m)]
    /\ UNCHANGED <<rows, runVars, conversationVars, crashes>>

\* One UPDATE ... FOR UPDATE SKIP LOCKED statement.
Claim(w, m) ==
    /\ worker[w] = Idle
    /\ NextClaimable(m)
    /\ status' = [status EXCEPT ![m] = "running"]
    /\ attempts' = [attempts EXCEPT ![m] = @ + 1]
    /\ lock' = [lock EXCEPT ![m] = "fresh"]
    /\ worker' = [worker EXCEPT ![w] = Awaiting("findRun", m)]
    /\ UNCHANGED <<rows, runVars, conversationVars, crashes>>

\* w moves on to its next await, remembering its job and, with Decide, what the
\* turn decided.
At(w, step) == worker[w].at = step
GoTo(w, step) == worker' = [worker EXCEPT ![w] = Awaiting(step, worker[w].job)]
Decide(w, step, o, c) ==
    worker' = [worker EXCEPT ![w] =
                  [Awaiting(step, worker[w].job) EXCEPT !.outcome = o, !.cites = c]]

\* Mutant: a job claimed before is assumed to have its run.
FindRunAssumed(w) ==
    /\ At(w, "findRun")
    /\ GoTo(w, IF attempts[worker[w].job] > 1 THEN "succeed" ELSE "getInput")
    /\ UNCHANGED <<jobVars, runVars, conversationVars, crashes>>

\* Mutant: no recovery check.
FindRunSkipped(w) ==
    /\ At(w, "findRun")
    /\ GoTo(w, "getInput")
    /\ UNCHANGED <<jobVars, runVars, conversationVars, crashes>>

\* The run of an earlier, crashed claim is linked instead of drafted again.
FindRun(w) ==
    /\ At(w, "findRun")
    /\ GoTo(w, IF run[worker[w].job] # None THEN "succeed" ELSE "getInput")
    /\ UNCHANGED <<jobVars, runVars, conversationVars, crashes>>

\* getInput reads the row only while it is running, and throws otherwise.
GetInput(w) ==
    /\ At(w, "getInput")
    /\ GoTo(w, IF status[worker[w].job] = "running" THEN "getConversation" ELSE "failRead")
    /\ UNCHANGED <<jobVars, runVars, conversationVars, crashes>>

\* A turn a person owns is recorded as escalated with no reply; a hard message
\* is escalated without asking the provider.
GetConversation(w) ==
    LET m == worker[w].job
        c == Conv[m]
    IN  /\ At(w, "getConversation")
        /\ \/ /\ c \in assigned \union escalated
              /\ Decide(w, "createRun", "escalated", FALSE)
           \/ /\ c \notin assigned \union escalated
              /\ m \in Hard
              /\ Decide(w, "escalate", "escalated", FALSE)
           \/ /\ c \notin assigned \union escalated
              /\ m \notin Hard
              /\ GoTo(w, "draft")
        /\ UNCHANGED <<jobVars, runVars, conversationVars, crashes>>

\* Mutant: a provider failure is recorded without escalating.
DraftFailsQuietly(w) ==
    /\ At(w, "draft")
    /\ calls' = [calls EXCEPT ![worker[w].job] = @ + 1]
    /\ \E o \in Outcome, c \in BOOLEAN :
          /\ o = "refused" => ~c
          /\ Decide(w, IF o = "escalated" THEN "escalate" ELSE "createRun", o, c)
    /\ UNCHANGED <<jobVars, run, cited, conversationVars, crashes>>

\* Tools and the provider, with its own bounded retry; a refusal is the reply of
\* a turn whose retrieval found nothing, so it has no citations.
Draft(w) ==
    /\ At(w, "draft")
    /\ calls' = [calls EXCEPT ![worker[w].job] = @ + 1]
    /\ \E o \in Outcome, c \in BOOLEAN :
          /\ o = "refused" => ~c
          /\ Decide(w, IF o \in {"failed", "escalated"} THEN "escalate" ELSE "createRun", o, c)
    /\ UNCHANGED <<jobVars, run, cited, conversationVars, crashes>>

Escalate(w) ==
    /\ At(w, "escalate")
    /\ escalated' = escalated \union {Conv[worker[w].job]}
    /\ Decide(w, "createRun", worker[w].outcome, worker[w].cites)
    /\ UNCHANGED <<jobVars, runVars, assigned, crashes>>

\* AiRunRecorder.persist; the run's id is the job's, so a second insert violates the primary key.
CreateRun(w) ==
    LET m == worker[w].job
    IN  /\ At(w, "createRun")
        /\ \/ /\ run[m] = None
              /\ run' = [run EXCEPT ![m] = worker[w].outcome]
              /\ GoTo(w, IF worker[w].cites THEN "createCitations" ELSE "succeed")
           \/ /\ run[m] # None
              /\ GoTo(w, "failRead")
              /\ UNCHANGED run
        /\ UNCHANGED <<jobVars, cited, calls, conversationVars, crashes>>

CreateCitations(w) ==
    /\ At(w, "createCitations")
    /\ cited' = cited \union {worker[w].job}
    /\ GoTo(w, "succeed")
    /\ UNCHANGED <<jobVars, run, calls, conversationVars, crashes>>

Release(w) == worker' = [worker EXCEPT ![w] = Idle]

\* Mutant: the update is not conditional on the row still running.
SettleAlways(m, s) ==
    /\ status' = [status EXCEPT ![m] = s]
    /\ lock' = [lock EXCEPT ![m] = "null"]

\* updateMany ... WHERE status = 'running': nothing happens to a settled row.
Settle(m, s) ==
    IF status[m] = "running"
    THEN /\ status' = [status EXCEPT ![m] = s]
         /\ lock' = [lock EXCEPT ![m] = "null"]
    ELSE UNCHANGED <<status, lock>>

Succeed(w) ==
    /\ At(w, "succeed")
    /\ Settle(worker[w].job, "succeeded")
    /\ Release(w)
    /\ UNCHANGED <<rows, attempts, runVars, conversationVars, crashes>>

\* Any await of the try block may reject (database, provider, network).
Throw(w) ==
    /\ worker[w].at \in TryBlock
    /\ GoTo(w, "failRead")
    /\ UNCHANGED <<jobVars, runVars, conversationVars, crashes>>

\* fail() reads the row, and only then updates it.
FailRead(w) ==
    /\ At(w, "failRead")
    /\ worker' = [worker EXCEPT ![w] =
           [Awaiting("failWrite", worker[w].job) EXCEPT !.read = attempts[worker[w].job]]]
    /\ UNCHANGED <<jobVars, runVars, conversationVars, crashes>>

FailWrite(w) ==
    /\ At(w, "failWrite")
    /\ Settle(worker[w].job, IF worker[w].read >= MaxAttempts THEN "failed" ELSE "queued")
    /\ Release(w)
    /\ UNCHANGED <<rows, attempts, runVars, conversationVars, crashes>>

-------------------------------------------------------------------------------
\* The process dies between two awaits and is restarted with no memory.
Crash(w) ==
    /\ worker[w] # Idle
    /\ crashes < MaxCrashes
    /\ crashes' = crashes + 1
    /\ Release(w)
    /\ UNCHANGED <<jobVars, runVars, conversationVars>>

\* Five minutes pass since the claim, whether or not its worker is alive.
LeaseExpires(m) ==
    /\ lock[m] = "fresh"
    /\ lock' = [lock EXCEPT ![m] = "stale"]
    /\ UNCHANGED <<rows, status, attempts, runVars, conversationVars, worker, crashes>>

\* An agent takes the conversation or hands it back; nothing clears is_escalated.
Assign(c) ==
    /\ assigned' = IF c \in assigned THEN assigned \ {c} ELSE assigned \union {c}
    /\ UNCHANGED <<jobVars, runVars, escalated, worker, crashes>>

Turn(w) ==
    \/ FindRun(w) \/ GetInput(w) \/ GetConversation(w) \/ Draft(w) \/ Escalate(w)
    \/ CreateRun(w) \/ CreateCitations(w) \/ Succeed(w)
    \/ Throw(w) \/ FailRead(w) \/ FailWrite(w)

WorkerStep(w) == Turn(w) \/ \E m \in Message : Claim(w, m)

Next ==
    \/ \E m \in Message : Enqueue(m) \/ LeaseExpires(m)
    \/ \E w \in Worker : WorkerStep(w) \/ Crash(w)
    \/ \E c \in Conversation : Assign(c)

Spec == Init /\ [][Next]_vars

\* The workers poll for ever and time passes; nothing obliges a crash, an
\* enqueue or an agent.
TurnFairness ==
    /\ \A w \in Worker : WF_vars(WorkerStep(w))
    /\ \A m \in Message : WF_vars(LeaseExpires(m))

FairSpec == Spec /\ TurnFairness

-------------------------------------------------------------------------------
\* Workers that are inside a turn for m: past the recovery check of
\* processNextAiTurn and not yet at the insert of the run.
Drafting(m) ==
    {w \in Worker : /\ worker[w] # Idle
                    /\ worker[w].job = m
                    /\ worker[w].at \in {"getInput", "getConversation", "draft"}}

\* A job is acknowledged as succeeded only when its run is on record, whichever
\* worker acknowledged it and whatever the other workers of the job are doing
\* (ai-turn.worker.ts, succeed).
SucceededHasRun == \A m \in Message : status[m] = "succeeded" => run[m] # None

\* A customer whose turn failed at the provider, or was escalated unread by the
\* guardrails, is in front of a person: the flag is set before the run is
\* recorded, so no crash in between loses it (ai-engine.service.ts step 6-7).
FailedRunIsEscalated ==
    \A m \in Message : run[m] = "failed" => Conv[m] \in escalated

\* The provider is asked at most once per claim, across crashes, reclaims and
\* duplicate workers: a message never costs more than max_attempts turns.
TurnsWithinAttempts == \A m \in Message : calls[m] <= attempts[m]

\* Once a run is recorded no further worker enters a turn for that message:
\* recovery links the run and does not ask the provider again
\* (ai-turn.worker.ts:22-28).
RecoveryNeverRedrafts ==
    [][\A m \in Message : run[m] # None => Drafting(m)' \subseteq Drafting(m)]_vars

\* A job is an open turn while it is queued or running.
LedgerTurn ==
    [m \in Message |-> IF status[m] \in {"queued", "running"} THEN "open" ELSE status[m]]
Ledger == INSTANCE TurnLedger WITH turn <- LedgerTurn, outcome <- run

\* The queue keeps the promise of TurnLedger under every interleaving of claims,
\* crashes and late workers: one turn per message, recorded once, settled once
\* and for good, and succeeded only with its outcome on record.
LedgerSpec == Ledger!Spec

\* Nobody will touch m again: its attempts are used up and no worker holds it.
Stranded(m) ==
    /\ status[m] \in {"queued", "running"}
    /\ attempts[m] = MaxAttempts
    /\ \A w \in Worker : worker[w] = Idle \/ worker[w].job # m

\* A queued job does not wait for ever while an attempt is left: it is settled,
\* or all its attempts were used up (claimAiTurnJob, the worker loop).
EventuallySettled ==
    \A m \in Message :
        status[m] = "queued" ~> (status[m] \in {"succeeded", "failed"} \/ Stranded(m))

\* "If a worker crashes after persisting the run but before acknowledging the
\* job, the next worker links that run without a second provider invocation."
\* (docs/milestones/MILESTONE_08_COMPLETED.md:16)
RecordedRunIsLinked ==
    \A m \in Message : run[m] # None ~> status[m] = "succeeded"
===============================================================================
