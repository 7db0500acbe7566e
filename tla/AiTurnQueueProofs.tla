--------------------------- MODULE AiTurnQueueProofs --------------------------
(***************************************************************************)
(* Proofs about AiTurnQueue for any messages, workers, attempt limit and   *)
(* number of crashes.  The inductive invariant adds to the type invariant  *)
(* what a worker that is past the insert of a run, or about to make one,   *)
(* knows of the tables; the theorems and the refinement follow from it.    *)
(***************************************************************************)
EXTENDS AiTurnQueue, FiniteSetTheorems, TLAPS

Steps == TryBlock \union {"failRead"}

\* What a busy worker remembers, whatever it is about to do.
LEMMA BusyWorker ==
    ASSUME TypeOK, NEW w \in Worker, worker[w].at # "idle"
    PROVE  /\ worker[w] \in Holding \union Failing
           /\ worker[w].job \in Message
           /\ worker[w].outcome \in Outcome \union {None}
           /\ worker[w].cites \in BOOLEAN
           /\ worker[w].read \in 0..MaxAttempts
<1>1. worker[w] \in {Idle} \union Holding \union Failing
  BY DEF TypeOK
<1>2. worker[w] # Idle
  BY DEF Idle
<1>3. 0 \in 0..MaxAttempts
  BY QueueAssumption
<1> QED
  BY <1>1, <1>2, <1>3 DEF Holding, Failing

LEMMA AwaitingType ==
    ASSUME NEW m \in Message, NEW s \in Steps
    PROVE  Awaiting(s, m) \in Holding
BY DEF Awaiting, Holding, Steps

LEMMA DecidedType ==
    ASSUME NEW m \in Message, NEW s \in Steps, NEW o \in Outcome \union {None},
           NEW c \in BOOLEAN
    PROVE  [Awaiting(s, m) EXCEPT !.outcome = o, !.cites = c] \in Holding
BY DEF Awaiting, Holding, Steps

LEMMA ReadType ==
    ASSUME NEW m \in Message, NEW n \in 0..MaxAttempts
    PROVE  [Awaiting("failWrite", m) EXCEPT !.read = n] \in Failing
BY DEF Awaiting, Failing

-------------------------------------------------------------------------------
(* Type correctness. *)

LEMMA WorkerUpdate ==
    ASSUME TypeOK, NEW w \in Worker,
           NEW r \in {Idle} \union Holding \union Failing,
           worker' = [worker EXCEPT ![w] = r]
    PROVE  worker' \in [Worker -> {Idle} \union Holding \union Failing]
BY DEF TypeOK

\* Every step of a turn takes the job its worker holds; this is the part of
\* TypeOK the step may disturb.
LEMMA GoToType ==
    ASSUME TypeOK, NEW w \in Worker, worker[w].at # "idle", NEW s \in Steps, GoTo(w, s)
    PROVE  worker' \in [Worker -> {Idle} \union Holding \union Failing]
<1>1. Awaiting(s, worker[w].job) \in Holding
  BY BusyWorker, AwaitingType
<1> QED
  BY <1>1, WorkerUpdate DEF GoTo

LEMMA DecideType ==
    ASSUME TypeOK, NEW w \in Worker, worker[w].at # "idle", NEW s \in Steps,
           NEW o \in Outcome \union {None}, NEW c \in BOOLEAN, Decide(w, s, o, c)
    PROVE  worker' \in [Worker -> {Idle} \union Holding \union Failing]
<1>1. [Awaiting(s, worker[w].job) EXCEPT !.outcome = o, !.cites = c] \in Holding
  BY BusyWorker, DecidedType
<1> QED
  BY <1>1, WorkerUpdate DEF Decide

LEMMA SettleType ==
    ASSUME TypeOK, NEW m \in Message, NEW s \in {"queued", "succeeded", "failed"},
           Settle(m, s)
    PROVE  /\ status' \in [Message -> {"absent", "queued", "running", "succeeded", "failed"}]
           /\ lock' \in [Message -> {"null", "fresh", "stale"}]
BY DEF TypeOK, Settle

LEMMA TurnType == ASSUME TypeOK, NEW w \in Worker, Turn(w) PROVE TypeOK'
<1> USE DEF jobVars, runVars, conversationVars
<1>1. CASE FindRun(w)
  <2>1. worker[w].at # "idle"
    BY <1>1 DEF FindRun, At
  <2>2. PICK s \in Steps : GoTo(w, s)
    BY <1>1 DEF FindRun, Steps, TryBlock
  <2> QED
    BY <1>1, <2>1, <2>2, GoToType DEF FindRun, TypeOK
<1>2. CASE GetInput(w)
  <2>1. worker[w].at # "idle"
    BY <1>2 DEF GetInput, At
  <2>2. PICK s \in Steps : GoTo(w, s)
    BY <1>2 DEF GetInput, Steps, TryBlock
  <2> QED
    BY <1>2, <2>1, <2>2, GoToType DEF GetInput, TypeOK
<1>3. CASE GetConversation(w)
  <2>1. worker[w].at # "idle"
    BY <1>3 DEF GetConversation, At
  <2>2. "escalated" \in Outcome \union {None} /\ FALSE \in BOOLEAN
    BY DEF Outcome
  <2>3. \/ \E s \in Steps : Decide(w, s, "escalated", FALSE)
        \/ \E s \in Steps : GoTo(w, s)
    BY <1>3 DEF GetConversation, Steps, TryBlock
  <2>4. worker' \in [Worker -> {Idle} \union Holding \union Failing]
    BY <2>1, <2>2, <2>3, GoToType, DecideType
  <2> QED
    BY <1>3, <2>4 DEF GetConversation, TypeOK
<1>4. CASE Draft(w)
  <2>1. worker[w].at # "idle" /\ worker[w].job \in Message
    BY <1>4, BusyWorker DEF Draft, At
  <2>2. PICK s \in Steps, o \in Outcome, c \in BOOLEAN : Decide(w, s, o, c)
    BY <1>4 DEF Draft, Steps, TryBlock
  <2>3. worker' \in [Worker -> {Idle} \union Holding \union Failing]
    BY <2>1, <2>2, DecideType
  <2>4. calls' \in [Message -> Nat]
    BY <1>4, <2>1 DEF Draft, TypeOK
  <2> QED
    BY <1>4, <2>3, <2>4 DEF Draft, TypeOK
<1>5. CASE Escalate(w)
  <2>1. worker[w].at # "idle"
    BY <1>5 DEF Escalate, At
  <2>2. worker[w].job \in Message /\ Conv[worker[w].job] \in Conversation
    BY <2>1, BusyWorker, QueueAssumption
  <2>3. "createRun" \in Steps
    BY DEF Steps, TryBlock
  <2>4. worker' \in [Worker -> {Idle} \union Holding \union Failing]
    BY <1>5, <2>1, <2>3, BusyWorker, DecideType DEF Escalate
  <2> QED
    BY <1>5, <2>2, <2>4 DEF Escalate, TypeOK
<1>6. CASE CreateRun(w)
  <2>1. worker[w].at # "idle"
    BY <1>6 DEF CreateRun, At
  <2>2. worker[w].job \in Message /\ worker[w].outcome \in Outcome \union {None}
    BY <2>1, BusyWorker
  <2>3. PICK s \in Steps : GoTo(w, s)
    BY <1>6 DEF CreateRun, Steps, TryBlock
  <2>4. run' \in [Message -> Outcome \union {None}]
    BY <1>6, <2>2 DEF CreateRun, TypeOK
  <2> QED
    BY <1>6, <2>1, <2>3, <2>4, GoToType DEF CreateRun, TypeOK
<1>7. CASE CreateCitations(w)
  <2>1. worker[w].at # "idle" /\ worker[w].job \in Message
    BY <1>7, BusyWorker DEF CreateCitations, At
  <2>2. "succeed" \in Steps
    BY DEF Steps, TryBlock
  <2> QED
    BY <1>7, <2>1, <2>2, GoToType DEF CreateCitations, TypeOK
<1>8. CASE Succeed(w)
  <2>1. worker[w].job \in Message
    BY <1>8, BusyWorker DEF Succeed, At
  <2> QED
    BY <1>8, <2>1, SettleType, WorkerUpdate DEF Succeed, Release, TypeOK
<1>9. CASE Throw(w)
  <2>1. worker[w].at # "idle"
    BY <1>9 DEF Throw, TryBlock
  <2>2. "failRead" \in Steps
    BY DEF Steps
  <2> QED
    BY <1>9, <2>1, <2>2, GoToType DEF Throw, TypeOK
<1>10. CASE FailRead(w)
  <2>1. worker[w].job \in Message /\ attempts[worker[w].job] \in 0..MaxAttempts
    BY <1>10, BusyWorker DEF FailRead, At, TypeOK
  <2>2. worker' \in [Worker -> {Idle} \union Holding \union Failing]
    BY <1>10, <2>1, ReadType, WorkerUpdate DEF FailRead
  <2> QED
    BY <1>10, <2>2 DEF FailRead, TypeOK
<1>11. CASE FailWrite(w)
  <2>1. worker[w].job \in Message
    BY <1>11, BusyWorker DEF FailWrite, At
  <2> QED
    BY <1>11, <2>1, SettleType, WorkerUpdate DEF FailWrite, Release, TypeOK
<1> QED
  BY <1>1, <1>2, <1>3, <1>4, <1>5, <1>6, <1>7, <1>8, <1>9, <1>10, <1>11 DEF Turn

LEMMA ClaimType ==
    ASSUME TypeOK, NEW w \in Worker, NEW m \in Message, Claim(w, m) PROVE TypeOK'
<1>1. attempts[m] \in 0..MaxAttempts /\ attempts[m] < MaxAttempts
  BY DEF Claim, NextClaimable, Claimable, TypeOK
<1>2. attempts[m] + 1 \in 0..MaxAttempts
  BY <1>1, QueueAssumption
<1>3. Awaiting("findRun", m) \in Holding
  BY AwaitingType DEF Steps, TryBlock
<1>4. worker' \in [Worker -> {Idle} \union Holding \union Failing]
  BY <1>3, WorkerUpdate DEF Claim
<1> QED
  BY <1>2, <1>4 DEF Claim, TypeOK, runVars, conversationVars

-------------------------------------------------------------------------------
(* The inductive invariant. *)

\* A worker holds only jobs that have a row.
HeldJobExists ==
    \A w \in Worker : worker[w].at # "idle" => status[worker[w].job] # "absent"

\* A worker about to acknowledge, or to write citations, acts on a recorded run.
AcknowledgesRecorded ==
    \A w \in Worker :
        worker[w].at \in {"createCitations", "succeed"} => run[worker[w].job] # None

\* A worker that decided has an outcome, and inserts a failed one only after the
\* conversation is escalated.
DecidedThenEscalated ==
    \A w \in Worker :
        /\ worker[w].at \in {"escalate", "createRun"} => worker[w].outcome \in Outcome
        /\ worker[w].at = "createRun" /\ worker[w].outcome = "failed"
              => Conv[worker[w].job] \in escalated

\* A run exists only for a job that has a row.
RunHasRow == \A m \in Message : status[m] = "absent" => run[m] = None

IInv ==
    /\ TypeOK
    /\ HeldJobExists
    /\ AcknowledgesRecorded
    /\ DecidedThenEscalated
    /\ RunHasRow
    /\ SucceededHasRun
    /\ FailedRunIsEscalated

\* The parts of IInv beside typing, for reasoning about one step.
Knows == HeldJobExists /\ AcknowledgesRecorded /\ DecidedThenEscalated
Tables == RunHasRow /\ SucceededHasRun /\ FailedRunIsEscalated

\* What a step that only moves w to s must establish about w.
LEMMA GoToKnows ==
    ASSUME TypeOK, Knows, NEW w \in Worker, worker[w].at # "idle", NEW s \in Steps,
           GoTo(w, s), s \notin {"escalate", "createRun"},
           s \in {"createCitations", "succeed"} => run'[worker[w].job] # None,
           UNCHANGED <<status, escalated>>,
           \A m \in Message : run[m] # None => run'[m] = run[m]
    PROVE  Knows'
<1>1. /\ worker'[w] = Awaiting(s, worker[w].job)
      /\ \A v \in Worker \ {w} : worker'[v] = worker[v]
  BY DEF GoTo, TypeOK
<1>2. worker'[w].at = s /\ worker'[w].job = worker[w].job
  BY <1>1 DEF Awaiting
<1>3. \A v \in Worker : worker[v].at # "idle" => worker[v].job \in Message
  BY BusyWorker
<1>4. HeldJobExists'
  BY <1>1, <1>2 DEF Knows, HeldJobExists
<1>5. AcknowledgesRecorded'
  <2> SUFFICES ASSUME NEW v \in Worker, worker'[v].at \in {"createCitations", "succeed"}
               PROVE  run'[worker'[v].job] # None
    BY DEF AcknowledgesRecorded
  <2>1. CASE v = w
    BY <2>1, <1>2
  <2>2. CASE v # w
    BY <2>2, <1>1, <1>3 DEF Knows, AcknowledgesRecorded
  <2> QED
    BY <2>1, <2>2
<1>6. DecidedThenEscalated'
  BY <1>1, <1>2 DEF Knows, DecidedThenEscalated
<1> QED
  BY <1>4, <1>5, <1>6 DEF Knows

\* The same for a step that also takes a decision.
LEMMA DecideKnows ==
    ASSUME TypeOK, Knows, NEW w \in Worker, worker[w].at # "idle",
           NEW s \in {"escalate", "createRun"},
           NEW o \in Outcome, NEW c \in BOOLEAN, Decide(w, s, o, c),
           s = "createRun" /\ o = "failed" => Conv[worker[w].job] \in escalated',
           escalated \subseteq escalated', UNCHANGED <<status, run>>
    PROVE  Knows'
<1>1. \A v \in Worker \ {w} : worker'[v] = worker[v]
  BY DEF Decide, TypeOK
<1>2. worker'[w].at = s /\ worker'[w].job = worker[w].job /\ worker'[w].outcome = o
  BY DEF Decide, Awaiting, TypeOK
<1>3. HeldJobExists'
  BY <1>1, <1>2 DEF Knows, HeldJobExists
<1>4. AcknowledgesRecorded'
  BY <1>1, <1>2 DEF Knows, AcknowledgesRecorded
<1>5. DecidedThenEscalated'
  <2> SUFFICES ASSUME NEW v \in Worker
               PROVE  /\ worker'[v].at \in {"escalate", "createRun"}
                            => worker'[v].outcome \in Outcome
                      /\ worker'[v].at = "createRun" /\ worker'[v].outcome = "failed"
                            => Conv[worker'[v].job] \in escalated'
    BY DEF DecidedThenEscalated
  <2>1. CASE v = w
    BY <2>1, <1>2
  <2>2. CASE v # w
    BY <2>2, <1>1 DEF Knows, DecidedThenEscalated
  <2> QED
    BY <2>1, <2>2
<1> QED
  BY <1>3, <1>4, <1>5 DEF Knows

\* A worker that lets its job go knows nothing any more; the row it may settle
\* keeps existing.
LEMMA ReleaseKnows ==
    ASSUME TypeOK, Knows, NEW w \in Worker, Release(w), UNCHANGED <<run, escalated>>,
           \A m \in Message : status[m] # "absent" => status'[m] # "absent"
    PROVE  Knows'
<1>1. /\ worker'[w] = Idle
      /\ \A v \in Worker \ {w} : worker'[v] = worker[v]
  BY DEF Release, TypeOK
<1>2. worker'[w].at = "idle"
  BY <1>1 DEF Idle
<1>3. \A v \in Worker : worker[v].at # "idle" => worker[v].job \in Message
  BY BusyWorker
<1> QED
  BY <1>1, <1>2, <1>3 DEF Knows, HeldJobExists, AcknowledgesRecorded, DecidedThenEscalated

\* Settling a row touches that row only, and only while it is running.
LEMMA SettleRow ==
    ASSUME TypeOK, NEW m \in Message, NEW s \in {"queued", "succeeded", "failed"},
           Settle(m, s)
    PROVE  \A n \in Message :
               \/ status'[n] = status[n]
               \/ n = m /\ status[m] = "running" /\ status'[m] = s
BY DEF Settle, TypeOK

LEMMA TurnKnows ==
    ASSUME IInv, NEW w \in Worker, Turn(w)
    PROVE  Knows' /\ Tables'
<1> USE DEF jobVars, runVars, conversationVars
<1>0. TypeOK /\ Knows /\ Tables
  BY DEF IInv, Knows, Tables
<1>1. CASE FindRun(w)
  <2>1. worker[w].at # "idle"
    BY <1>1 DEF FindRun, At
  <2>2. PICK s \in Steps : /\ GoTo(w, s)
                           /\ s \notin {"escalate", "createRun"}
                           /\ s \in {"createCitations", "succeed"}
                                 => run[worker[w].job] # None
    BY <1>1 DEF FindRun, Steps, TryBlock
  <2>3. UNCHANGED <<status, run, escalated>>
    BY <1>1 DEF FindRun
  <2> QED
    BY <1>0, <2>1, <2>2, <2>3, GoToKnows
       DEF Tables, RunHasRow, SucceededHasRun, FailedRunIsEscalated
<1>2. CASE GetInput(w)
  <2>1. worker[w].at # "idle"
    BY <1>2 DEF GetInput, At
  <2>2. PICK s \in Steps : GoTo(w, s) /\ s \in {"getConversation", "failRead"}
    BY <1>2 DEF GetInput, Steps, TryBlock
  <2>3. UNCHANGED <<status, run, escalated>>
    BY <1>2 DEF GetInput
  <2> QED
    BY <1>0, <2>1, <2>2, <2>3, GoToKnows
       DEF Tables, RunHasRow, SucceededHasRun, FailedRunIsEscalated
<1>3. CASE GetConversation(w)
  <2>1. worker[w].at # "idle"
    BY <1>3 DEF GetConversation, At
  <2>2. UNCHANGED <<status, run, escalated>>
    BY <1>3 DEF GetConversation
  <2>3. "escalated" \in Outcome /\ FALSE \in BOOLEAN /\ "draft" \in Steps
    BY DEF Outcome, Steps, TryBlock
  <2>4. \/ \E s \in {"escalate", "createRun"} : Decide(w, s, "escalated", FALSE)
        \/ GoTo(w, "draft")
    BY <1>3 DEF GetConversation
  <2>5. Knows'
    BY <1>0, <2>1, <2>2, <2>3, <2>4, GoToKnows, DecideKnows
  <2> QED
    BY <1>0, <2>2, <2>5 DEF Tables, RunHasRow, SucceededHasRun, FailedRunIsEscalated
<1>4. CASE Draft(w)
  <2>1. worker[w].at # "idle"
    BY <1>4 DEF Draft, At
  <2>2. UNCHANGED <<status, run, escalated>>
    BY <1>4 DEF Draft
  <2>3. PICK o \in Outcome, c \in BOOLEAN, s \in {"escalate", "createRun"} :
            Decide(w, s, o, c) /\ (s = "createRun" => o # "failed")
    BY <1>4 DEF Draft
  <2>4. Knows'
    BY <1>0, <2>1, <2>2, <2>3, DecideKnows
  <2> QED
    BY <1>0, <2>2, <2>4 DEF Tables, RunHasRow, SucceededHasRun, FailedRunIsEscalated
<1>5. CASE Escalate(w)
  <2>1. worker[w].at # "idle"
    BY <1>5 DEF Escalate, At
  <2>2. UNCHANGED <<status, run>> /\ escalated' = escalated \union {Conv[worker[w].job]}
    BY <1>5 DEF Escalate
  <2>3. worker[w].outcome \in Outcome /\ worker[w].cites \in BOOLEAN
    BY <1>0, <1>5, <2>1, BusyWorker DEF Escalate, At, Knows, DecidedThenEscalated
  <2>4. Knows'
    BY <1>0, <1>5, <2>1, <2>2, <2>3, DecideKnows DEF Escalate
  <2> QED
    BY <1>0, <2>2, <2>4 DEF Tables, RunHasRow, SucceededHasRun, FailedRunIsEscalated
<1>6. CASE CreateRun(w)
  <2> DEFINE m == worker[w].job
  <2>1. worker[w].at = "createRun"
    BY <1>6 DEF CreateRun, At
  <2>2. m \in Message /\ status[m] # "absent"
    BY <1>0, <2>1, BusyWorker DEF Knows, HeldJobExists
  <2>3. /\ worker[w].outcome \in Outcome
        /\ worker[w].outcome = "failed" => Conv[m] \in escalated
    BY <1>0, <2>1 DEF Knows, DecidedThenEscalated
  <2>4. UNCHANGED <<status, escalated>>
    BY <1>6 DEF CreateRun
  <2>5. None \notin Outcome
    BY DEF None, Outcome
  <2>6. /\ \A n \in Message : \/ run'[n] = run[n]
                              \/ n = m /\ run[m] = None /\ run'[m] = worker[w].outcome
        /\ \A n \in Message : run[n] # None => run'[n] = run[n]
    BY <1>0, <1>6, <2>2 DEF CreateRun, TypeOK
  <2>7. PICK s \in Steps : /\ GoTo(w, s)
                           /\ s \notin {"escalate", "createRun"}
                           /\ s \in {"createCitations", "succeed"} => run'[m] # None
    BY <1>0, <1>6, <2>2, <2>3, <2>5 DEF CreateRun, Steps, TryBlock, TypeOK
  <2>8. Knows'
    BY <1>0, <2>1, <2>4, <2>6, <2>7, GoToKnows
  <2>9. RunHasRow'
    BY <1>0, <2>2, <2>4, <2>6 DEF Tables, RunHasRow
  <2>10. SucceededHasRun'
    BY <1>0, <2>4, <2>6 DEF Tables, SucceededHasRun
  <2>11. FailedRunIsEscalated'
    BY <1>0, <2>3, <2>4, <2>6 DEF Tables, FailedRunIsEscalated
  <2> QED
    BY <2>8, <2>9, <2>10, <2>11 DEF Tables
<1>7. CASE CreateCitations(w)
  <2>1. worker[w].at # "idle" /\ run[worker[w].job] # None
    BY <1>0, <1>7 DEF CreateCitations, At, Knows, AcknowledgesRecorded
  <2>2. UNCHANGED <<status, run, escalated>> /\ "succeed" \in Steps
    BY <1>7 DEF CreateCitations, Steps, TryBlock
  <2>3. Knows'
    BY <1>0, <1>7, <2>1, <2>2, GoToKnows DEF CreateCitations
  <2> QED
    BY <1>0, <2>2, <2>3 DEF Tables, RunHasRow, SucceededHasRun, FailedRunIsEscalated
<1>8. CASE Succeed(w)
  <2>1. worker[w].job \in Message /\ run[worker[w].job] # None
    BY <1>0, <1>8, BusyWorker DEF Succeed, At, Knows, AcknowledgesRecorded
  <2>2. UNCHANGED <<run, escalated>> /\ Release(w)
    BY <1>8 DEF Succeed
  <2>3. \A n \in Message : \/ status'[n] = status[n]
                           \/ /\ n = worker[w].job
                              /\ status[n] = "running"
                              /\ status'[n] = "succeeded"
    BY <1>0, <1>8, <2>1, SettleRow DEF Succeed
  <2>4. Knows'
    BY <1>0, <2>2, <2>3, ReleaseKnows
  <2> QED
    BY <1>0, <2>1, <2>2, <2>3, <2>4
       DEF Tables, RunHasRow, SucceededHasRun, FailedRunIsEscalated
<1>9. CASE Throw(w)
  <2>1. worker[w].at # "idle"
    BY <1>9 DEF Throw, TryBlock
  <2>2. UNCHANGED <<status, run, escalated>> /\ "failRead" \in Steps
    BY <1>9 DEF Throw, Steps
  <2>3. Knows'
    BY <1>0, <1>9, <2>1, <2>2, GoToKnows DEF Throw
  <2> QED
    BY <1>0, <2>2, <2>3 DEF Tables, RunHasRow, SucceededHasRun, FailedRunIsEscalated
<1>10. CASE FailRead(w)
  <2>1. worker[w].at # "idle"
    BY <1>10 DEF FailRead, At
  <2>2. UNCHANGED <<status, run, escalated>>
    BY <1>10 DEF FailRead
  <2>3. /\ worker'[w].at = "failWrite" /\ worker'[w].job = worker[w].job
        /\ \A v \in Worker \ {w} : worker'[v] = worker[v]
    BY <1>0, <1>10 DEF FailRead, Awaiting, TypeOK
  <2>4. Knows'
    BY <1>0, <2>1, <2>2, <2>3
       DEF Knows, HeldJobExists, AcknowledgesRecorded, DecidedThenEscalated
  <2> QED
    BY <1>0, <2>2, <2>4 DEF Tables, RunHasRow, SucceededHasRun, FailedRunIsEscalated
<1>11. CASE FailWrite(w)
  <2>1. worker[w].job \in Message
    BY <1>0, <1>11, BusyWorker DEF FailWrite, At
  <2>2. UNCHANGED <<run, escalated>> /\ Release(w)
    BY <1>11 DEF FailWrite
  <2>3. \A n \in Message : \/ status'[n] = status[n]
                           \/ status[n] = "running" /\ status'[n] \in {"failed", "queued"}
    BY <1>0, <1>11, <2>1, SettleRow DEF FailWrite
  <2>4. Knows'
    BY <1>0, <2>2, <2>3, ReleaseKnows
  <2> QED
    BY <1>0, <2>2, <2>3, <2>4 DEF Tables, RunHasRow, SucceededHasRun, FailedRunIsEscalated
<1> QED
  BY <1>1, <1>2, <1>3, <1>4, <1>5, <1>6, <1>7, <1>8, <1>9, <1>10, <1>11 DEF Turn

LEMMA ClaimKnows ==
    ASSUME IInv, NEW w \in Worker, NEW m \in Message, Claim(w, m)
    PROVE  Knows' /\ Tables'
<1> USE DEF jobVars, runVars, conversationVars
<1>0. TypeOK /\ Knows /\ Tables
  BY DEF IInv, Knows, Tables
<1>1. /\ worker' = [worker EXCEPT ![w] = Awaiting("findRun", m)]
      /\ status' = [status EXCEPT ![m] = "running"]
      /\ UNCHANGED <<run, escalated>>
  BY DEF Claim
<1>2. /\ worker'[w].at = "findRun" /\ worker'[w].job = m
      /\ \A v \in Worker \ {w} : worker'[v] = worker[v]
  BY <1>0, <1>1 DEF Awaiting, TypeOK
<1>3. /\ status'[m] = "running"
      /\ \A n \in Message \ {m} : status'[n] = status[n]
  BY <1>0, <1>1 DEF TypeOK
<1>4. \A v \in Worker : worker[v].at # "idle" => worker[v].job \in Message
  BY <1>0, BusyWorker
<1>5. status[m] \in {"queued", "running"}
  BY DEF Claim, NextClaimable, Claimable
<1>6. Knows'
  BY <1>0, <1>1, <1>2, <1>3, <1>4
     DEF Knows, HeldJobExists, AcknowledgesRecorded, DecidedThenEscalated
<1>7. Tables'
  BY <1>0, <1>1, <1>3, <1>5 DEF Tables, RunHasRow, SucceededHasRun, FailedRunIsEscalated
<1> QED
  BY <1>6, <1>7

LEMMA StepType == TypeOK /\ [Next]_vars => TypeOK'
<1> SUFFICES ASSUME TypeOK, [Next]_vars PROVE TypeOK'
  OBVIOUS
<1> USE DEF jobVars, runVars, conversationVars
<1>1. ASSUME NEW m \in Message, Enqueue(m) PROVE TypeOK'
  BY <1>1 DEF Enqueue, TypeOK
<1>2. ASSUME NEW m \in Message, LeaseExpires(m) PROVE TypeOK'
  BY <1>2 DEF LeaseExpires, TypeOK
<1>3. ASSUME NEW w \in Worker, WorkerStep(w) PROVE TypeOK'
  BY <1>3, TurnType, ClaimType DEF WorkerStep
<1>4. ASSUME NEW w \in Worker, Crash(w) PROVE TypeOK'
  <2>1. crashes + 1 \in 0..MaxCrashes
    BY <1>4, QueueAssumption DEF Crash, TypeOK
  <2> QED
    BY <1>4, <2>1, WorkerUpdate DEF Crash, Release, TypeOK
<1>5. ASSUME NEW c \in Conversation, Assign(c) PROVE TypeOK'
  BY <1>5 DEF Assign, TypeOK
<1>6. CASE UNCHANGED vars
  BY <1>6 DEF vars, TypeOK
<1> QED
  BY <1>1, <1>2, <1>3, <1>4, <1>5, <1>6 DEF Next

LEMMA IInvInit == Init => IInv
BY QueueAssumption DEF Init, IInv, TypeOK, HeldJobExists, AcknowledgesRecorded,
   DecidedThenEscalated, RunHasRow, SucceededHasRun, FailedRunIsEscalated, Idle, None

LEMMA IInvStep == IInv /\ [Next]_vars => IInv'
<1> SUFFICES ASSUME IInv, [Next]_vars PROVE Knows' /\ Tables'
  BY StepType DEF IInv, Knows, Tables
<1> USE DEF jobVars, runVars, conversationVars
<1>0. TypeOK /\ Knows /\ Tables
  BY DEF IInv, Knows, Tables
<1>1. ASSUME NEW m \in Message, Enqueue(m) PROVE Knows' /\ Tables'
  <2>1. /\ status'[m] = "queued"
        /\ \A n \in Message \ {m} : status'[n] = status[n]
        /\ UNCHANGED <<run, escalated, worker>>
    BY <1>0, <1>1 DEF Enqueue, TypeOK
  <2>2. \A v \in Worker : worker[v].at # "idle" => worker[v].job \in Message
    BY <1>0, BusyWorker
  <2>3. Knows'
    BY <1>0, <2>1, <2>2 DEF Knows, HeldJobExists, AcknowledgesRecorded, DecidedThenEscalated
  <2>4. Tables'
    BY <1>0, <2>1 DEF Tables, RunHasRow, SucceededHasRun, FailedRunIsEscalated
  <2> QED
    BY <2>3, <2>4
<1>2. ASSUME NEW m \in Message, LeaseExpires(m) PROVE Knows' /\ Tables'
  BY <1>0, <1>2 DEF LeaseExpires, Knows, HeldJobExists, AcknowledgesRecorded,
     DecidedThenEscalated, Tables, RunHasRow, SucceededHasRun, FailedRunIsEscalated
<1>3. ASSUME NEW w \in Worker, WorkerStep(w) PROVE Knows' /\ Tables'
  BY <1>3, TurnKnows, ClaimKnows DEF WorkerStep
<1>4. ASSUME NEW w \in Worker, Crash(w) PROVE Knows' /\ Tables'
  <2>1. Release(w) /\ UNCHANGED <<status, run, escalated>>
    BY <1>4 DEF Crash
  <2>2. Knows'
    BY <1>0, <2>1, ReleaseKnows
  <2> QED
    BY <1>0, <2>1, <2>2 DEF Tables, RunHasRow, SucceededHasRun, FailedRunIsEscalated
<1>5. ASSUME NEW c \in Conversation, Assign(c) PROVE Knows' /\ Tables'
  BY <1>0, <1>5 DEF Assign, Knows, HeldJobExists, AcknowledgesRecorded,
     DecidedThenEscalated, Tables, RunHasRow, SucceededHasRun, FailedRunIsEscalated
<1>6. CASE UNCHANGED vars
  BY <1>0, <1>6 DEF vars, Knows, HeldJobExists, AcknowledgesRecorded,
     DecidedThenEscalated, Tables, RunHasRow, SucceededHasRun, FailedRunIsEscalated
<1> QED
  BY <1>1, <1>2, <1>3, <1>4, <1>5, <1>6 DEF Next

LEMMA Invariant == Spec => []IInv
BY IInvInit, IInvStep, PTL DEF Spec

\* Every variable of the queue keeps to its declared range, for any number of
\* messages and workers and any attempt limit; in particular no interleaving of
\* claims takes a job past max_attempts (claimAiTurnJob).
THEOREM TypeCorrect == Spec => []TypeOK
<1>1. IInv => TypeOK
  BY DEF IInv
<1> QED
  BY Invariant, <1>1, PTL

\* A succeeded job has its run on record, however many workers, crashes and
\* takeovers the job went through (succeed, findRun, createRun).
THEOREM SuccessIsRecorded == Spec => []SucceededHasRun
<1>1. IInv => SucceededHasRun
  BY DEF IInv
<1> QED
  BY Invariant, <1>1, PTL

\* A run recorded as failed belongs to a conversation that is escalated to a
\* person (runTurn escalates before it records).
THEOREM FailureIsEscalated == Spec => []FailedRunIsEscalated
<1>1. IInv => FailedRunIsEscalated
  BY DEF IInv
<1> QED
  BY Invariant, <1>1, PTL

-------------------------------------------------------------------------------
(* Once a run is recorded, nobody enters a turn for its message. *)

LEMMA TurnEntersUnrecorded ==
    ASSUME TypeOK, NEW w \in Worker, Turn(w), NEW m \in Message, run[m] # None,
           NEW v \in Worker, v \in Drafting(m)'
    PROVE  v \in Drafting(m)
<1>1. worker' = [worker EXCEPT ![w] = worker'[w]]
  BY DEF Turn, FindRun, GetInput, GetConversation, Draft, Escalate, CreateRun,
     CreateCitations, Succeed, Throw, FailRead, FailWrite, GoTo, Decide, Release, TypeOK
<1>2. CASE v # w
  <2>1. worker'[v] = worker[v]
    BY <1>1, <1>2 DEF TypeOK
  <2> QED
    BY <2>1 DEF Drafting
<1>3. CASE v = w
  <2> DEFINE inTurn == {"getInput", "getConversation", "draft"}
  <2>1. worker'[w].at \in inTurn /\ worker'[w].job = m
    BY <1>3 DEF Drafting
  <2>2. worker'[w].job = worker[w].job /\ worker[w].at \in {"getInput", "getConversation"}
    <3>1. CASE FindRun(w)
      <4>1. worker'[w].job = worker[w].job /\ worker'[w].at =
               (IF run[worker[w].job] # None THEN "succeed" ELSE "getInput")
        BY <3>1 DEF FindRun, GoTo, Awaiting, TypeOK
      <4> QED
        BY <2>1, <4>1
    <3>2. CASE GetInput(w)
      BY <3>2 DEF GetInput, At, GoTo, Awaiting, TypeOK
    <3>3. CASE GetConversation(w)
      <4>1. worker[w].at = "getConversation"
        BY <3>3 DEF GetConversation, At
      <4>2. \/ GoTo(w, "draft")
            \/ \E s \in {"createRun", "escalate"} : Decide(w, s, "escalated", FALSE)
        BY <3>3 DEF GetConversation
      <4>3. ~ \E s \in {"createRun", "escalate"} : Decide(w, s, "escalated", FALSE)
        BY <2>1 DEF Decide, Awaiting, TypeOK
      <4>4. GoTo(w, "draft")
        BY <4>2, <4>3
      <4> QED
        BY <4>1, <4>4 DEF GoTo, Awaiting, TypeOK
    <3>4. CASE Draft(w)
      <4>1. PICK o \in Outcome, c \in BOOLEAN, s \in {"createRun", "escalate"} :
                Decide(w, s, o, c)
        BY <3>4 DEF Draft
      <4> QED
        BY <2>1, <4>1 DEF Decide, Awaiting, TypeOK
    <3>5. CASE Escalate(w)
      BY <2>1, <3>5 DEF Escalate, Decide, Awaiting, TypeOK
    <3>6. CASE CreateRun(w)
      BY <2>1, <3>6 DEF CreateRun, GoTo, Awaiting, TypeOK
    <3>7. CASE CreateCitations(w)
      BY <2>1, <3>7 DEF CreateCitations, GoTo, Awaiting, TypeOK
    <3>8. CASE Succeed(w)
      BY <2>1, <3>8 DEF Succeed, Release, Idle, TypeOK
    <3>9. CASE Throw(w)
      BY <2>1, <3>9 DEF Throw, GoTo, Awaiting, TypeOK
    <3>10. CASE FailRead(w)
      BY <2>1, <3>10 DEF FailRead, Awaiting, TypeOK
    <3>11. CASE FailWrite(w)
      BY <2>1, <3>11 DEF FailWrite, Release, Idle, TypeOK
    <3> QED
      BY <3>1, <3>2, <3>3, <3>4, <3>5, <3>6, <3>7, <3>8, <3>9, <3>10, <3>11 DEF Turn
  <2> QED
    BY <1>3, <2>1, <2>2 DEF Drafting, Idle
<1> QED
  BY <1>2, <1>3

\* Recovery links a recorded run and never asks the provider again
\* (processNextAiTurn, findRun): a worker inside a turn for a recorded message
\* entered it before the run was recorded.
THEOREM RecoveryIsIdempotent == Spec => RecoveryNeverRedrafts
<1>1. TypeOK /\ [Next]_vars =>
        [\A m \in Message : run[m] # None => Drafting(m)' \subseteq Drafting(m)]_vars
  <2> SUFFICES ASSUME TypeOK, [Next]_vars, NEW m \in Message, run[m] # None,
                      NEW v \in Worker, v \in Drafting(m)'
               PROVE  v \in Drafting(m)
    BY DEF Drafting
  <2>1. ASSUME NEW w \in Worker, Turn(w) PROVE v \in Drafting(m)
    BY <2>1, TurnEntersUnrecorded
  <2>2. ASSUME NEW w \in Worker, NEW n \in Message, Claim(w, n) PROVE v \in Drafting(m)
    <3>1. worker'[w].at = "findRun"
      BY <2>2 DEF Claim, Awaiting, TypeOK
    <3>2. v # w
      BY <3>1 DEF Drafting
    <3>3. worker'[v] = worker[v]
      BY <2>2, <3>2 DEF Claim, TypeOK
    <3> QED
      BY <3>3 DEF Drafting
  <2>3. ASSUME NEW w \in Worker, Crash(w) PROVE v \in Drafting(m)
    <3>1. worker'[w].at = "idle"
      BY <2>3 DEF Crash, Release, Idle, TypeOK
    <3>2. v # w
      BY <3>1 DEF Drafting
    <3>3. worker'[v] = worker[v]
      BY <2>3, <3>2 DEF Crash, Release, TypeOK
    <3> QED
      BY <3>3 DEF Drafting
  <2>4. CASE UNCHANGED worker
    BY <2>4 DEF Drafting
  <2>5. ASSUME NEW n \in Message, Enqueue(n) \/ LeaseExpires(n) PROVE UNCHANGED worker
    BY <2>5 DEF Enqueue, LeaseExpires
  <2>6. ASSUME NEW c \in Conversation, Assign(c) PROVE UNCHANGED worker
    BY <2>6 DEF Assign
  <2> QED
    BY <2>1, <2>2, <2>3, <2>4, <2>5, <2>6 DEF Next, WorkerStep, vars
<1> QED
  BY <1>1, TypeCorrect, PTL DEF Spec, RecoveryNeverRedrafts

-------------------------------------------------------------------------------
(* AiTurnQueue implements TurnLedger. *)

LEMMA LedgerStutter ==
    ASSUME UNCHANGED <<status, run>>
    PROVE  UNCHANGED Ledger!ledgerVars
BY DEF LedgerTurn, Ledger!ledgerVars

\* A row that changes only between queued and running stays an open turn.
LEMMA LedgerOpen ==
    ASSUME UNCHANGED run,
           \A n \in Message : \/ status'[n] = status[n]
                              \/ {status[n], status'[n]} \subseteq {"queued", "running"}
    PROVE  UNCHANGED Ledger!ledgerVars
BY DEF LedgerTurn, Ledger!ledgerVars

\* What one row's change means for the ledger.
LEMMA LedgerChange ==
    ASSUME NEW m \in Message, NEW s,
           s = (IF status'[m] \in {"queued", "running"} THEN "open" ELSE status'[m]),
           \A n \in Message \ {m} : status'[n] = status[n]
    PROVE  LedgerTurn' = [LedgerTurn EXCEPT ![m] = s]
BY DEF LedgerTurn

LEMMA TurnLedgerStep ==
    ASSUME IInv, NEW w \in Worker, Turn(w)
    PROVE  [Ledger!Next]_(Ledger!ledgerVars)
<1> USE DEF jobVars, runVars, conversationVars
<1>0. TypeOK /\ Knows /\ Tables
  BY DEF IInv, Knows, Tables
<1>1. CASE UNCHANGED <<status, run>>
  BY <1>1, LedgerStutter
<1>2. CASE CreateRun(w) /\ run' # run
  <2> DEFINE m == worker[w].job
  <2>1. m \in Message /\ worker[w].outcome \in Outcome /\ status[m] # "absent"
    BY <1>0, <1>2, BusyWorker DEF CreateRun, At, Knows, DecidedThenEscalated, HeldJobExists
  <2>2. /\ run[m] = None
        /\ run' = [run EXCEPT ![m] = worker[w].outcome]
        /\ UNCHANGED status
    BY <1>2 DEF CreateRun
  <2>3. status[m] \in {"queued", "running", "failed"}
    BY <1>0, <2>1, <2>2 DEF Tables, SucceededHasRun, TypeOK
  <2>4. LedgerTurn[m] \in {"open", "failed"} /\ UNCHANGED LedgerTurn
    BY <2>1, <2>2, <2>3 DEF LedgerTurn
  <2>5. Ledger!Record(m, worker[w].outcome)
    BY <2>2, <2>4 DEF Ledger!Record, Ledger!None, None
  <2> QED
    BY <2>1, <2>5 DEF Ledger!Next
<1>3. CASE Succeed(w) \/ FailWrite(w)
  <2> DEFINE m == worker[w].job
  <2>1. m \in Message /\ UNCHANGED run
    BY <1>0, <1>3, BusyWorker DEF Succeed, FailWrite, At
  <2>2. CASE status' = status
    BY <2>1, <2>2, LedgerStutter
  <2>3. CASE Succeed(w) /\ status' # status
    <3>1. run[m] # None
      BY <1>0, <2>3 DEF Succeed, At, Knows, AcknowledgesRecorded
    <3>2. status[m] = "running" /\ status' = [status EXCEPT ![m] = "succeeded"]
      BY <2>3 DEF Succeed, Settle
    <3>3. LedgerTurn[m] = "open" /\ LedgerTurn' = [LedgerTurn EXCEPT ![m] = "succeeded"]
      BY <1>0, <2>1, <3>2, LedgerChange DEF LedgerTurn, TypeOK
    <3>4. Ledger!Succeed(m)
      BY <2>1, <3>1, <3>3 DEF Ledger!Succeed, Ledger!None, None
    <3> QED
      BY <2>1, <3>4 DEF Ledger!Next
  <2>4. CASE FailWrite(w) /\ status' # status
    <3> DEFINE s == IF worker[w].read >= MaxAttempts THEN "failed" ELSE "queued"
    <3>1. status[m] = "running" /\ status' = [status EXCEPT ![m] = s]
      BY <2>4 DEF FailWrite, Settle
    <3>2. CASE s = "queued"
      BY <1>0, <2>1, <3>1, <3>2, LedgerOpen DEF TypeOK
    <3>3. CASE s = "failed"
      <4>1. LedgerTurn[m] = "open" /\ LedgerTurn' = [LedgerTurn EXCEPT ![m] = "failed"]
        BY <1>0, <2>1, <3>1, <3>3, LedgerChange DEF LedgerTurn, TypeOK
      <4>2. Ledger!Fail(m)
        BY <2>1, <4>1 DEF Ledger!Fail
      <4> QED
        BY <2>1, <4>2 DEF Ledger!Next
    <3> QED
      BY <3>2, <3>3
  <2> QED
    BY <1>3, <2>2, <2>3, <2>4
<1> QED
  BY <1>1, <1>2, <1>3 DEF Turn, FindRun, GetInput, GetConversation, Draft, Escalate,
     CreateRun, CreateCitations, Throw, FailRead

\* The queue with its workers, leases, retries and crashes implements the plain
\* ledger of turns: each step opens, records, succeeds or fails one turn, or
\* leaves the ledger alone.
THEOREM QueueImplementsLedger == Spec => LedgerSpec
<1>1. Init => Ledger!Init
  BY DEF Init, Ledger!Init, LedgerTurn, Ledger!None, None
<1>2. IInv /\ [Next]_vars => [Ledger!Next]_(Ledger!ledgerVars)
  <2> SUFFICES ASSUME IInv, [Next]_vars PROVE [Ledger!Next]_(Ledger!ledgerVars)
    OBVIOUS
  <2> USE DEF jobVars, runVars, conversationVars
  <2>0. TypeOK
    BY DEF IInv
  <2>1. ASSUME NEW m \in Message, Enqueue(m) PROVE Ledger!Next
    <3>1. status[m] = "absent" /\ status' = [status EXCEPT ![m] = "queued"] /\ UNCHANGED run
      BY <2>1 DEF Enqueue
    <3>2. LedgerTurn[m] = "absent" /\ LedgerTurn' = [LedgerTurn EXCEPT ![m] = "open"]
      BY <2>0, <2>1, <3>1, LedgerChange DEF LedgerTurn, TypeOK
    <3>3. Ledger!Open(m)
      BY <3>1, <3>2 DEF Ledger!Open
    <3> QED
      BY <2>1, <3>3 DEF Ledger!Next
  <2>2. ASSUME NEW w \in Worker, NEW m \in Message, Claim(w, m)
        PROVE  UNCHANGED Ledger!ledgerVars
    <3>1. status[m] \in {"queued", "running"}
      BY <2>2 DEF Claim, NextClaimable, Claimable
    <3> QED
      BY <2>0, <2>2, <3>1, LedgerOpen DEF Claim, TypeOK
  <2>3. ASSUME NEW w \in Worker, Turn(w) PROVE [Ledger!Next]_(Ledger!ledgerVars)
    BY <2>3, TurnLedgerStep
  <2>4. ASSUME NEW m \in Message, LeaseExpires(m) PROVE UNCHANGED Ledger!ledgerVars
    BY <2>4, LedgerStutter DEF LeaseExpires
  <2>5. ASSUME NEW w \in Worker, Crash(w) PROVE UNCHANGED Ledger!ledgerVars
    BY <2>5, LedgerStutter DEF Crash
  <2>6. ASSUME NEW c \in Conversation, Assign(c) PROVE UNCHANGED Ledger!ledgerVars
    BY <2>6, LedgerStutter DEF Assign
  <2>7. CASE UNCHANGED vars
    BY <2>7, LedgerStutter DEF vars
  <2> QED
    BY <2>1, <2>2, <2>3, <2>4, <2>5, <2>6, <2>7 DEF Next, WorkerStep
<1> QED
  BY <1>1, <1>2, Invariant, PTL DEF Spec, LedgerSpec, Ledger!Spec

-------------------------------------------------------------------------------
(* Each claim pays for at most one turn. *)

Early == {"findRun", "getInput", "getConversation", "draft"}

\* The workers that have claimed m and may still ask the provider for it.
Pending(m) == {w \in Worker : worker[w].at \in Early /\ worker[w].job = m}

Paid ==
    \A m \in Message :
        IsFiniteSet(Pending(m)) /\ calls[m] + Cardinality(Pending(m)) <= attempts[m]

\* What one step may do to the claims and turns of m: nobody new is pending, a claim
\* adds one worker, or one of them asks the provider and is pending no longer.
Spends(m) ==
    \/ /\ Pending(m)' \subseteq Pending(m)
       /\ calls'[m] = calls[m] /\ attempts'[m] = attempts[m]
    \/ \E w \in Worker : /\ Pending(m)' \subseteq Pending(m) \union {w}
                         /\ calls'[m] = calls[m] /\ attempts'[m] = attempts[m] + 1
    \/ \E w \in Pending(m) : /\ Pending(m)' \subseteq Pending(m) \ {w}
                             /\ calls'[m] = calls[m] + 1 /\ attempts'[m] = attempts[m]

\* A worker that moves becomes pending for no job.
LEMMA MovesOn ==
    ASSUME TypeOK, NEW w \in Worker, NEW r, worker' = [worker EXCEPT ![w] = r],
           r.at \in Early => worker[w].at \in Early /\ r.job = worker[w].job,
           UNCHANGED <<calls, attempts>>
    PROVE  \A m \in Message : Spends(m)
<1> SUFFICES ASSUME NEW m \in Message PROVE Pending(m)' \subseteq Pending(m)
  BY DEF Spends
<1>1. worker'[w] = r /\ \A v \in Worker : v # w => worker'[v] = worker[v]
  BY DEF TypeOK
<1> QED
  BY <1>1 DEF Pending

LEMMA AwaitingIs ==
    ASSUME NEW s, NEW m
    PROVE  /\ Awaiting(s, m).at = s /\ Awaiting(s, m).job = m
           /\ \A o, c : LET r == [Awaiting(s, m) EXCEPT !.outcome = o, !.cites = c]
                        IN  r.at = s /\ r.job = m
           /\ \A n : LET r == [Awaiting(s, m) EXCEPT !.read = n] IN r.at = s /\ r.job = m
  BY DEF Awaiting

LEMMA GoesOn ==
    ASSUME TypeOK, NEW w \in Worker, NEW s, GoTo(w, s), UNCHANGED <<calls, attempts>>,
           s \in Early => worker[w].at \in Early
    PROVE  \A m \in Message : Spends(m)
<1> DEFINE r == Awaiting(s, worker[w].job)
<1>1. worker' = [worker EXCEPT ![w] = r] /\ r.at = s /\ r.job = worker[w].job
  BY AwaitingIs DEF GoTo
<1> HIDE DEF r
<1> QED
  BY <1>1, MovesOn

LEMMA DecidesOn ==
    ASSUME TypeOK, NEW w \in Worker, NEW s, NEW o, NEW c, Decide(w, s, o, c),
           UNCHANGED <<calls, attempts>>, s \notin Early
    PROVE  \A m \in Message : Spends(m)
<1> DEFINE r == [Awaiting(s, worker[w].job) EXCEPT !.outcome = o, !.cites = c]
<1>1. worker' = [worker EXCEPT ![w] = r] /\ r.at = s
  BY AwaitingIs DEF Decide
<1> HIDE DEF r
<1> QED
  BY <1>1, MovesOn

LEMMA TurnSpends ==
    ASSUME TypeOK, NEW w \in Worker, Turn(w)
    PROVE  \A m \in Message : Spends(m)
<1> USE DEF jobVars, runVars, conversationVars
<1>1. CASE FindRun(w)
  BY <1>1, GoesOn DEF FindRun, At, Early
<1>2. CASE GetInput(w)
  BY <1>2, GoesOn DEF GetInput, At, Early
<1>3. CASE GetConversation(w)
  <2>1. worker[w].at = "getConversation" /\ UNCHANGED <<calls, attempts>>
    BY <1>3 DEF GetConversation, At
  <2>2. \/ \E s \in {"createRun", "escalate"} : Decide(w, s, "escalated", FALSE)
        \/ GoTo(w, "draft")
    BY <1>3 DEF GetConversation
  <2> QED
    BY <2>1, <2>2, GoesOn, DecidesOn DEF Early
<1>4. CASE Draft(w)
  <2>1. PICK o \in Outcome, c \in BOOLEAN :
           Decide(w, IF o \in {"failed", "escalated"} THEN "escalate" ELSE "createRun", o, c)
    BY <1>4 DEF Draft
  <2> DEFINE s == IF o \in {"failed", "escalated"} THEN "escalate" ELSE "createRun"
             r == [Awaiting(s, worker[w].job) EXCEPT !.outcome = o, !.cites = c]
             j == worker[w].job
  <2>2. worker' = [worker EXCEPT ![w] = r] /\ r.at = s /\ s \notin Early
    BY <2>1, AwaitingIs DEF Decide, Early
  <2>3. /\ j \in Message /\ worker[w].at = "draft" /\ UNCHANGED attempts
        /\ calls' = [calls EXCEPT ![j] = @ + 1]
    BY <1>4, BusyWorker DEF Draft, At
  <2> HIDE DEF s, r
  <2>4. worker'[w] = r /\ \A v \in Worker : v # w => worker'[v] = worker[v]
    BY <2>2 DEF TypeOK
  <2>5. \A m \in Message : Pending(m)' \subseteq Pending(m) \ {w}
    BY <2>2, <2>4 DEF Pending
  <2>6. /\ w \in Pending(j) /\ calls'[j] = calls[j] + 1
        /\ \A m \in Message : m # j => calls'[m] = calls[m]
    BY <2>3 DEF Pending, Early, TypeOK
  <2> QED
    BY <2>3, <2>5, <2>6 DEF Spends
<1>5. CASE Escalate(w)
  <2>1. Decide(w, "createRun", worker[w].outcome, worker[w].cites) /\ UNCHANGED <<calls, attempts>>
    BY <1>5 DEF Escalate
  <2> QED
    BY <2>1, DecidesOn DEF Early
<1>6. CASE CreateRun(w)
  <2>1. \E s \in {"createCitations", "succeed", "failRead"} : GoTo(w, s)
    BY <1>6 DEF CreateRun
  <2> QED
    BY <1>6, <2>1, GoesOn DEF CreateRun, Early
<1>7. CASE CreateCitations(w)
  BY <1>7, GoesOn DEF CreateCitations, Early
<1>8. CASE Throw(w)
  BY <1>8, GoesOn DEF Throw, Early
<1>9. CASE FailRead(w)
  <2> DEFINE r == [Awaiting("failWrite", worker[w].job) EXCEPT !.read = attempts[worker[w].job]]
  <2>1. worker' = [worker EXCEPT ![w] = r] /\ r.at = "failWrite" /\ UNCHANGED <<calls, attempts>>
    BY <1>9, AwaitingIs DEF FailRead
  <2> HIDE DEF r
  <2> QED
    BY <2>1, MovesOn DEF Early
<1>10. CASE Succeed(w) \/ FailWrite(w)
  <2>1. worker' = [worker EXCEPT ![w] = Idle] /\ UNCHANGED <<calls, attempts>> /\ Idle.at = "idle"
    BY <1>10 DEF Succeed, FailWrite, Release, Idle
  <2> QED
    BY <2>1, MovesOn DEF Early
<1> QED
  BY <1>1, <1>2, <1>3, <1>4, <1>5, <1>6, <1>7, <1>8, <1>9, <1>10 DEF Turn

LEMMA StepSpends ==
    ASSUME TypeOK, [Next]_vars
    PROVE  \A m \in Message : Spends(m)
<1> USE DEF jobVars, runVars, conversationVars
<1>1. ASSUME NEW w \in Worker, NEW n \in Message, Claim(w, n) PROVE \A m \in Message : Spends(m)
  <2> DEFINE r == Awaiting("findRun", n)
  <2>1. /\ worker' = [worker EXCEPT ![w] = r] /\ r.job = n /\ UNCHANGED calls
        /\ attempts' = [attempts EXCEPT ![n] = @ + 1]
    BY <1>1, AwaitingIs DEF Claim
  <2> HIDE DEF r
  <2>2. worker'[w] = r /\ \A v \in Worker : v # w => worker'[v] = worker[v]
    BY <2>1 DEF TypeOK
  <2>3. /\ Pending(n)' \subseteq Pending(n) \union {w}
        /\ \A m \in Message : m # n => Pending(m)' \subseteq Pending(m)
    BY <2>1, <2>2 DEF Pending
  <2>4. attempts'[n] = attempts[n] + 1 /\ \A m \in Message : m # n => attempts'[m] = attempts[m]
    BY <2>1 DEF TypeOK
  <2> QED
    BY <2>1, <2>3, <2>4 DEF Spends
<1>2. ASSUME NEW w \in Worker, Crash(w) PROVE \A m \in Message : Spends(m)
  <2>1. worker' = [worker EXCEPT ![w] = Idle] /\ UNCHANGED <<calls, attempts>> /\ Idle.at = "idle"
    BY <1>2 DEF Crash, Release, Idle
  <2> QED
    BY <2>1, MovesOn DEF Early
<1>3. ASSUME UNCHANGED <<worker, calls, attempts>> PROVE \A m \in Message : Spends(m)
  BY <1>3 DEF Spends, Pending
<1> QED
  BY <1>1, <1>2, <1>3, TurnSpends DEF Next, Enqueue, LeaseExpires, Assign, WorkerStep, vars

LEMMA PaidStep ==
    ASSUME TypeOK, Paid, [Next]_vars
    PROVE  Paid'
<1> SUFFICES ASSUME NEW m \in Message
             PROVE  IsFiniteSet(Pending(m)') /\ calls'[m] + Cardinality(Pending(m)') <= attempts'[m]
  BY DEF Paid, Pending
<1> DEFINE P == Pending(m)
           Q == Pending(m)'
<1>1. /\ IsFiniteSet(P) /\ Cardinality(P) \in Nat /\ calls[m] + Cardinality(P) <= attempts[m]
      /\ calls[m] \in Nat /\ attempts[m] \in Nat
  BY FS_CardinalityType DEF Paid, TypeOK
<1>2. Spends(m)
  BY StepSpends
<1>3. CASE Q \subseteq P /\ calls'[m] = calls[m] /\ attempts'[m] = attempts[m]
  <2>1. IsFiniteSet(Q) /\ Cardinality(Q) \in Nat /\ Cardinality(Q) <= Cardinality(P)
    BY <1>1, <1>3, FS_Subset, FS_CardinalityType
  <2> QED
    BY <1>1, <1>3, <2>1
<1>4. CASE \E w \in Worker : /\ Q \subseteq P \union {w}
                             /\ calls'[m] = calls[m] /\ attempts'[m] = attempts[m] + 1
  <2>1. PICK w \in Worker : Q \subseteq P \union {w}
    BY <1>4
  <2> DEFINE R == P \union {w}
  <2>2. IsFiniteSet(R) /\ (Cardinality(R) = Cardinality(P) \/ Cardinality(R) = Cardinality(P) + 1)
    BY <1>1, FS_AddElement
  <2>3. IsFiniteSet(Q) /\ Cardinality(Q) \in Nat /\ Cardinality(Q) <= Cardinality(R)
    BY <2>1, <2>2, FS_Subset, FS_CardinalityType
  <2> QED
    BY <1>1, <1>4, <2>2, <2>3
<1>5. CASE \E w \in P : /\ Q \subseteq P \ {w}
                        /\ calls'[m] = calls[m] + 1 /\ attempts'[m] = attempts[m]
  <2>1. PICK w \in P : Q \subseteq P \ {w}
    BY <1>5
  <2> DEFINE R == P \ {w}
  <2>2. IsFiniteSet(R) /\ Cardinality(R) = Cardinality(P) - 1
    BY <1>1, FS_RemoveElement
  <2>3. IsFiniteSet(Q) /\ Cardinality(Q) \in Nat /\ Cardinality(Q) <= Cardinality(R)
    BY <2>1, <2>2, FS_Subset, FS_CardinalityType
  <2> QED
    BY <1>1, <1>5, <2>2, <2>3
<1> QED
  BY <1>2, <1>3, <1>4, <1>5 DEF Spends

\* The provider is asked at most once per claim, across crashes, takeovers and duplicate
\* workers: with attempts bounded, a message never costs more than max_attempts turns
\* (claimAiTurnJob, runTurn).
THEOREM TurnsArePaid == Spec => []TurnsWithinAttempts
<1>1. Init => Paid
  <2> SUFFICES ASSUME Init, NEW m \in Message
               PROVE  IsFiniteSet(Pending(m)) /\ calls[m] + Cardinality(Pending(m)) <= attempts[m]
    BY DEF Paid
  <2>1. Pending(m) = {} /\ calls[m] = 0 /\ attempts[m] = 0
    BY DEF Init, Pending, Idle, Early
  <2> QED
    BY <2>1, FS_EmptySet
<1>2. IInv /\ Paid /\ [Next]_vars => Paid'
  BY PaidStep DEF IInv
<1>3. IInv /\ Paid => TurnsWithinAttempts
  <2> SUFFICES ASSUME IInv, Paid, NEW m \in Message PROVE calls[m] <= attempts[m]
    BY DEF TurnsWithinAttempts
  <2>1. /\ Cardinality(Pending(m)) \in Nat /\ calls[m] + Cardinality(Pending(m)) <= attempts[m]
        /\ calls[m] \in Nat /\ attempts[m] \in Nat
    BY FS_CardinalityType DEF Paid, IInv, TypeOK
  <2> QED
    BY <2>1
<1> QED
  BY Invariant, IInvStep, <1>1, <1>2, <1>3, PTL DEF Spec
================================================================================
