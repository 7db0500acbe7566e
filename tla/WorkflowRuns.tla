------------------------------ MODULE WorkflowRuns ------------------------------
(***************************************************************************)
(* One workflow of the builder: its versions, the runs started against the *)
(* current version, and the workers that resume runs after a delay.  One   *)
(* action per awaited call.  A delay is over at any time after its step    *)
(* was scheduled; a version's graph never changes once it is saved.        *)
(***************************************************************************)
EXTENDS Naturals, Sequences, FiniteSets

CONSTANTS Node,
          None,          \* no node
          Draft,         \* graphs that clients submit
          Context,       \* what the conditions say: the variables of a run
          Run, Request, Worker,
          MaxVersions,   \* bound: versions of the workflow
          MaxSteps,      \* bound: step rows of a run, for graphs that loop
          MaxCrashes     \* bound: rejected awaits and stops of the process

ASSUME WorkflowAssumption ==
    /\ None \notin Node /\ IsFiniteSet(Node)
    /\ Draft \subseteq [kind : [Node -> {"trigger", "condition", "action", "delay", "absent"}],
                        to : [Node -> [BOOLEAN -> Node \union {None}]]]
    /\ Context \subseteq [Node -> BOOLEAN]
    /\ MaxVersions \in Nat /\ MaxSteps \in Nat /\ MaxCrashes \in Nat

VARIABLES graph,     \* graph[v]: the definition of version v, in insertion order
          current,   \* the workflow's current version, 0 at first
          run,       \* run[r]: status, version, context and step rows
          req,       \* req[p]: what request p is about to do and remembers
          worker,    \* worker[w]: what worker w is about to do and remembers
          crashes

vars == <<graph, current, run, req, worker, crashes>>

Rest == [at |-> "rest"]

TypeOK ==
    /\ graph \in Seq(Draft)
    /\ current \in 0..Len(graph)
    /\ \A r \in Run :
          /\ run[r].status \in {"none", "running", "succeeded", "failed"}
          /\ run[r].status # "none" => run[r].version \in 1..Len(graph)
          /\ run[r].steps \in Seq([node : Node, status : {"pending", "running", "succeeded", "failed"}])
    /\ \A p \in Request : req[p] = Rest \/ "run" \in DOMAIN req[p] \/ "version" \in DOMAIN req[p]
    /\ \A w \in Worker : worker[w] = Rest \/ worker[w].run \in Run
    /\ crashes \in 0..MaxCrashes

Init ==
    /\ graph = <<>>
    /\ current = 0
    /\ run = [r \in Run |-> [status |-> "none", steps |-> <<>>]]
    /\ req = [p \in Request |-> Rest]
    /\ worker = [w \in Worker |-> Rest]
    /\ crashes = 0

-------------------------------------------------------------------------------
(* The graph *)

KindsOf(g, kind) == {n \in Node : g.kind[n] = kind}

\* Edges join known nodes, a condition has both branches, there is one trigger.
\* Cycles and unreachable nodes are accepted.
ValidGraph(g) ==
    /\ Cardinality(KindsOf(g, "trigger")) = 1
    /\ \A n \in Node, b \in BOOLEAN :
          /\ g.to[n][b] # None =>
                g.kind[n] # "absent" /\ g.kind[g.to[n][b]] # "absent"
          /\ g.kind[n] = "condition" => g.to[n][b] # None
          /\ g.kind[n] # "condition" => g.to[n][b] = g.to[n][TRUE]

Trigger(g) == CHOOSE n \in Node : g.kind[n] = "trigger"
NextOf(g, context, n) == g.to[n][context[n]]

\* Mutant: the walk goes on past a delay.
TraceThrough(g, context, start) ==
    LET walk[seen \in SUBSET Node] ==
            [n \in Node \union {None} |->
                IF n = None \/ n \in seen THEN <<>>
                ELSE <<n>> \o walk[seen \union {n}][NextOf(g, context, n)]]
    IN  walk[{}][start]

\* The nodes executed from start: up to the first delay, the end of the graph,
\* or a node this walk has been to.
Trace(g, context, start) ==
    LET walk[seen \in SUBSET Node] ==
            [n \in Node \union {None} |->
                IF n = None \/ n \in seen THEN <<>>
                ELSE IF g.kind[n] = "delay" THEN <<n>>
                ELSE <<n>> \o walk[seen \union {n}][NextOf(g, context, n)]]
    IN  walk[{}][start]

StepRows(g, nodes) ==
    [i \in DOMAIN nodes |->
        [node |-> nodes[i], status |-> IF g.kind[nodes[i]] = "delay" THEN "pending" ELSE "succeeded"]]

HasDelay(g, nodes) == \E i \in DOMAIN nodes : g.kind[nodes[i]] = "delay"

-------------------------------------------------------------------------------
(* Saving a version *)

SaveVersion(p) ==
    /\ req[p] = Rest
    /\ Len(graph) < MaxVersions
    /\ \E g \in Draft :
          /\ ValidGraph(g)
          /\ req' = [req EXCEPT ![p] = [at |-> "insertVersion", version |-> Len(graph) + 1, graph |-> g]]
    /\ UNCHANGED <<graph, current, run, worker, crashes>>

\* The number is unique: a save that lost the race is refused.
InsertVersion(p) ==
    /\ req[p].at = "insertVersion"
    /\ \/ /\ req[p].version = Len(graph) + 1
          /\ graph' = Append(graph, req[p].graph)
          /\ req' = [req EXCEPT ![p] = [at |-> "setCurrent", version |-> req[p].version]]
       \/ /\ req[p].version <= Len(graph)
          /\ req' = [req EXCEPT ![p] = Rest]
          /\ UNCHANGED graph
    /\ UNCHANGED <<current, run, worker, crashes>>

\* Mutant: the workflow stays on its first version.
SetCurrentOnce(p) ==
    /\ req[p].at = "setCurrent"
    /\ current' = IF current = 0 THEN req[p].version ELSE current
    /\ req' = [req EXCEPT ![p] = Rest]
    /\ UNCHANGED <<graph, run, worker, crashes>>

SetCurrentVersion(p) ==
    /\ req[p].at = "setCurrent"
    /\ current' = req[p].version
    /\ req' = [req EXCEPT ![p] = Rest]
    /\ UNCHANGED <<graph, run, worker, crashes>>

-------------------------------------------------------------------------------
(* Starting a run *)

StartRun(p) ==
    /\ req[p] = Rest
    /\ current # 0
    /\ \E r \in Run, c \in Context :
          /\ run[r].status = "none"
          /\ \A q \in Request : "run" \in DOMAIN req[q] => req[q].run # r
          /\ req' = [req EXCEPT ![p] = [at |-> "insertRun", run |-> r, version |-> current, context |-> c]]
    /\ UNCHANGED <<graph, current, run, worker, crashes>>

InsertRun(p) ==
    LET q == req[p]
    IN  /\ q.at = "insertRun"
        /\ run' = [run EXCEPT ![q.run] = [status |-> "running", version |-> q.version,
                                          context |-> q.context, steps |-> <<>>]]
        /\ req' = [req EXCEPT ![p] = [at |-> "insertSteps", run |-> q.run]]
        /\ UNCHANGED <<graph, current, worker, crashes>>

\* The first segment; the rows of one createMany.
InsertFirstSteps(p) ==
    LET r == req[p].run
        g == graph[run[r].version]
        nodes == Trace(g, run[r].context, Trigger(g))
    IN  /\ req[p].at = "insertSteps"
        /\ run' = [run EXCEPT ![r].steps = StepRows(g, nodes)]
        /\ req' = [req EXCEPT ![p] = IF HasDelay(g, nodes) THEN Rest ELSE [@ EXCEPT !.at = "finish"]]
        /\ UNCHANGED <<graph, current, worker, crashes>>

FinishStartedRun(p) ==
    /\ req[p].at = "finish"
    /\ run' = [run EXCEPT ![req[p].run].status = "succeeded"]
    /\ req' = [req EXCEPT ![p] = Rest]
    /\ UNCHANGED <<graph, current, worker, crashes>>

-------------------------------------------------------------------------------
(* Resuming after a delay *)

\* Mutant: a step that another worker is at is claimed again.
ClaimRunning(w) ==
    /\ worker[w] = Rest
    /\ \E r \in Run :
          \E i \in DOMAIN run[r].steps :
              /\ run[r].status = "running"
              /\ run[r].steps[i].status \in {"pending", "running"}
              /\ Len(run[r].steps) + Cardinality(Node) <= MaxSteps
              /\ run' = [run EXCEPT ![r].steps[i].status = "running"]
              /\ worker' = [worker EXCEPT ![w] = [at |-> "complete", run |-> r, step |-> i]]
    /\ UNCHANGED <<graph, current, req, crashes>>

\* One statement: pending, due, and its run still running.
Claim(w) ==
    /\ worker[w] = Rest
    /\ \E r \in Run :
          \E i \in DOMAIN run[r].steps :
              /\ run[r].status = "running"
              /\ run[r].steps[i].status = "pending"
              /\ Len(run[r].steps) + Cardinality(Node) <= MaxSteps
              /\ run' = [run EXCEPT ![r].steps[i].status = "running"]
              /\ worker' = [worker EXCEPT ![w] = [at |-> "complete", run |-> r, step |-> i]]
    /\ UNCHANGED <<graph, current, req, crashes>>

SetStep(r, i, status) ==
    IF run[r].steps[i].status = "running"
    THEN run' = [run EXCEPT ![r].steps[i].status = status]
    ELSE UNCHANGED run

\* Mutant: the run goes on in the version that is current now.
AfterDelayInCurrent(r, i) == NextOf(graph[current], run[r].context, run[r].steps[i].node)

\* Where the run goes on: in the version it was started with.
AfterDelay(r, i) == NextOf(graph[run[r].version], run[r].context, run[r].steps[i].node)

CompleteStep(w) ==
    LET r == worker[w].run
        i == worker[w].step
    IN  /\ worker[w].at = "complete"
        /\ SetStep(r, i, "succeeded")
        /\ worker' = [worker EXCEPT ![w].at = IF AfterDelay(r, i) = None THEN "finish" ELSE "insertSteps"]
        /\ UNCHANGED <<graph, current, req, crashes>>

\* Mutant: the run is not finished after its last segment.
InsertNextStepsUnfinished(w) ==
    LET r == worker[w].run
        g == graph[run[r].version]
    IN  /\ worker[w].at = "insertSteps"
        /\ run' = [run EXCEPT ![r].steps =
                      @ \o StepRows(g, Trace(g, run[r].context, AfterDelay(r, worker[w].step)))]
        /\ worker' = [worker EXCEPT ![w] = Rest]
        /\ UNCHANGED <<graph, current, req, crashes>>

InsertNextSteps(w) ==
    LET r == worker[w].run
        g == graph[run[r].version]
        nodes == Trace(g, run[r].context, AfterDelay(r, worker[w].step))
    IN  /\ worker[w].at = "insertSteps"
        /\ run' = [run EXCEPT ![r].steps = @ \o StepRows(g, nodes)]
        /\ worker' = [worker EXCEPT ![w] = IF HasDelay(g, nodes) THEN Rest ELSE [@ EXCEPT !.at = "finish"]]
        /\ UNCHANGED <<graph, current, req, crashes>>

FinishRun(w) ==
    /\ worker[w].at = "finish"
    /\ run' = [run EXCEPT ![worker[w].run].status = "succeeded"]
    /\ worker' = [worker EXCEPT ![w] = Rest]
    /\ UNCHANGED <<graph, current, req, crashes>>

\* An await of the try block rejects.
Reject(w) ==
    /\ worker[w].at \in {"complete", "insertSteps", "finish"}
    /\ crashes < MaxCrashes
    /\ crashes' = crashes + 1
    /\ worker' = [worker EXCEPT ![w].at = "failStep"]
    /\ UNCHANGED <<graph, current, run, req>>

\* Only a step that is still running is failed.
FailStep(w) ==
    /\ worker[w].at = "failStep"
    /\ SetStep(worker[w].run, worker[w].step, "failed")
    /\ worker' = [worker EXCEPT ![w].at = "failRun"]
    /\ UNCHANGED <<graph, current, req, crashes>>

\* Mutant: the run is not told that its step failed.
FailRunNever(w) ==
    /\ worker[w].at = "failRun"
    /\ worker' = [worker EXCEPT ![w] = Rest]
    /\ UNCHANGED <<graph, current, run, req, crashes>>

FailRun(w) ==
    /\ worker[w].at = "failRun"
    /\ run' = [run EXCEPT ![worker[w].run].status = "failed"]
    /\ worker' = [worker EXCEPT ![w] = Rest]
    /\ UNCHANGED <<graph, current, req, crashes>>

-------------------------------------------------------------------------------
\* A request is cut short, or the process of a worker stops and is restarted.
Crash ==
    /\ crashes < MaxCrashes
    /\ crashes' = crashes + 1
    /\ \/ \E p \in Request :
             req[p] # Rest /\ req' = [req EXCEPT ![p] = Rest] /\ UNCHANGED worker
       \/ \E w \in Worker :
             worker[w] # Rest /\ worker' = [worker EXCEPT ![w] = Rest] /\ UNCHANGED req
    /\ UNCHANGED <<graph, current, run>>

RequestStep(p) ==
    \/ InsertVersion(p) \/ SetCurrentVersion(p)
    \/ InsertRun(p) \/ InsertFirstSteps(p) \/ FinishStartedRun(p)
WorkerStep(w) ==
    \/ Claim(w) \/ CompleteStep(w) \/ InsertNextSteps(w) \/ FinishRun(w)
    \/ FailStep(w) \/ FailRun(w)

Next ==
    \/ \E p \in Request : SaveVersion(p) \/ StartRun(p) \/ RequestStep(p)
    \/ \E w \in Worker : WorkerStep(w) \/ Reject(w)
    \/ Crash

Spec == Init /\ [][Next]_vars

\* Requests run to completion; workers poll for ever.
RunFairness ==
    /\ \A p \in Request : WF_vars(RequestStep(p))
    /\ \A w \in Worker : WF_vars(WorkerStep(w))

FairSpec == Spec /\ RunFairness

Saving == {p \in Request : req[p].at \in {"insertVersion", "setCurrent"}}

VARIABLE contended  \* history: two saves were under way together, or one was cut short

ObservedInit == Init /\ contended = FALSE

ObservedNext ==
    /\ Next
    /\ contended' = (contended \/ Cardinality(Saving') > 1 \/ (Saving # {} /\ crashes' > crashes))

ObservedSpec == ObservedInit /\ [][ObservedNext]_<<vars, contended>>

FairObservedSpec == ObservedSpec /\ RunFairness

-------------------------------------------------------------------------------
\* Number, row and current version are three statements (saveVersion): when no save
\* is under way, the current version is the newest unless two saves overlapped or one
\* was cut short; and if none was, a workflow that has versions has a current one.
NewestIsCurrent ==
    Saving = {} =>
        /\ ~contended => current = Len(graph)
        /\ crashes = 0 /\ graph # <<>> => current # 0

Steps(r) == run[r].steps
Last(r) == Steps(r)[Len(Steps(r))]

\* "One `WorkflowRunStep` row is written per executed node"
\* (docs/api/workflows.md:132): the rows of a run are a path of the graph of
\* the version it was started with, from the trigger, along the branches its
\* variables choose, and only its end can be a delay that is not over, or that
\* failed, whatever versions are saved meanwhile and however many workers resume it.
StepsFollowPath ==
    \A r \in Run : Steps(r) # <<>> =>
        LET g == graph[run[r].version]
            path == Steps(r)
        IN  /\ path[1].node = Trigger(g)
            /\ \A i \in 1..Len(path) - 1 :
                  /\ path[i + 1].node = NextOf(g, run[r].context, path[i].node)
                  /\ path[i].status = "succeeded"
            /\ Last(r).status # "succeeded" => g.kind[Last(r).node] = "delay"

\* A run that is over stays as it is: no worker resumes or re-judges it.
OverIsOver ==
    [][\A r \in Run : run[r].status \in {"succeeded", "failed"} => run'[r] = run[r]]_vars

\* It executed everything: no step is open, and its path ended or came back to a
\* node it had executed.
Complete(r) ==
    /\ Last(r).status = "succeeded"
    /\ NextOf(graph[run[r].version], run[r].context, Last(r).node)
          \in {None} \union {Steps(r)[i].node : i \in DOMAIN Steps(r)}

\* The status of a run is that of its steps, though they are written apart: a run
\* that succeeded is complete, and a step that failed fails its run, unless the
\* process stops in between (createRun, processNextWorkflowDelay).
RunAgreesWithSteps ==
    \A r \in Run :
        /\ [](run[r].status = "succeeded" => Complete(r))
        /\ (\E i \in DOMAIN Steps(r) : Steps(r)[i].status = "failed")
              ~> (run[r].status = "failed" \/ crashes > 1)

\* A run that waits at a delay goes on when the delay is over and comes to its
\* end, unless an await rejects, the process stops, or its graph loops.
WaitingRunEnds ==
    \A r \in Run :
        (Steps(r) # <<>> /\ run[r].status = "running")
            ~> (\/ run[r].status # "running"
                \/ crashes > 0
                \/ Len(Steps(r)) + Cardinality(Node) > MaxSteps)
================================================================================
