---------------------------- MODULE MCWorkflowRuns -----------------------------
(* Instances of WorkflowRuns for TLC. *)
EXTENDS WorkflowRuns, TLC

CONSTANTS t, c, d, a, r1, p1, p2, w1, w2

Straight(n) == [b \in BOOLEAN |-> n]
Fork(yes, no) == (TRUE :> yes) @@ (FALSE :> no)
Kinds == (t :> "trigger") @@ (c :> "condition") @@ (d :> "delay") @@ (a :> "action")

\* A branch waits and acts, or only acts.
Branching == [kind |-> Kinds,
              to |-> (t :> Straight(c)) @@ (c :> Fork(d, a)) @@ (d :> Straight(a)) @@ (a :> Straight(None))]
\* A loop through the delay, left when the condition is false.
Looping == [kind |-> Kinds,
            to |-> (t :> Straight(d)) @@ (d :> Straight(a)) @@ (a :> Straight(c)) @@ (c :> Fork(d, a))]
\* A delay at the end; the condition is not reachable.
Trailing == [kind |-> Kinds,
             to |-> (t :> Straight(a)) @@ (a :> Straight(d)) @@ (d :> Straight(None)) @@ (c :> Fork(c, a))]
\* Refused: the condition has one branch only.
HalfFork == [Branching EXCEPT !.to[c][FALSE] = None]

MCDraft == {Branching, Looping, Trailing, HalfFork}
MCContext == {[n \in Node |-> b] : b \in BOOLEAN}
================================================================================
