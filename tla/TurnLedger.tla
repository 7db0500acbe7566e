------------------------------ MODULE TurnLedger ------------------------------
(***************************************************************************)
(* What the AI turn queue promises its callers, with no worker, lease or   *)
(* retry in sight.  A customer message gets at most one turn: it is opened *)
(* once, an outcome is recorded for it at most once and is never revised,  *)
(* and it is settled once, as succeeded only when its outcome is on record.*)
(* AiTurnQueue implements this module.                                     *)
(***************************************************************************)
CONSTANTS Message,      \* inbound customer messages that carry text
          Outcome       \* what a recorded run may say

None == "none"          \* no outcome on record

VARIABLES turn,         \* turn[m]: absent, open, succeeded or failed
          outcome       \* outcome[m]: the run recorded for m, or None

ledgerVars == <<turn, outcome>>

LedgerTypeOK ==
    /\ turn \in [Message -> {"absent", "open", "succeeded", "failed"}]
    /\ outcome \in [Message -> Outcome \union {None}]

Init ==
    /\ turn = [m \in Message |-> "absent"]
    /\ outcome = [m \in Message |-> None]

Open(m) ==
    /\ turn[m] = "absent"
    /\ turn' = [turn EXCEPT ![m] = "open"]
    /\ UNCHANGED outcome

\* A worker that lost its claim may still record after the turn was failed.
Record(m, o) ==
    /\ turn[m] \in {"open", "failed"}
    /\ outcome[m] = None
    /\ outcome' = [outcome EXCEPT ![m] = o]
    /\ UNCHANGED turn

Succeed(m) ==
    /\ turn[m] = "open"
    /\ outcome[m] # None
    /\ turn' = [turn EXCEPT ![m] = "succeeded"]
    /\ UNCHANGED outcome

Fail(m) ==
    /\ turn[m] = "open"
    /\ turn' = [turn EXCEPT ![m] = "failed"]
    /\ UNCHANGED outcome

Next ==
    \E m \in Message :
        \/ Open(m)
        \/ \E o \in Outcome : Record(m, o)
        \/ Succeed(m)
        \/ Fail(m)

Spec == Init /\ [][Next]_ledgerVars
===============================================================================
