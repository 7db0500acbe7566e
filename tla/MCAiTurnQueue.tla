---------------------------- MODULE MCAiTurnQueue -----------------------------
(* Instances of AiTurnQueue for TLC. *)
EXTENDS AiTurnQueue, TLC

CONSTANTS m1, m2, c1, w1, w2

\* Two messages of one conversation, the second one of the hard kind.
MCConv == [m \in {m1, m2} |-> c1]
\* One message.
MCConvOne == [m \in {m1} |-> c1]

WorkerSymmetry == Permutations(Worker)
===============================================================================
