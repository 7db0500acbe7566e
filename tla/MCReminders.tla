------------------------------ MODULE MCReminders ------------------------------
(***************************************************************************)
(* What workers do for contacts: reminders of appointments, review         *)
(* requests, and transcriptions with the erasure that ends them.  They     *)
(* share no table, so a behaviour keeps to one of them (area) and the      *)
(* instance is their sum, not their product.                               *)
(***************************************************************************)
EXTENDS Appointments, Reviews, Erasure, TLC

CONSTANTS r1, w1, w2, s1, s2, k1, k2

VARIABLE area

MCSeries == {}
MCException == {[resource |-> r1, start |-> 3, end |-> 4]}

appointmentVars == vars

MCInit ==
    /\ area \in {"reminders", "reviews", "erasure"}
    /\ Init /\ ReviewsInit /\ ErasureInit

MCNext ==
    /\ UNCHANGED area
    /\ \/ /\ area = "reminders" /\ Next
          /\ UNCHANGED <<reviewsVars, erasureVars>>
       \/ /\ area = "reviews" /\ ReviewsNext
          /\ UNCHANGED <<appointmentVars, erasureVars>>
       \/ /\ area = "erasure" /\ ErasureNext
          /\ UNCHANGED <<appointmentVars, reviewsVars>>

MCSpec == MCInit /\ [][MCNext]_<<area, appointmentVars, reviewsVars, erasureVars>>

ContactsTypeOK == ReviewsTypeOK /\ ErasureTypeOK

ProcessSymmetry == Permutations(Worker) \union Permutations(Staff) \union Permutations(Clerk)
================================================================================
