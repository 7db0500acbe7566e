------------------------------ MODULE MCServices -------------------------------
(***************************************************************************)
(* The smaller components side by side, with one AI turn for liveness.     *)
(* They share no table, so a behaviour keeps to one of them (area) and the *)
(* instance is their sum, not their product.                               *)
(***************************************************************************)
EXTENDS AiTurnQueue, Ingestion, Members, Branches, Automation, TLC

CONSTANTS m1, c1

MCConv == m1 :> c1

VARIABLE area

turnVars == vars
servicesVars == <<area, turnVars, ingestionVars, membersVars, branchesVars,
                  automationVars>>

ServicesInit ==
    /\ area \in {"turns", "ingestion", "members", "branches", "automation"}
    /\ Init /\ IngestionInit /\ MembersInit /\ BranchesInit /\ AutomationInit

\* What the other areas keep.
Outside(here) ==
    /\ here # "turns" => UNCHANGED turnVars
    /\ here # "ingestion" => UNCHANGED ingestionVars
    /\ here # "members" => UNCHANGED membersVars
    /\ here # "branches" => UNCHANGED branchesVars
    /\ here # "automation" => UNCHANGED automationVars

ServicesNext ==
    /\ UNCHANGED area
    /\ \/ area = "turns" /\ Next
       \/ area = "ingestion" /\ IngestionNext
       \/ area = "members" /\ MembersNext
       \/ area = "branches" /\ BranchesNext
       \/ area = "automation" /\ AutomationNext
    /\ Outside(area)

\* TurnFairness, IngestionFairness and AutomationFairness, each asked for in its area.
ServicesSpec ==
    /\ ServicesInit
    /\ [][ServicesNext]_servicesVars
    /\ \A w \in Worker : WF_turnVars(area = "turns" /\ WorkerStep(w))
    /\ \A m \in Message : WF_turnVars(area = "turns" /\ LeaseExpires(m))
    /\ \A w \in Ingester : WF_ingestionVars(area = "ingestion" /\ IngesterStep(w))
    /\ \A w \in Automaton : WF_automationVars(area = "automation" /\ AutomatonStep(w))

ServicesTypeOK ==
    /\ IngestionTypeOK /\ MembersTypeOK /\ BranchesTypeOK /\ AutomationTypeOK
================================================================================
