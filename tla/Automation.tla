------------------------------- MODULE Automation ------------------------------
(***************************************************************************)
(* Deals and the CRM automation that tags the valuable ones: polling       *)
(* workers without a claim, whose marker is the tag itself, beside people  *)
(* who create, close, tag and untag deals.  Deals are numbered in the      *)
(* order of their creation.                                                *)
(***************************************************************************)
EXTENDS Naturals, FiniteSets

CONSTANTS MaxDeals,     \* bound: deals
          Valuable,     \* deals whose value reaches the threshold
          Batch,        \* deals that a cycle lists (take)
          Automaton,    \* automation workers
          MaxEdits,     \* bound: edits by people
          MaxFaults     \* bound: calls that reject, and crashes

ASSUME AutomationAssumption ==
    /\ MaxDeals \in Nat /\ Batch \in Nat /\ MaxEdits \in Nat /\ MaxFaults \in Nat
    /\ Valuable \subseteq 1..MaxDeals

Deal == 1..MaxDeals

VARIABLES made,       \* deals created so far
          aged,       \* the first of them, created before the look-back of seven days
          open,       \* the open ones
          tagExists,  \* the automation's tag has a row
          taggable,   \* the deals that carry it
          noted,      \* the deals on whose timeline the automation noted the tag
          byHand,     \* the deals that a person ever tagged
          automaton,  \* automaton[w]: what worker w is about to do
          edits, faults

automationVars == <<made, aged, open, tagExists, taggable, noted, byHand, automaton, edits, faults>>

Watching == [at |-> "list"]
Cycle == [at : {"findTag", "createTag", "hasTag", "assign", "note"}, todo : SUBSET Deal]

AutomationTypeOK ==
    /\ made \in 0..MaxDeals /\ aged \in 0..made
    /\ open \in SUBSET Deal
    /\ tagExists \in BOOLEAN
    /\ taggable \in SUBSET Deal /\ noted \in SUBSET Deal /\ byHand \in SUBSET Deal
    /\ automaton \in [Automaton -> {Watching} \union Cycle]
    /\ edits \in 0..MaxEdits /\ faults \in 0..MaxFaults

AutomationInit ==
    /\ made = 0 /\ aged = 0
    /\ open = {} /\ taggable = {} /\ noted = {} /\ byHand = {}
    /\ tagExists = FALSE
    /\ automaton = [w \in Automaton |-> Watching]
    /\ edits = 0 /\ faults = 0

-------------------------------------------------------------------------------
(* People *)

CreateDeal ==
    /\ made < MaxDeals
    /\ made' = made + 1
    /\ open' = open \union {made + 1}
    /\ UNCHANGED <<aged, tagExists, taggable, noted, byHand, automaton, edits, faults>>

Edit == edits < MaxEdits /\ edits' = edits + 1

\* closeDeal updates where the status is open.
CloseDeal ==
    /\ Edit
    /\ \E d \in open : open' = open \ {d}
    /\ UNCHANGED <<made, aged, tagExists, taggable, noted, byHand, automaton, faults>>

\* The name is unique: a second creation rejects.
CreateTag ==
    /\ Edit
    /\ ~tagExists
    /\ tagExists' = TRUE
    /\ UNCHANGED <<made, aged, open, taggable, noted, byHand, automaton, faults>>

AssignTag ==
    /\ Edit
    /\ tagExists
    /\ \E d \in 1..made : /\ taggable' = taggable \union {d}
                          /\ byHand' = byHand \union {d}
    /\ UNCHANGED <<made, aged, open, tagExists, noted, automaton, faults>>

RemoveTag ==
    /\ Edit
    /\ \E d \in taggable : taggable' = taggable \ {d}
    /\ UNCHANGED <<made, aged, open, tagExists, noted, byHand, automaton, faults>>

-------------------------------------------------------------------------------
(* Time *)

\* The look-back leaves the oldest deal behind that it still reached.
AgeOut ==
    /\ aged < made
    /\ aged' = aged + 1
    /\ UNCHANGED <<made, open, tagExists, taggable, noted, byHand, automaton, edits, faults>>

-------------------------------------------------------------------------------
(* Workers *)

AutomatonAt(w, step) == automaton[w].at = step
AutomatonDo(w, r) == automaton' = [automaton EXCEPT ![w] = r]
AutomatonGoTo(w, step) == AutomatonDo(w, [automaton[w] EXCEPT !.at = step])
StartCycle(w, todo) ==
    AutomatonDo(w, IF todo = {} THEN Watching ELSE [at |-> "findTag", todo |-> todo])

\* The newest of a cycle's deals is the one in hand.
DealInHand(w) == CHOOSE d \in automaton[w].todo : \A e \in automaton[w].todo : e <= d
NextDeal(w) == StartCycle(w, automaton[w].todo \ {DealInHand(w)})

\* listRecentDeals: the newest of the open deals within the look-back, tagged or not.
Listed(d) == d > aged /\ Cardinality({e \in open : e > d}) < Batch

ListRecentDeals(w) ==
    /\ AutomatonAt(w, "list")
    /\ StartCycle(w, {d \in open : Listed(d)} \intersect Valuable)
    /\ UNCHANGED <<made, aged, open, tagExists, taggable, noted, byHand, edits, faults>>

FindTag(w) ==
    /\ AutomatonAt(w, "findTag")
    /\ AutomatonGoTo(w, IF tagExists THEN "hasTag" ELSE "createTag")
    /\ UNCHANGED <<made, aged, open, tagExists, taggable, noted, byHand, edits, faults>>

\* When somebody was faster the insert rejects, and the cycle is over.
CreateTagByName(w) ==
    /\ AutomatonAt(w, "createTag")
    /\ IF tagExists THEN AutomatonDo(w, Watching) ELSE AutomatonGoTo(w, "hasTag")
    /\ tagExists' = TRUE
    /\ UNCHANGED <<made, aged, open, taggable, noted, byHand, edits, faults>>

\* Mutant: the note on the timeline is the marker.
HasActivity(w) ==
    /\ AutomatonAt(w, "hasTag")
    /\ IF DealInHand(w) \in noted THEN NextDeal(w) ELSE AutomatonGoTo(w, "assign")
    /\ UNCHANGED <<made, aged, open, tagExists, taggable, noted, byHand, edits, faults>>

HasTag(w) ==
    /\ AutomatonAt(w, "hasTag")
    /\ IF DealInHand(w) \in taggable THEN NextDeal(w) ELSE AutomatonGoTo(w, "assign")
    /\ UNCHANGED <<made, aged, open, tagExists, taggable, noted, byHand, edits, faults>>

\* A row that is there already is as good as a new one.
AssignByName(w) ==
    /\ AutomatonAt(w, "assign")
    /\ taggable' = taggable \union {DealInHand(w)}
    /\ AutomatonGoTo(w, "note")
    /\ UNCHANGED <<made, aged, open, tagExists, noted, byHand, edits, faults>>

RecordActivity(w) ==
    /\ AutomatonAt(w, "note")
    /\ noted' = noted \union {DealInHand(w)}
    /\ NextDeal(w)
    /\ UNCHANGED <<made, aged, open, tagExists, taggable, byHand, edits, faults>>

\* A call rejects and ends the cycle, or the process stops and is started again.
EndCycle(w) ==
    /\ ~AutomatonAt(w, "list")
    /\ faults < MaxFaults
    /\ faults' = faults + 1
    /\ AutomatonDo(w, Watching)
    /\ UNCHANGED <<made, aged, open, tagExists, taggable, noted, byHand, edits>>

AutomatonStep(w) ==
    \/ ListRecentDeals(w) \/ FindTag(w) \/ CreateTagByName(w) \/ HasTag(w)
    \/ AssignByName(w) \/ RecordActivity(w)

AutomationNext ==
    \/ CreateDeal \/ CloseDeal \/ CreateTag \/ AssignTag \/ RemoveTag \/ AgeOut
    \/ \E w \in Automaton : AutomatonStep(w) \/ EndCycle(w)

\* for (;;) with a catch around each cycle: a worker that can go on does.
AutomationFairness == \A w \in Automaton : WF_automationVars(AutomatonStep(w))

AutomationSpec == AutomationInit /\ [][AutomationNext]_automationVars /\ AutomationFairness

-------------------------------------------------------------------------------
\* A valuable deal gets its tag, and the tag its place on the timeline, however the
\* workers and people race for either, unless it is closed or drops out of what a cycle
\* lists: newer deals push it out, or it is older than the look-back, after which a deal
\* that lost its tag, or whose cycles failed, never gets one (listRecentDeals).  The
\* timeline may lack a tag set by hand, or one whose cycle broke off before it was noted
\* (applyAction).
ValuableIsTagged ==
    \A d \in Valuable :
        d \in open ~> \/ d \in taggable /\ (d \in noted \union byHand \/ faults > 0)
                      \/ d \notin open
                      \/ ~Listed(d)
================================================================================
