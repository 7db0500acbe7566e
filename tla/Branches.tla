-------------------------------- MODULE Branches -------------------------------
(***************************************************************************)
(* The default branch of an organization, and the transaction that moves   *)
(* it, at PostgreSQL's default isolation: a statement sees what had been   *)
(* committed when it started, and locks the rows it updates.               *)
(***************************************************************************)
EXTENDS FiniteSets

CONSTANTS Branch, MainBranch,
          BranchRequest  \* requests that set the default branch

ASSUME BranchesAssumption == MainBranch \in Branch

VARIABLES default,   \* the branches whose is_default is committed
          branchReq  \* branchReq[b]: the transaction of setDefault

branchesVars == <<default, branchReq>>

BranchIdle == [at |-> "idle"]
Moving == [at : {"unset", "lock", "set"}, to : Branch, seen : SUBSET Branch]

BranchesTypeOK ==
    /\ default \in SUBSET Branch
    /\ branchReq \in [BranchRequest -> {BranchIdle} \union Moving]

\* createWithOwner inserts the default branch with the organization.
BranchesInit ==
    /\ default = {MainBranch}
    /\ branchReq = [b \in BranchRequest |-> BranchIdle]

-------------------------------------------------------------------------------
BranchDo(b, r) == branchReq' = [branchReq EXCEPT ![b] = r]

\* setDefault looks the branch up.
FindBranch(b, to) ==
    /\ branchReq[b] = BranchIdle
    /\ BranchDo(b, [at |-> "unset", to |-> to, seen |-> {}])
    /\ UNCHANGED default

\* Its first update sees the rows that are default when it starts.
SeeDefault(b) ==
    /\ branchReq[b].at = "unset"
    /\ BranchDo(b, [branchReq[b] EXCEPT !.at = "lock", !.seen = default])
    /\ UNCHANGED default

\* It locks each of them, waiting for whoever has, and passes over one that is
\* no longer default.
LockDefault(b) ==
    LET seen == branchReq[b].seen
    IN  /\ branchReq[b].at = "lock"
        /\ \A c \in BranchRequest \ {b} :
              branchReq[c].at = "set" => branchReq[c].seen \intersect seen = {}
        /\ BranchDo(b, [branchReq[b] EXCEPT !.at = "set", !.seen = seen \intersect default])
        /\ UNCHANGED default

\* Mutant: no index keeps the default unique.
SetUnindexed(b) ==
    /\ branchReq[b].at = "set"
    /\ default' = (default \ branchReq[b].seen) \union {branchReq[b].to}
    /\ BranchDo(b, BranchIdle)

\* The second update, and the end: a partial unique index refuses a second
\* default, and the transaction is rolled back.
SetDefault(b) ==
    LET req == branchReq[b]
        others == default \ req.seen
    IN  /\ req.at = "set"
        /\ default' = IF others \subseteq {req.to} THEN {req.to} ELSE default
        /\ BranchDo(b, BranchIdle)

RollBackDefault(b) ==
    /\ branchReq[b] # BranchIdle
    /\ BranchDo(b, BranchIdle)
    /\ UNCHANGED default

BranchesNext ==
    \E b \in BranchRequest :
        \/ \E to \in Branch : FindBranch(b, to)
        \/ SeeDefault(b) \/ LockDefault(b) \/ SetDefault(b) \/ RollBackDefault(b)

BranchesSpec == BranchesInit /\ [][BranchesNext]_branchesVars

-------------------------------------------------------------------------------
\* Every moment finds one default branch, though several requests move it at once
\* (branches.repository.ts setDefault, uq_branches_one_default_per_organization).
OneDefaultBranch == Cardinality(default) = 1
================================================================================
