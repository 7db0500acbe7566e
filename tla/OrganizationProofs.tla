--------------------------- MODULE OrganizationProofs ---------------------------
(***************************************************************************)
(* What an organization keeps: its owners, its default branch, the         *)
(* knowledge its receptionist answers from and the connections its         *)
(* administrators are shown, for any number of them, of documents, jobs    *)
(* and workers, and of requests in flight.                                 *)
(***************************************************************************)
EXTENDS Members, Branches, Ingestion, Settings, FiniteSetTheorems, TLAPS

(* Members: what a request remembers of its checks is what they asked for. *)

\* Past the look-up, only an owner's request makes an owner; about to take the
\* ownership it read, a request has counted a second owner.
Checked(r) ==
    /\ r.at \in {"count", "write"} /\ r.to = "owner" => r.actor = "owner"
    /\ r.at = "write" /\ r.was = "owner" /\ r.to # "owner" => r.counted > 1

MInv ==
    /\ MembersTypeOK
    /\ \A p \in MemberRequest : memberReq[p] # MemberIdle => Checked(memberReq[p])

LEMMA MInit == MembersInit => MInv
  BY MembersAssumption DEF MembersInit, MInv, MembersTypeOK, MemberIdle, Role

\* The one request that a step moves to r is the only one to look at.
LEMMA RequestMoved ==
    ASSUME MInv, NEW p \in MemberRequest, NEW r \in {MemberIdle} \union Changing,
           RequestDo(p, r), r # MemberIdle => Checked(r),
           role' \in [Member -> Role \union {"new", "removed"}]
    PROVE  MInv'
<1>1. /\ memberReq' \in [MemberRequest -> {MemberIdle} \union Changing]
      /\ \A q \in MemberRequest : memberReq'[q] = IF q = p THEN r ELSE memberReq[q]
  BY DEF MInv, MembersTypeOK, RequestDo
<1> QED
  BY <1>1 DEF MInv, MembersTypeOK

LEMMA OwnersCounted ==
    /\ Cardinality(Owners) \in 0..Cardinality(Member)
    /\ 0 \in 0..Cardinality(Member)
<1>1. Owners \subseteq Member
  BY DEF Owners
<1>2. /\ IsFiniteSet(Owners) /\ Cardinality(Owners) <= Cardinality(Member)
  BY <1>1, MembersAssumption, FS_Subset
<1>3. Cardinality(Owners) \in Nat /\ Cardinality(Member) \in Nat
  BY <1>2, MembersAssumption, FS_CardinalityType
<1> QED
  BY <1>2, <1>3

LEMMA MNext == MInv /\ [MembersNext]_membersVars => MInv'
<1> SUFFICES ASSUME MInv, [MembersNext]_membersVars PROVE MInv'
  OBVIOUS
<1> USE DEF MInv, MembersTypeOK
<1>1. CASE UNCHANGED membersVars
  BY <1>1 DEF membersVars
<1>2. ASSUME NEW m \in Member, AcceptInvitation(m) PROVE MInv'
  BY <1>2 DEF AcceptInvitation, Role
<1>3. ASSUME NEW p \in MemberRequest, NEW a \in Member, NEW m \in Member,
             NEW to \in Role \union {"removed"}, BeginChange(p, a, m, to)
      PROVE  MInv'
  <2> DEFINE r == [at |-> "find", actor |-> role[a], member |-> m, to |-> to,
                   was |-> "unread", counted |-> 0]
  <2>1. r \in Changing
    BY <1>3, OwnersCounted DEF BeginChange, Changing
  <2>2. Checked(r)
    BY DEF Checked
  <2> QED
    BY <1>3, <2>1, <2>2, RequestMoved DEF BeginChange
<1>4. ASSUME NEW p \in MemberRequest, FindMember(p) PROVE MInv'
  <2> DEFINE req == memberReq[p]
             was == role[req.member]
             step == IF was = "owner" /\ req.to # "owner" THEN "count" ELSE "write"
             r == [req EXCEPT !.was = was, !.at = step]
  <2>1. CASE RequestDo(p, MemberIdle)
    BY <1>4, <2>1, RequestMoved DEF FindMember
  <2>2. CASE RequestDo(p, r) /\ was \in Role /\ (req.to \in Role => CanAssignRole(req.actor, req.to))
    <3>1. req \in Changing
      BY <1>4 DEF FindMember, RequestAt, MemberIdle
    <3>2. r \in Changing /\ r.at = step /\ r.was = was /\ r.to = req.to /\ r.actor = req.actor
      BY <2>2, <3>1 DEF Changing
    <3>3. Checked(r)
      BY <2>2, <3>2 DEF Checked, CanAssignRole, Role
    <3> QED
      BY <1>4, <2>2, <3>2, <3>3, RequestMoved DEF FindMember
  <2> QED
    BY <1>4, <2>1, <2>2 DEF FindMember, RequestEnds
<1>5. ASSUME NEW p \in MemberRequest, CountOwners(p) PROVE MInv'
  <2> DEFINE n == Cardinality(Owners)
             r == [memberReq[p] EXCEPT !.counted = n, !.at = "write"]
  <2>1. CASE RequestDo(p, MemberIdle)
    BY <1>5, <2>1, RequestMoved DEF CountOwners
  <2>2. CASE n > 1 /\ RequestDo(p, r)
    <3>1. memberReq[p].at = "count" /\ memberReq[p] \in Changing
      BY <1>5 DEF CountOwners, RequestAt, MemberIdle
    <3>2. /\ r \in Changing
          /\ r.at = "write" /\ r.counted = n /\ r.to = memberReq[p].to /\ r.actor = memberReq[p].actor
      BY <3>1, OwnersCounted DEF Changing
    <3>3. Checked(r)
      BY <2>2, <3>1, <3>2 DEF Checked, MemberIdle
    <3> QED
      BY <1>5, <2>2, <3>2, <3>3, RequestMoved DEF CountOwners
  <2> QED
    BY <1>5, <2>1, <2>2 DEF CountOwners, RequestEnds
<1>6. ASSUME NEW p \in MemberRequest, WriteMember(p) PROVE MInv'
  <2>1. memberReq[p] \in Changing
    BY <1>6 DEF WriteMember, RequestAt, MemberIdle
  <2>2. role' \in [Member -> Role \union {"new", "removed"}]
    BY <1>6, <2>1 DEF WriteMember, Changing
  <2> QED
    BY <1>6, <2>2, RequestMoved DEF WriteMember, RequestEnds
<1>7. ASSUME NEW p \in MemberRequest, AbandonChange(p) PROVE MInv'
  BY <1>7, RequestMoved DEF AbandonChange, RequestEnds
<1> QED
  BY <1>1, <1>2, <1>3, <1>4, <1>5, <1>6, <1>7 DEF MembersNext

LEMMA MembersInvariant == MembersSpec => []MInv
<1> QED
  BY MInit, MNext, PTL DEF MembersSpec

\* The tables and requests of the member endpoints keep their types: a request
\* never acts on a role or on a count that no state of the table had.
THEOREM MembersTypeCorrect == MembersSpec => []MembersTypeOK
<1>1. MInv => MembersTypeOK
  BY DEF MInv
<1> QED
  BY <1>1, MembersInvariant, PTL

\* Only the write of a change takes the last owner away, and the request then saw
\* another owner, or another role of the member, than there is.
LEMMA LossIsOvertaken ==
    ASSUME MInv, [MembersNext]_membersVars, Owners # {}, Owners' = {}
    PROVE  \E p \in MemberRequest : Overtaken(p)
<1>1. ~ UNCHANGED role
  BY DEF Owners
<1>2. ASSUME NEW m \in Member, AcceptInvitation(m) PROVE FALSE
  <2>1. PICK o \in Owners : TRUE
    OBVIOUS
  <2>2. role'[o] = "owner"
    BY <1>2, <2>1 DEF AcceptInvitation, Owners, MInv, MembersTypeOK
  <2> QED
    BY <2>1, <2>2 DEF Owners
<1>3. PICK p \in MemberRequest : WriteMember(p)
  BY <1>1, <1>2 DEF MembersNext, membersVars, BeginChange, FindMember, CountOwners, AbandonChange
<1> DEFINE m == memberReq[p].member
<1>4. memberReq[p] \in Changing /\ memberReq[p].at = "write" /\ Checked(memberReq[p])
  BY <1>3 DEF WriteMember, RequestAt, MInv, MembersTypeOK, MemberIdle
<1>5. m \in Member /\ role[m] \in Role /\ role' = [role EXCEPT ![m] = memberReq[p].to]
  BY <1>1, <1>3, <1>4 DEF WriteMember, Changing
<1>6. Owners = {m} /\ memberReq[p].to # "owner"
  BY <1>5 DEF Owners, MInv, MembersTypeOK
<1>7. Cardinality(Owners) = 1
  BY <1>6, FS_Singleton
<1>8. role[m] = "owner"
  BY <1>6 DEF Owners
<1> QED
  BY <1>4, <1>6, <1>7, <1>8 DEF Overtaken, Checked

LEMMA OrphanStays ==
    ASSUME MInv, [MembersNext]_membersVars, Orphaned
    PROVE  Owners' = {}
<1>1. CASE UNCHANGED role
  BY <1>1 DEF Orphaned, Owners
<1>2. ASSUME NEW m \in Member, AcceptInvitation(m) PROVE Owners' = {}
  BY <1>2 DEF AcceptInvitation, Orphaned, Owners, MInv, MembersTypeOK
<1>3. ASSUME NEW p \in MemberRequest, WriteMember(p) PROVE Owners' = {}
  <2>1. memberReq[p] \in Changing /\ memberReq[p].at = "write" /\ Checked(memberReq[p])
    BY <1>3 DEF WriteMember, RequestAt, MInv, MembersTypeOK, MemberIdle
  <2>2. memberReq[p].to # "owner"
    BY <2>1 DEF Checked, Orphaned, MemberIdle
  <2> QED
    BY <1>3, <2>1, <2>2 DEF WriteMember, Orphaned, Owners, MInv, MembersTypeOK, Changing
<1> QED
  BY <1>1, <1>2, <1>3 DEF MembersNext, membersVars, BeginChange, FindMember, CountOwners, AbandonChange

\* The organization loses its last owner only to overlapping requests, and an
\* organization without one does not get a self-made owner.
THEOREM LastOwnerKept == MembersSpec => OwnersAreKept
<1>1. MInv /\ [MembersNext]_membersVars =>
          [/\ Owners # {} /\ Owners' = {} => \E p \in MemberRequest : Overtaken(p)
           /\ Orphaned => Owners' = {}]_membersVars
  BY LossIsOvertaken, OrphanStays
<1> QED
  BY <1>1, MembersInvariant, PTL DEF MembersSpec, OwnersAreKept

-------------------------------------------------------------------------------
(* Branches: what a transaction has locked cannot be moved by another. *)

BInv ==
    /\ BranchesTypeOK
    /\ \E d \in Branch : default = {d}
    /\ \A b \in BranchRequest :
          branchReq[b].at = "set" => branchReq[b].seen \subseteq default
    /\ \A b, c \in BranchRequest :
          branchReq[b].at = "set" /\ branchReq[c].at = "set" /\ b # c
              => branchReq[b].seen \intersect branchReq[c].seen = {}

LEMMA BInit == BranchesInit => BInv
  BY BranchesAssumption DEF BranchesInit, BInv, BranchesTypeOK, BranchIdle

\* A request that does not end up with locks, while the default stays or the
\* others have none on it.
LEMMA BranchMoved ==
    ASSUME BInv, NEW b \in BranchRequest, NEW r \in {BranchIdle} \union Moving, BranchDo(b, r),
           r.at = "set" => /\ r.seen \subseteq default'
                           /\ \A c \in BranchRequest \ {b} :
                                 branchReq[c].at = "set" => branchReq[c].seen \intersect r.seen = {},
           \E d \in Branch : default' = {d},
           default' = default \/ \A c \in BranchRequest \ {b} :
                                    branchReq[c].at = "set" => branchReq[c].seen = {}
    PROVE  BInv'
<1>1. /\ branchReq' \in [BranchRequest -> {BranchIdle} \union Moving]
      /\ branchReq'[b] = r
      /\ \A c \in BranchRequest \ {b} : branchReq'[c] = branchReq[c]
  BY DEF BInv, BranchesTypeOK, BranchDo
<1>2. BranchesTypeOK'
  BY <1>1 DEF BranchesTypeOK
<1>3. \A c \in BranchRequest : branchReq'[c].at = "set" => branchReq'[c].seen \subseteq default'
  BY <1>1 DEF BInv
<1>4. \A c, e \in BranchRequest :
          branchReq'[c].at = "set" /\ branchReq'[e].at = "set" /\ c # e
              => branchReq'[c].seen \intersect branchReq'[e].seen = {}
  BY <1>1 DEF BInv
<1> QED
  BY <1>2, <1>3, <1>4 DEF BInv

LEMMA BNext == BInv /\ [BranchesNext]_branchesVars => BInv'
<1> SUFFICES ASSUME BInv, [BranchesNext]_branchesVars PROVE BInv'
  OBVIOUS
<1>1. CASE UNCHANGED branchesVars
  BY <1>1 DEF branchesVars, BInv, BranchesTypeOK
<1>2. \E d \in Branch : default = {d}
  BY DEF BInv
<1>3. ASSUME NEW b \in BranchRequest, NEW to \in Branch, FindBranch(b, to) PROVE BInv'
  <2>1. [at |-> "unset", to |-> to, seen |-> {}] \in Moving
    BY DEF Moving
  <2> QED
    BY <1>2, <1>3, <2>1, BranchMoved DEF FindBranch
<1>4. ASSUME NEW b \in BranchRequest, SeeDefault(b) PROVE BInv'
  <2> DEFINE r == [branchReq[b] EXCEPT !.at = "lock", !.seen = default]
  <2>1. branchReq[b] \in Moving
    BY <1>4 DEF SeeDefault, BranchIdle, BInv, BranchesTypeOK
  <2>2. r \in Moving /\ r.at = "lock"
    BY <2>1 DEF Moving, BInv, BranchesTypeOK
  <2> QED
    BY <1>2, <1>4, <2>2, BranchMoved DEF SeeDefault
<1>5. ASSUME NEW b \in BranchRequest, LockDefault(b) PROVE BInv'
  <2> DEFINE seen == branchReq[b].seen
             r == [branchReq[b] EXCEPT !.at = "set", !.seen = seen \intersect default]
  <2>1. branchReq[b] \in Moving
    BY <1>5 DEF LockDefault, BranchIdle, BInv, BranchesTypeOK
  <2>2. r \in Moving /\ r.seen = seen \intersect default
    BY <2>1 DEF Moving
  <2>3. \A c \in BranchRequest \ {b} :
            branchReq[c].at = "set" => branchReq[c].seen \intersect r.seen = {}
    BY <1>5, <2>2 DEF LockDefault
  <2>4. default' = default /\ BranchDo(b, r)
    BY <1>5 DEF LockDefault
  <2> HIDE DEF r
  <2> QED
    BY <1>2, <2>2, <2>3, <2>4, BranchMoved
<1>6. ASSUME NEW b \in BranchRequest, SetDefault(b) PROVE BInv'
  <2> DEFINE req == branchReq[b]
  <2>1. req \in Moving /\ req.at = "set" /\ req.seen \subseteq default
    BY <1>6 DEF SetDefault, BranchIdle, BInv, BranchesTypeOK
  <2>2. /\ BranchDo(b, BranchIdle)
        /\ default' = IF default \ req.seen \subseteq {req.to} THEN {req.to} ELSE default
    BY <1>6 DEF SetDefault
  <2>3. req.to \in Branch
    BY <2>1 DEF Moving
  <2>4. \E d \in Branch : default' = {d}
    BY <1>2, <2>2, <2>3
  <2>5. default' = default \/ default \subseteq req.seen
    BY <1>2, <2>2
  <2>6. default \subseteq req.seen => \A c \in BranchRequest \ {b} :
            branchReq[c].at = "set" => branchReq[c].seen = {}
    BY <2>1 DEF BInv
  <2> QED
    BY <2>2, <2>4, <2>5, <2>6, BranchMoved DEF BranchIdle
<1>7. ASSUME NEW b \in BranchRequest, RollBackDefault(b) PROVE BInv'
  BY <1>2, <1>7, BranchMoved DEF RollBackDefault, BranchIdle
<1> QED
  BY <1>1, <1>3, <1>4, <1>5, <1>6, <1>7 DEF BranchesNext

LEMMA BranchesInvariant == BranchesSpec => []BInv
  BY BInit, BNext, PTL DEF BranchesSpec

\* The branches and the requests that move the default keep their types.
THEOREM BranchesTypeCorrect == BranchesSpec => []BranchesTypeOK
<1>1. BInv => BranchesTypeOK
  BY DEF BInv
<1> QED
  BY <1>1, BranchesInvariant, PTL

\* The default branch is one at every moment, however many requests move it and
\* however they interleave: the locks and the partial unique index see to it.
THEOREM DefaultIsOne == BranchesSpec => []OneDefaultBranch
<1>1. BInv => OneDefaultBranch
  BY FS_Singleton DEF BInv, OneDefaultBranch
<1> QED
  BY <1>1, BranchesInvariant, PTL

-------------------------------------------------------------------------------
(* Ingestion: a succeeded job left its chunks, by who holds what: a row is held   *)
(* by one claim and queued as long as it is, a running job is one worker's, and    *)
(* what that worker has done is in the index.                                     *)

Pipeline == IngestSteps \union {"fail"}

HeldIsQueued ==
    \A w \in Ingester : IngesterAt(w, "claim") => \A d \in ingester[w].held : job[d] = "queued"

HeldByOne ==
    \A v, w \in Ingester :
        v # w /\ IngesterAt(v, "claim") /\ IngesterAt(w, "claim")
            => ingester[v].held \intersect ingester[w].held = {}

WorkedOnIsRunning ==
    \A w \in Ingester : ingester[w].at \in Pipeline => job[ingester[w].doc] = "running"

WorkedOnByOne ==
    \A v, w \in Ingester :
        v # w /\ ingester[v].at \in Pipeline /\ ingester[w].at \in Pipeline
            => ingester[v].doc # ingester[w].doc

DoneIsIndexed ==
    \A w \in Ingester :
        /\ ingester[w].at \in {"count", "succeed"} => ingester[w].doc \in chunked
        /\ IngesterAt(w, "succeed") => ingester[w].doc \in counted

IInv ==
    /\ IngestionTypeOK
    /\ HeldIsQueued /\ HeldByOne
    /\ WorkedOnIsRunning /\ WorkedOnByOne
    /\ DoneIsIndexed /\ SucceededIsIndexed

LEMMA InitEstablishes == IngestionInit => IInv
<1> SUFFICES ASSUME IngestionInit PROVE IInv
  OBVIOUS
<1>1. \A w \in Ingester : ingester[w].at = "poll"
  BY DEF IngestionInit, Polling
<1>2. IngestionTypeOK
  BY IngestionAssumption DEF IngestionInit, IngestionTypeOK, JobStatus
<1>3. HeldIsQueued /\ HeldByOne /\ WorkedOnIsRunning /\ WorkedOnByOne /\ DoneIsIndexed
  BY <1>1 DEF HeldIsQueued, HeldByOne, WorkedOnIsRunning, WorkedOnByOne, DoneIsIndexed,
     IngesterAt, Pipeline, IngestSteps
<1>4. SucceededIsIndexed
  BY DEF IngestionInit, SucceededIsIndexed
<1> QED
  BY <1>2, <1>3, <1>4 DEF IInv

-------------------------------------------------------------------------------
(* What the type says of a worker at each step. *)

WorkerState == {Polling, Stopped} \union Claiming \union Ingesting

LEMMA Claims ==
    ASSUME IngestionTypeOK, NEW w \in Ingester, IngesterAt(w, "claim")
    PROVE  ingester[w] \in Claiming
BY DEF IngestionTypeOK, IngesterAt, Polling, Stopped, Claiming, Ingesting, IngestSteps

LEMMA Ingests ==
    ASSUME IngestionTypeOK, NEW w \in Ingester, ingester[w].at \in Pipeline
    PROVE  ingester[w] \in Ingesting
BY DEF IngestionTypeOK, Pipeline, Polling, Stopped, Claiming, Ingesting, IngestSteps

\* A step of one worker leaves the others where they are.
LEMMA Moved ==
    ASSUME IngestionTypeOK, NEW w \in Ingester, NEW r \in WorkerState, IngesterDo(w, r)
    PROVE  /\ ingester' \in [Ingester -> WorkerState]
           /\ ingester'[w] = r
           /\ \A v \in Ingester \ {w} : ingester'[v] = ingester[v]
BY DEF IngestionTypeOK, IngesterDo, WorkerState

\* A worker that moves on in the pipeline keeps its document.
LEMMA GoesOn ==
    ASSUME IngestionTypeOK, NEW w \in Ingester, ingester[w].at \in Pipeline,
           NEW s \in Pipeline, IngesterGoTo(w, s)
    PROVE  /\ ingester' \in [Ingester -> WorkerState]
           /\ ingester'[w] = [at |-> s, doc |-> ingester[w].doc]
           /\ ingester[w].doc \in Document
           /\ \A v \in Ingester \ {w} : ingester'[v] = ingester[v]
<1>1. ingester[w] \in Ingesting
  BY Ingests
<1>2. [ingester[w] EXCEPT !.at = s] = [at |-> s, doc |-> ingester[w].doc]
  BY <1>1 DEF Ingesting
<1>3. [at |-> s, doc |-> ingester[w].doc] \in WorkerState
  BY <1>1 DEF Ingesting, WorkerState, Pipeline
<1> QED
  BY <1>1, <1>2, <1>3, Moved DEF IngesterGoTo, Ingesting

-------------------------------------------------------------------------------
(* Requests and creation: no job that was queued or running changes. *)

LEMMA AuthorStepPreserves ==
    ASSUME IInv, (\E d \in Document : CreateQueued(d)) \/ (\E a \in Author : AuthorStep(a))
    PROVE  IInv'
<1> USE DEF IInv
<1>1. ingester' = ingester
  BY DEF CreateQueued, AuthorStep, CreateFaq, InsertFaq, CountFaq, AbandonFaq
<1>2. /\ job' \in [Document -> JobStatus]
      /\ \A d \in Document : job'[d] = job[d] \/ (job[d] = "new" /\ job'[d] \in {"queued", "none"})
  BY DEF CreateQueued, AuthorStep, CreateFaq, InsertFaq, CountFaq, AbandonFaq, SetJob,
     IngestionTypeOK, JobStatus, indexVars
<1>3. /\ chunked \subseteq chunked' /\ counted \subseteq counted'
      /\ chunked' \in SUBSET Document /\ counted' \in SUBSET Document
  <2>1. CASE \E a \in Author : InsertFaq(a) \/ CountFaq(a)
    <3> PICK a \in Author : InsertFaq(a) \/ CountFaq(a)
      BY <2>1
    <3>1. author[a].doc \in Document
      BY DEF InsertFaq, CountFaq, AuthorAt, AuthorIdle, IngestionTypeOK
    <3> QED
      BY <3>1 DEF InsertFaq, CountFaq, IngestionTypeOK
  <2>2. CASE ~ \E a \in Author : InsertFaq(a) \/ CountFaq(a)
    BY <2>2 DEF CreateQueued, AuthorStep, CreateFaq, AbandonFaq, IngestionTypeOK, indexVars
  <2> QED
    BY <2>1, <2>2
<1> DEFINE AuthorType == [Author -> {AuthorIdle} \union [at : {"insert", "count"}, doc : Document]]
<1>4. author' \in AuthorType
  <2>1. CASE \E d \in Document : CreateQueued(d)
    BY <2>1 DEF CreateQueued, IngestionTypeOK
  <2>2. ASSUME NEW a \in Author, NEW d \in Document, CreateFaq(a, d) PROVE author' \in AuthorType
    BY <2>2 DEF CreateFaq, AuthorDo, IngestionTypeOK
  <2>3. ASSUME NEW a \in Author, InsertFaq(a) PROVE author' \in AuthorType
    <3>1. author[a] \in [at : {"insert", "count"}, doc : Document]
      BY <2>3 DEF InsertFaq, AuthorAt, AuthorIdle, IngestionTypeOK
    <3>2. [author[a] EXCEPT !.at = "count"] \in [at : {"insert", "count"}, doc : Document]
      BY <3>1
    <3> QED
      BY <2>3, <3>2 DEF InsertFaq, AuthorDo, IngestionTypeOK
  <2>4. ASSUME NEW a \in Author, CountFaq(a) \/ AbandonFaq(a) PROVE author' \in AuthorType
    BY <2>4 DEF CountFaq, AbandonFaq, AuthorDo, IngestionTypeOK
  <2> QED
    BY <2>1, <2>2, <2>3, <2>4 DEF AuthorStep
<1>5. IngestionTypeOK'
  <2>1. ingestCrashes' = ingestCrashes
    BY DEF CreateQueued, AuthorStep, CreateFaq, InsertFaq, CountFaq, AbandonFaq
  <2> QED
    BY <1>1, <1>2, <1>3, <1>4, <2>1 DEF IngestionTypeOK
<1>6. HeldIsQueued'
  <2> SUFFICES ASSUME NEW w \in Ingester, IngesterAt(w, "claim"), NEW d \in ingester[w].held
               PROVE  job'[d] = "queued"
    BY <1>1 DEF HeldIsQueued, IngesterAt
  <2>1. d \in Document
    BY Claims DEF Claiming
  <2> QED
    BY <1>2, <2>1 DEF HeldIsQueued
<1>7. WorkedOnIsRunning'
  <2> SUFFICES ASSUME NEW w \in Ingester, ingester[w].at \in Pipeline
               PROVE  job'[ingester[w].doc] = "running"
    BY <1>1 DEF WorkedOnIsRunning
  <2>1. ingester[w].doc \in Document
    BY Ingests DEF Ingesting
  <2> QED
    BY <1>2, <2>1 DEF WorkedOnIsRunning
<1>8. HeldByOne' /\ WorkedOnByOne'
  BY <1>1 DEF HeldByOne, WorkedOnByOne, IngesterAt
<1>9. DoneIsIndexed'
  BY <1>1, <1>3 DEF DoneIsIndexed, IngesterAt
<1>10. SucceededIsIndexed'
  BY <1>2, <1>3 DEF SucceededIsIndexed
<1> QED
  BY <1>5, <1>6, <1>7, <1>8, <1>9, <1>10

-------------------------------------------------------------------------------
(* Polling, stopping and starting again: nothing is held any more, or not yet. *)

LEMMA PassivePreserves ==
    ASSUME IInv, NEW w \in Ingester, NEW r \in WorkerState, IngesterDo(w, r),
           r.at \in {"poll", "stopped"} \/ (r.at = "claim" /\ r.held = {}),
           UNCHANGED <<job, indexVars, author>>, ingestCrashes' \in 0..MaxIngestCrashes
    PROVE  IInv'
<1> USE DEF IInv
<1>1. /\ ingester' \in [Ingester -> WorkerState] /\ ingester'[w] = r
      /\ \A v \in Ingester \ {w} : ingester'[v] = ingester[v]
  BY Moved
<1>2. IngestionTypeOK'
  BY <1>1 DEF IngestionTypeOK, WorkerState, indexVars
<1>3. r.at \notin Pipeline
  BY DEF Pipeline, IngestSteps
<1>4. HeldIsQueued' /\ HeldByOne'
  BY <1>1 DEF HeldIsQueued, HeldByOne, IngesterAt
<1>5. WorkedOnIsRunning' /\ WorkedOnByOne'
  BY <1>1, <1>3 DEF WorkedOnIsRunning, WorkedOnByOne
<1>6. DoneIsIndexed' /\ SucceededIsIndexed'
  BY <1>1 DEF DoneIsIndexed, SucceededIsIndexed, IngesterAt, indexVars
<1> QED
  BY <1>2, <1>4, <1>5, <1>6

LEMMA PollStopPreserves ==
    ASSUME IInv, NEW w \in Ingester, PollQueue(w) \/ StopIngester(w) \/ RestartIngester(w)
    PROVE  IInv'
<1>1. ingestCrashes' \in 0..MaxIngestCrashes
  BY IngestionAssumption DEF IInv, IngestionTypeOK, PollQueue, StopIngester, RestartIngester
<1>2. CASE PollQueue(w)
  <2>1. [at |-> "claim", todo |-> Queued, held |-> {}] \in WorkerState
    BY DEF Queued, WorkerState, Claiming
  <2> QED
    BY <1>1, <1>2, <2>1, PassivePreserves DEF PollQueue
<1>3. CASE StopIngester(w)
  BY <1>1, <1>3, PassivePreserves DEF StopIngester, WorkerState, Stopped
<1>4. CASE RestartIngester(w)
  BY <1>1, <1>4, PassivePreserves DEF RestartIngester, WorkerState, Polling
<1> QED
  BY <1>2, <1>3, <1>4

-------------------------------------------------------------------------------
(* The claim, row by row. *)

LEMMA SelectPreserves ==
    ASSUME IInv, NEW w \in Ingester, NEW d \in Document, SelectRow(w, d)
    PROVE  IInv'
<1> USE DEF IInv
<1>1. ingester[w] \in Claiming /\ IngesterAt(w, "claim")
  BY Claims DEF SelectRow
<1>2. CASE ingester' = [ingester EXCEPT ![w] = Stopped]
  <2>1. Stopped \in WorkerState /\ Stopped.at = "stopped" /\ IngesterDo(w, Stopped)
    BY <1>2 DEF WorkerState, Stopped, IngesterDo
  <2>2. UNCHANGED <<job, indexVars, author>> /\ ingestCrashes' \in 0..MaxIngestCrashes
    BY DEF SelectRow, IngestionTypeOK
  <2> QED
    BY <2>1, <2>2, PassivePreserves
<1>3. ASSUME NEW h \in SUBSET Document,
             IngesterDo(w, [at |-> "claim", todo |-> ingester[w].todo \ {d}, held |-> h]),
             \/ h = ingester[w].held
             \/ h = {d} /\ job[d] = "queued" /\ d \notin LockedByOthers(w)
      PROVE  IInv'
  <2> DEFINE r == [at |-> "claim", todo |-> ingester[w].todo \ {d}, held |-> h]
  <2>1. r \in WorkerState
    BY <1>1 DEF Claiming, WorkerState
  <2>2. /\ ingester' \in [Ingester -> WorkerState] /\ ingester'[w] = r
        /\ \A v \in Ingester \ {w} : ingester'[v] = ingester[v]
    BY <1>3, <2>1, Moved
  <2>3. UNCHANGED <<job, indexVars, author, ingestCrashes>>
    BY DEF SelectRow
  <2>4. IngestionTypeOK'
    BY <2>2, <2>3 DEF IngestionTypeOK, WorkerState, indexVars
  <2>5. HeldIsQueued'
    BY <1>1, <1>3, <2>2, <2>3 DEF HeldIsQueued, IngesterAt
  <2>6. HeldByOne'
    <3>1. \A v \in Ingester \ {w} : IngesterAt(v, "claim") => ingester[v].held \intersect h = {}
      BY <1>1, <1>3 DEF HeldByOne, LockedByOthers, IngesterAt
    <3> QED
      BY <2>2, <3>1 DEF HeldByOne, IngesterAt
  <2>7. WorkedOnIsRunning' /\ WorkedOnByOne' /\ DoneIsIndexed' /\ SucceededIsIndexed'
    BY <2>2, <2>3 DEF WorkedOnIsRunning, WorkedOnByOne, DoneIsIndexed, SucceededIsIndexed,
       Pipeline, IngestSteps, IngesterAt, indexVars
  <2> QED
    BY <2>4, <2>5, <2>6, <2>7
<1>4. [ingester[w] EXCEPT !.todo = @ \ {d}]
          = [at |-> "claim", todo |-> ingester[w].todo \ {d}, held |-> ingester[w].held]
  BY <1>1 DEF Claiming
<1>5. [ingester[w] EXCEPT !.todo = @ \ {d}, !.held = {d}]
          = [at |-> "claim", todo |-> ingester[w].todo \ {d}, held |-> {d}]
  <2> DEFINE q == [at |-> "claim", todo |-> ingester[w].todo \ {d}, held |-> ingester[w].held]
  <2>1. [ingester[w] EXCEPT !.todo = @ \ {d}, !.held = {d}]
            = [[ingester[w] EXCEPT !.todo = @ \ {d}] EXCEPT !.held = {d}]
    BY <1>1 DEF Claiming
  <2>2. [q EXCEPT !.held = {d}] = [at |-> "claim", todo |-> ingester[w].todo \ {d}, held |-> {d}]
    OBVIOUS
  <2> QED
    BY <1>4, <2>1, <2>2
<1>6. ingester[w].held \in SUBSET Document
  BY <1>1 DEF Claiming
<1>7. \/ IngesterDo(w, [at |-> "claim", todo |-> ingester[w].todo \ {d}, held |-> ingester[w].held])
      \/ /\ IngesterDo(w, [at |-> "claim", todo |-> ingester[w].todo \ {d}, held |-> {d}])
         /\ job[d] = "queued" /\ d \notin LockedByOthers(w)
      \/ ingester' = [ingester EXCEPT ![w] = Stopped]
  BY <1>4, <1>5 DEF SelectRow, IngesterDo
<1> QED
  BY <1>2, <1>3, <1>6, <1>7

LEMMA ClaimPreserves ==
    ASSUME IInv, NEW w \in Ingester, ClaimNextJob(w)
    PROVE  IInv'
<1> USE DEF IInv
<1>1. CASE IngesterDo(w, Polling) /\ UNCHANGED job
  <2>1. Polling \in WorkerState /\ Polling.at = "poll"
    BY DEF WorkerState, Polling
  <2>2. UNCHANGED <<job, indexVars, author>> /\ ingestCrashes' \in 0..MaxIngestCrashes
    BY <1>1 DEF ClaimNextJob, IngestionTypeOK
  <2> QED
    BY <1>1, <2>1, <2>2, PassivePreserves
<1>2. ASSUME NEW d \in ingester[w].held, SetJob(d, "running"),
             IngesterDo(w, [at |-> "delete", doc |-> d])
      PROVE  IInv'
  <2>1. d \in Document /\ job[d] = "queued"
    BY Claims DEF ClaimNextJob, Claiming, HeldIsQueued
  <2>2. [at |-> "delete", doc |-> d] \in WorkerState
    BY <2>1 DEF WorkerState, Ingesting, IngestSteps
  <2>3. /\ ingester' \in [Ingester -> WorkerState] /\ ingester'[w] = [at |-> "delete", doc |-> d]
        /\ \A v \in Ingester \ {w} : ingester'[v] = ingester[v]
    BY <1>2, <2>2, Moved
  <2>4. /\ job' \in [Document -> JobStatus] /\ job'[d] = "running"
        /\ \A e \in Document \ {d} : job'[e] = job[e]
    BY <1>2, <2>1 DEF SetJob, IngestionTypeOK, JobStatus
  <2>5. IngestionTypeOK'
    BY <2>3, <2>4 DEF IngestionTypeOK, WorkerState, ClaimNextJob, indexVars
  <2>6. HeldIsQueued'
    <3> SUFFICES ASSUME NEW v \in Ingester \ {w}, IngesterAt(v, "claim"), NEW e \in ingester[v].held
                 PROVE  job'[e] = "queued"
      BY <2>3 DEF HeldIsQueued, IngesterAt
    <3>1. e \in Document /\ e # d /\ job[e] = "queued"
      BY Claims DEF Claiming, HeldIsQueued, HeldByOne, ClaimNextJob, IngesterAt
    <3> QED
      BY <2>4, <3>1
  <2>7. HeldByOne'
    BY <2>3 DEF HeldByOne, IngesterAt
  <2>8. \A v \in Ingester \ {w} : ingester[v].at \in Pipeline =>
            ingester[v].doc \in Document /\ ingester[v].doc # d
    BY <2>1, Ingests DEF Ingesting, WorkedOnIsRunning
  <2>9. WorkedOnIsRunning' /\ WorkedOnByOne'
    BY <2>3, <2>4, <2>8 DEF WorkedOnIsRunning, WorkedOnByOne
  <2>10. DoneIsIndexed' /\ SucceededIsIndexed'
    BY <2>3, <2>4 DEF DoneIsIndexed, SucceededIsIndexed, IngesterAt, ClaimNextJob, indexVars
  <2> QED
    BY <2>5, <2>6, <2>7, <2>9, <2>10
<1> QED
  BY <1>1, <1>2 DEF ClaimNextJob

-------------------------------------------------------------------------------
(* The pipeline. *)

LEMMA PipelinePreserves ==
    ASSUME IInv, NEW w \in Ingester,
           DeleteChunks(w) \/ InsertChunks(w) \/ UpdateVersionChunks(w) \/ IngestError(w)
    PROVE  IInv'
<1> USE DEF IInv
<1> DEFINE d == ingester[w].doc
<1>1. ingester[w].at \in Pipeline
  BY DEF DeleteChunks, InsertChunks, UpdateVersionChunks, IngestError, IngesterAt, Pipeline, IngestSteps
<1>2. PICK s \in Pipeline : IngesterGoTo(w, s)
  BY DEF DeleteChunks, InsertChunks, UpdateVersionChunks, IngestError, Pipeline, IngestSteps
<1>3. /\ ingester' \in [Ingester -> WorkerState] /\ ingester'[w] = [at |-> s, doc |-> d]
      /\ d \in Document
      /\ \A v \in Ingester \ {w} : ingester'[v] = ingester[v]
  BY <1>1, <1>2, GoesOn
<1>4. job' = job /\ author' = author /\ ingestCrashes' = ingestCrashes
  BY DEF DeleteChunks, InsertChunks, UpdateVersionChunks, IngestError
<1>5. job[d] = "running" /\ \A v \in Ingester \ {w} : ingester[v].at \in Pipeline => ingester[v].doc # d
  BY <1>1 DEF WorkedOnIsRunning, WorkedOnByOne
<1>6. /\ chunked' \in SUBSET Document /\ counted' \in SUBSET Document
      /\ chunked \subseteq chunked' \union {d} /\ counted \subseteq counted'
  BY <1>3 DEF DeleteChunks, InsertChunks, UpdateVersionChunks, IngestError, IngestionTypeOK, indexVars
<1>7. /\ s \in {"count", "succeed"} => d \in chunked'
      /\ s = "succeed" => d \in counted'
  <2>1. ingester'[w].at = s
    BY <1>3
  <2>2. ingester' = [ingester EXCEPT ![w] = [ingester[w] EXCEPT !.at = s]]
    BY <1>2 DEF IngesterGoTo, IngesterDo
  <2>3. ingester[w] \in Ingesting
    BY <1>1, Ingests
  <2>4. CASE DeleteChunks(w)
    <3>1. ingester'[w].at = "insert"
      BY <2>3, <2>4 DEF DeleteChunks, IngesterGoTo, IngesterDo, IngestionTypeOK, Ingesting
    <3> QED
      BY <2>1, <3>1
  <2>5. CASE InsertChunks(w)
    <3>1. ingester'[w].at = "count"
      BY <2>3, <2>5 DEF InsertChunks, IngesterGoTo, IngesterDo, IngestionTypeOK, Ingesting
    <3> QED
      BY <2>1, <2>5, <3>1 DEF InsertChunks
  <2>6. CASE UpdateVersionChunks(w)
    BY <2>6 DEF UpdateVersionChunks, DoneIsIndexed, IngesterAt
  <2>7. CASE IngestError(w)
    <3>1. ingester'[w].at = "fail"
      BY <2>3, <2>7 DEF IngestError, IngesterGoTo, IngesterDo, IngestionTypeOK, Ingesting
    <3> QED
      BY <2>1, <3>1
  <2> QED
    BY <2>4, <2>5, <2>6, <2>7
<1>8. IngestionTypeOK'
  BY <1>3, <1>4, <1>6 DEF IngestionTypeOK, WorkerState
<1>9. HeldIsQueued' /\ HeldByOne'
  BY <1>3, <1>4 DEF HeldIsQueued, HeldByOne, IngesterAt, Pipeline, IngestSteps
<1>10. WorkedOnIsRunning' /\ WorkedOnByOne'
  BY <1>3, <1>4, <1>5 DEF WorkedOnIsRunning, WorkedOnByOne
<1>11. DoneIsIndexed'
  <2>1. \A v \in Ingester \ {w} : ingester[v].at \in {"count", "succeed"} => ingester[v].doc # d
    BY <1>5 DEF Pipeline, IngestSteps
  <2> QED
    BY <1>3, <1>6, <1>7, <2>1 DEF DoneIsIndexed, IngesterAt
<1>12. SucceededIsIndexed'
  BY <1>4, <1>5, <1>6 DEF SucceededIsIndexed
<1> QED
  BY <1>8, <1>9, <1>10, <1>11, <1>12

LEMMA SettlePreserves ==
    ASSUME IInv, NEW w \in Ingester, JobSucceeded(w) \/ JobFailed(w)
    PROVE  IInv'
<1> USE DEF IInv
<1> DEFINE d == ingester[w].doc
<1>1. ingester[w].at \in Pipeline
  BY DEF JobSucceeded, JobFailed, IngesterAt, Pipeline, IngestSteps
<1>2. d \in Document
  BY <1>1, Ingests DEF Ingesting
<1>3. job[d] = "running" /\ \A v \in Ingester \ {w} : ingester[v].at \in Pipeline => ingester[v].doc # d
  BY <1>1 DEF WorkedOnIsRunning, WorkedOnByOne
<1>4. /\ ingester' \in [Ingester -> WorkerState] /\ ingester'[w] = Polling
      /\ \A v \in Ingester \ {w} : ingester'[v] = ingester[v]
  BY Moved DEF JobSucceeded, JobFailed, WorkerState
<1>5. /\ job' \in [Document -> JobStatus]
      /\ job'[d] \in {"succeeded", "failed"}
      /\ job'[d] = "succeeded" => IngesterAt(w, "succeed")
      /\ \A e \in Document \ {d} : job'[e] = job[e]
  BY <1>2 DEF JobSucceeded, JobFailed, SetJob, IngestionTypeOK, JobStatus
<1>6. UNCHANGED <<indexVars, author, ingestCrashes>>
  BY DEF JobSucceeded, JobFailed
<1>7. IngestionTypeOK'
  BY <1>4, <1>5, <1>6 DEF IngestionTypeOK, WorkerState, indexVars
<1>8. HeldIsQueued'
  <2> SUFFICES ASSUME NEW v \in Ingester \ {w}, IngesterAt(v, "claim"), NEW e \in ingester[v].held
               PROVE  job'[e] = "queued"
    BY <1>4 DEF HeldIsQueued, IngesterAt, Polling
  <2>1. e \in Document /\ job[e] = "queued"
    BY Claims DEF Claiming, HeldIsQueued
  <2> QED
    BY <1>3, <1>5, <2>1
<1>9. HeldByOne'
  BY <1>4 DEF HeldByOne, IngesterAt, Polling
<1>10. WorkedOnIsRunning' /\ WorkedOnByOne'
  <2>1. \A v \in Ingester \ {w} : ingester[v].at \in Pipeline => ingester[v].doc \in Document
    BY Ingests DEF Ingesting
  <2> QED
    BY <1>3, <1>4, <1>5, <2>1 DEF WorkedOnIsRunning, WorkedOnByOne, Polling, Pipeline, IngestSteps
<1>11. DoneIsIndexed' /\ SucceededIsIndexed'
  BY <1>2, <1>4, <1>5, <1>6 DEF DoneIsIndexed, SucceededIsIndexed, IngesterAt, indexVars, Polling
<1> QED
  BY <1>7, <1>8, <1>9, <1>10, <1>11

-------------------------------------------------------------------------------
LEMMA NextPreserves == IInv /\ [IngestionNext]_ingestionVars => IInv'
<1> SUFFICES ASSUME IInv, [IngestionNext]_ingestionVars PROVE IInv'
  OBVIOUS
<1>1. CASE (\E d \in Document : CreateQueued(d)) \/ (\E a \in Author : AuthorStep(a))
  BY <1>1, AuthorStepPreserves
<1>2. ASSUME NEW w \in Ingester, IngesterStep(w) \/ StopIngester(w) PROVE IInv'
  BY <1>2, PollStopPreserves, SelectPreserves, ClaimPreserves, PipelinePreserves, SettlePreserves
     DEF IngesterStep
<1>3. CASE UNCHANGED ingestionVars
  BY <1>3 DEF ingestionVars, indexVars, IInv, IngestionTypeOK, HeldIsQueued, HeldByOne,
     WorkedOnIsRunning, WorkedOnByOne, DoneIsIndexed, SucceededIsIndexed, IngesterAt
<1> QED
  BY <1>1, <1>2, <1>3 DEF IngestionNext

THEOREM IngestionInvariant == IngestionSpec => []IInv
BY InitEstablishes, NextPreserves, PTL DEF IngestionSpec

\* Every reachable state has the types of the tables, requests and workers, for any
\* documents and workers (IngestionTypeOK).
THEOREM IngestionTypeCorrect == IngestionSpec => []IngestionTypeOK
<1>1. IInv => IngestionTypeOK
  BY DEF IInv
<1> QED
  BY <1>1, IngestionInvariant, PTL

\* Whatever claims, errors, crashes and restarts come in between, a job that is
\* reported as succeeded left its version searchable and counted
\* (knowledge-ingestion.worker.ts processNextJob).
THEOREM SuccessIsIndexed == IngestionSpec => []SucceededIsIndexed
<1>1. IInv => SucceededIsIndexed
  BY DEF IInv
<1> QED
  BY <1>1, IngestionInvariant, PTL

-------------------------------------------------------------------------------
(* Settings: whatever a list may still be shown is as new as what had been        *)
(* published when the list began.                                                 *)

Looking == {"generation", "lookup", "load"}

\* What is shown from the entries of generation g may be s: it is as new as the last
\* publication, if it is the generation in use, and as new as any list asks for.
FreshEnough(g, s) ==
    /\ g = generation => s.version >= published
    /\ \A a \in Admin :
          AdminAt(a, "lookup") /\ admin[a].key = g => s.version >= admin[a].since

AdminKnows(a) ==
    /\ admin[a].since <= published /\ admin[a].key <= generation
    /\ admin[a].at \notin Looking => admin[a].shown.version >= admin[a].since
    /\ AdminAt(a, "store") /\ admin[a].versioned => FreshEnough(admin[a].key, admin[a].shown)

SInv ==
    /\ SettingsTypeOK
    /\ published <= connection.version
    /\ \A a \in Admin : AdminKnows(a)
    /\ \A g \in Generation : cached[g] # NoEntry => g <= generation /\ FreshEnough(g, cached[g])

LEMMA SInit == SettingsInit => SInv
<1> SUFFICES ASSUME SettingsInit PROVE SInv
  OBVIOUS
<1>1. SettingsTypeOK
  BY SettingsAssumption DEF SettingsInit, SettingsTypeOK, ConnectionRow, Generation, NoEntry,
     AdminState
<1> QED
  BY <1>1 DEF SettingsInit, SInv, AdminKnows, AdminAt

\* A request moves to r while the cache and what was published stay.
LEMMA AdminMoves ==
    ASSUME SInv, NEW a \in Admin, NEW r \in AdminState, AdminDo(a, r),
           UNCHANGED <<generation, cached, published>>, lists' \in 0..MaxLists,
           connection' \in ConnectionRow, connection'.version >= connection.version,
           r.since <= published, r.key <= generation,
           r.at \notin Looking => r.shown.version >= r.since,
           r.at = "lookup" => r.key = generation,
           r.at = "store" => r.shown.version >= published
    PROVE  SInv'
<1> USE SettingsAssumption
<1>1. /\ admin' \in [Admin -> AdminState] /\ admin'[a] = r
      /\ \A b \in Admin \ {a} : admin'[b] = admin[b]
  BY DEF SInv, SettingsTypeOK, AdminDo
<1>2. SettingsTypeOK'
  BY <1>1 DEF SInv, SettingsTypeOK
<1>3. /\ published \in Nat /\ generation \in Nat /\ connection.version \in Nat
      /\ connection'.version \in Nat /\ published <= connection'.version
  BY DEF SInv, SettingsTypeOK, ConnectionRow, Generation
<1>4. ASSUME NEW g \in Nat, NEW s \in ConnectionRow, FreshEnough(g, s) PROVE FreshEnough(g, s)'
  <2>1. s.version \in Nat /\ r.since \in Nat
    BY DEF ConnectionRow, AdminState
  <2> QED
    BY <1>1, <1>3, <1>4, <2>1 DEF FreshEnough, AdminAt
<1>5. \A b \in Admin : admin[b].since \in Nat /\ admin[b].since <= published
  BY DEF SInv, AdminKnows, SettingsTypeOK, AdminState
<1>6. r.at = "store" => FreshEnough(r.key, r.shown)'
  <2>1. r.since \in Nat /\ r.shown.version \in Nat
    BY DEF AdminState, ConnectionRow
  <2> QED
    BY <1>1, <1>3, <1>5, <2>1 DEF FreshEnough, AdminAt
<1>7. ASSUME NEW b \in Admin PROVE AdminKnows(b)'
  <2>1. CASE b = a
    BY <1>1, <1>6, <2>1 DEF AdminKnows, AdminAt
  <2>2. CASE b # a
    <3>1. admin'[b] = admin[b] /\ AdminKnows(b)
      BY <1>1, <2>2 DEF SInv
    <3>2. admin[b].key \in Nat /\ admin[b].shown \in ConnectionRow
      BY DEF SInv, SettingsTypeOK, AdminState, Generation
    <3> QED
      BY <1>4, <3>1, <3>2 DEF AdminKnows, AdminAt
  <2> QED
    BY <2>1, <2>2
<1>8. (\A g \in Generation : cached[g] # NoEntry => g <= generation /\ FreshEnough(g, cached[g]))'
  BY <1>4 DEF SInv, SettingsTypeOK, Generation
<1> QED
  BY <1>2, <1>3, <1>7, <1>8 DEF SInv

\* What a request is, and its moves that leave what it remembers.
LEMMA AdminOf ==
    ASSUME SInv, NEW a \in Admin
    PROVE  /\ admin[a] \in AdminState /\ AdminKnows(a)
           /\ admin[a].since \in Nat /\ admin[a].key \in Nat /\ admin[a].shown \in ConnectionRow
           /\ published \in Nat /\ generation \in Nat /\ connection.version \in Nat
           /\ published <= connection.version /\ lists \in 0..MaxLists
<1>1. /\ admin[a] \in AdminState /\ AdminKnows(a)
      /\ published \in 0..MaxVersion /\ generation \in 0..MaxVersion
      /\ connection.version \in 0..MaxVersion
      /\ published <= connection.version /\ lists \in 0..MaxLists
  BY DEF SInv, SettingsTypeOK, Generation, ConnectionRow
<1>2. admin[a].since \in 0..MaxVersion /\ admin[a].key \in 0..MaxVersion
      /\ admin[a].shown \in ConnectionRow
  BY <1>1 DEF AdminState, Generation
<1> QED
  BY <1>1, <1>2

WriteSteps == {"rest", "check", "create", "update", "delete", "record", "publish", "refused"}

LEMMA AdminWrites ==
    ASSUME SInv, NEW a \in Admin, admin[a].at \in WriteSteps,
           NEW s \in WriteSteps, AdminGoTo(a, s) \/ AdminRest(a, admin[a].shown),
           connection' \in ConnectionRow, connection'.version >= connection.version,
           UNCHANGED <<generation, cached, published, lists>>
    PROVE  SInv'
<1> DEFINE r1 == [admin[a] EXCEPT !.at = s]
           r2 == [admin[a] EXCEPT !.at = "rest", !.key = 0, !.versioned = FALSE,
                                  !.shown = admin[a].shown]
<1>1. /\ r1 \in AdminState /\ r1.at = s /\ r1.since = admin[a].since
      /\ r1.key = admin[a].key /\ r1.shown = admin[a].shown
  BY AdminOf DEF AdminState, WriteSteps
<1>2. /\ r2 \in AdminState /\ r2.at = "rest" /\ r2.since = admin[a].since
      /\ r2.key = 0 /\ r2.shown = admin[a].shown
  <2>1. admin[a] \in AdminState /\ 0 \in Generation
    BY AdminOf, SettingsAssumption DEF Generation
  <2> QED
    BY <2>1 DEF AdminState
<1>3. AdminKnows(a) /\ admin[a].at \notin Looking /\ s \notin Looking /\ s # "store"
  BY AdminOf DEF WriteSteps, Looking
<1>4. AdminDo(a, r1) \/ AdminDo(a, r2)
  BY DEF AdminGoTo, AdminRest
<1> HIDE DEF r1, r2
<1>5. lists' \in 0..MaxLists /\ 0 <= generation
  BY AdminOf
<1>6. CASE AdminDo(a, r1)
  BY <1>1, <1>3, <1>5, <1>6, AdminMoves DEF AdminKnows, Looking
<1>7. CASE AdminDo(a, r2)
  BY <1>2, <1>3, <1>5, <1>7, AdminMoves DEF AdminKnows, Looking
<1> QED
  BY <1>4, <1>6, <1>7

\* A list goes on, from the generation to the load.
LEMMA AdminLooks ==
    ASSUME SInv, NEW a \in Admin, BeginList(a) \/ ReadGeneration(a) \/ LookUp(a) \/ Load(a)
    PROVE  SInv'
<1> DEFINE old == admin[a]
<1>1. /\ old \in AdminState /\ old.since <= published /\ old.key <= generation
      /\ old.since \in Nat /\ published \in Nat /\ generation \in Generation
      /\ connection \in ConnectionRow /\ connection.version \in Nat
      /\ published <= connection.version
  BY AdminOf DEF AdminKnows, SInv, SettingsTypeOK
<1>2. CASE BeginList(a)
  <2> DEFINE r == [old EXCEPT !.at = "generation", !.since = published]
  <2>1. r \in AdminState /\ r.at = "generation" /\ r.since = published /\ r.key = old.key
    BY <1>1 DEF AdminState, SInv, SettingsTypeOK
  <2>2. lists' \in 0..MaxLists
    BY <1>2, AdminOf, SettingsAssumption DEF BeginList
  <2>3. AdminDo(a, r) /\ UNCHANGED <<connection, generation, cached, published>>
    BY <1>2 DEF BeginList
  <2> HIDE DEF r, old
  <2> QED
    BY <1>1, <2>1, <2>2, <2>3, AdminMoves DEF Looking
<1>3. lists \in 0..MaxLists /\ (~ BeginList(a) => lists' = lists)
  BY AdminOf DEF ReadGeneration, LookUp, Load
<1>4. CASE ReadGeneration(a)
  <2> DEFINE r1 == [old EXCEPT !.at = "lookup", !.key = generation, !.versioned = TRUE]
             r2 == [old EXCEPT !.at = "load", !.versioned = FALSE]
  <2>1. r1 \in AdminState /\ r1.at = "lookup" /\ r1.since = old.since /\ r1.key = generation
    BY <1>1 DEF AdminState
  <2>2. r2 \in AdminState /\ r2.at = "load" /\ r2.since = old.since /\ r2.key = old.key
    BY <1>1 DEF AdminState
  <2>3. (AdminDo(a, r1) \/ AdminDo(a, r2)) /\ UNCHANGED <<connection, generation, cached, published, lists>>
    BY <1>4 DEF ReadGeneration
  <2> HIDE DEF r1, r2, old
  <2>4. CASE AdminDo(a, r1)
    BY <1>1, <1>3, <2>1, <2>3, <2>4, AdminMoves DEF Looking, Generation
  <2>5. CASE AdminDo(a, r2)
    BY <1>1, <1>3, <2>2, <2>3, <2>5, AdminMoves DEF Looking
  <2> QED
    BY <2>3, <2>4, <2>5
<1>5. CASE LookUp(a)
  <2> DEFINE s == cached[old.key]
             r1 == [old EXCEPT !.at = "rest", !.key = 0, !.versioned = FALSE, !.shown = s]
             r2 == [old EXCEPT !.at = "load"]
  <2>1. s \in ConnectionRow /\ old.key \in Generation /\ 0 \in Generation
    BY <1>1, SettingsAssumption DEF AdminState, SInv, SettingsTypeOK, Generation
  <2>2. r1 \in AdminState /\ r1.at = "rest" /\ r1.since = old.since /\ r1.key = 0 /\ r1.shown = s
    BY <1>1, <2>1 DEF AdminState
  <2>3. r2 \in AdminState /\ r2.at = "load" /\ r2.since = old.since /\ r2.key = old.key
    BY <1>1 DEF AdminState
  <2>4. s # NoEntry => s.version >= old.since
    BY <1>5, <2>1 DEF SInv, FreshEnough, LookUp, AdminAt
  <2>5. /\ (AdminDo(a, r1) /\ s # NoEntry) \/ AdminDo(a, r2)
        /\ UNCHANGED <<connection, generation, cached, published, lists>>
    BY <1>5 DEF LookUp, AdminRest, AdminGoTo
  <2>6. 0 <= generation
    BY <1>1 DEF Generation
  <2> HIDE DEF r1, r2, old, s
  <2>7. CASE AdminDo(a, r1) /\ s # NoEntry
    BY <1>1, <1>3, <2>2, <2>4, <2>5, <2>6, <2>7, AdminMoves
  <2>8. CASE AdminDo(a, r2)
    BY <1>1, <1>3, <2>3, <2>5, <2>8, AdminMoves DEF Looking
  <2> QED
    BY <2>5, <2>7, <2>8
<1>6. CASE Load(a)
  <2> DEFINE r == [old EXCEPT !.at = "store", !.shown = connection]
  <2>1. /\ r \in AdminState /\ r.at = "store" /\ r.since = old.since /\ r.key = old.key
        /\ r.shown = connection
    BY <1>1 DEF AdminState
  <2>2. AdminDo(a, r) /\ UNCHANGED <<connection, generation, cached, published, lists>>
    BY <1>6 DEF Load
  <2> HIDE DEF r, old
  <2> QED
    BY <1>1, <1>3, <2>1, <2>2, AdminMoves
<1> QED
  BY <1>2, <1>4, <1>5, <1>6

\* What is stored under a generation is fresh enough for those that may find it.
LEMMA AdminStores ==
    ASSUME SInv, NEW a \in Admin, Store(a)
    PROVE  SInv'
<1> DEFINE s == admin[a].shown
           k == admin[a].key
           r == [admin[a] EXCEPT !.at = "rest", !.key = 0, !.versioned = FALSE, !.shown = s]
<1>1. /\ admin[a] \in AdminState /\ AdminKnows(a) /\ 0 \in Generation /\ 0 <= generation
      /\ s \in ConnectionRow /\ k \in Generation /\ lists \in 0..MaxLists
  BY AdminOf, SettingsAssumption DEF AdminState, Generation
<1>2. r \in AdminState /\ r.at = "rest" /\ r.key = 0 /\ r.since = admin[a].since /\ r.shown = s
  BY <1>1 DEF AdminState
<1>3. AdminDo(a, r) /\ UNCHANGED <<connection, generation, published, lists>>
  BY DEF Store, AdminRest
<1>4. s.version >= r.since /\ r.since <= published
  BY <1>1, <1>2 DEF Store, AdminAt, AdminKnows, Looking
<1>5. \/ cached' = cached
      \/ FreshEnough(k, s) /\ k <= generation /\ cached' = [cached EXCEPT ![k] = s]
  BY <1>1 DEF Store, AdminKnows
<1> HIDE DEF r, s, k
<1>6. /\ admin' \in [Admin -> AdminState] /\ admin'[a] = r
      /\ \A b \in Admin \ {a} : admin'[b] = admin[b]
  BY <1>2, <1>3 DEF SInv, SettingsTypeOK, AdminDo
<1>7. cached' \in [Generation -> ConnectionRow]
  BY <1>1, <1>5 DEF SInv, SettingsTypeOK
<1>8. \A g, e : FreshEnough(g, e) => FreshEnough(g, e)'
  BY <1>2, <1>3, <1>6 DEF FreshEnough, AdminAt
<1>9. ASSUME NEW b \in Admin PROVE AdminKnows(b)'
  BY <1>2, <1>3, <1>4, <1>6, <1>8, <1>1 DEF AdminKnows, AdminAt, SInv
<1>10. (\A g \in Generation : cached[g] # NoEntry => g <= generation /\ FreshEnough(g, cached[g]))'
  BY <1>1, <1>3, <1>5, <1>8 DEF SInv, SettingsTypeOK
<1> QED
  BY <1>3, <1>6, <1>7, <1>9, <1>10 DEF SInv, SettingsTypeOK

\* An invalidation moves to a generation that nothing is cached for or headed for.
LEMMA AdminPublishes ==
    ASSUME SInv, NEW a \in Admin, Invalidate(a)
    PROVE  SInv'
<1> DEFINE r == [admin[a] EXCEPT !.at = "rest", !.key = 0, !.versioned = FALSE,
                                 !.shown = admin[a].shown]
<1>1. CASE UNCHANGED <<generation, published>>
  BY <1>1, AdminWrites, AdminOf DEF Invalidate, AdminAt, WriteSteps, SInv, SettingsTypeOK
<1>2. CASE generation < MaxVersion /\ generation' = generation + 1 /\ published' = connection.version
  <2>1. /\ admin[a] \in AdminState /\ AdminKnows(a) /\ 0 \in Generation /\ generation \in Nat
        /\ published \in Nat /\ published <= connection.version
        /\ connection.version \in 0..MaxVersion /\ admin[a].since \in Nat
        /\ admin[a].shown.version \in Nat
    <3>1. admin[a] \in AdminState /\ AdminKnows(a) /\ admin[a].since \in Nat
          /\ published \in Nat /\ published <= connection.version /\ generation \in Nat
          /\ admin[a].shown \in ConnectionRow
      BY AdminOf
    <3>2. connection \in ConnectionRow
      BY DEF SInv, SettingsTypeOK
    <3> QED
      BY <3>1, <3>2, SettingsAssumption DEF Generation, ConnectionRow
  <2>2. /\ r \in AdminState /\ r.at = "rest" /\ r.key = 0 /\ r.since = admin[a].since
        /\ r.shown = admin[a].shown
    BY <2>1 DEF AdminState
  <2>3. AdminDo(a, r) /\ UNCHANGED <<connection, cached, lists>>
    BY DEF Invalidate, AdminRest
  <2>4. r.shown.version >= r.since
    BY <2>2, <2>1 DEF Invalidate, AdminAt, AdminKnows, Looking
  <2> HIDE DEF r
  <2>5. /\ admin' \in [Admin -> AdminState] /\ admin'[a] = r
        /\ \A b \in Admin \ {a} : admin'[b] = admin[b]
    BY <2>2, <2>3 DEF SInv, SettingsTypeOK, AdminDo
  <2>6. \A g, e : g <= generation /\ g \in Nat /\ FreshEnough(g, e) => FreshEnough(g, e)'
    BY <1>2, <2>1, <2>2, <2>5 DEF FreshEnough, AdminAt
  <2>7. ASSUME NEW b \in Admin PROVE AdminKnows(b)'
    <3>1. /\ AdminKnows(b) /\ admin[b].key \in Nat /\ admin[b].since \in Nat
      BY AdminOf
    <3>2. CASE b = a
      BY <1>2, <2>1, <2>2, <2>4, <2>5, <3>2 DEF AdminKnows, AdminAt
    <3>3. CASE b # a
      BY <1>2, <2>1, <2>5, <2>6, <3>1, <3>3 DEF AdminKnows, AdminAt
    <3> QED
      BY <3>2, <3>3
  <2>8. (\A g \in Generation : cached[g] # NoEntry => g <= generation /\ FreshEnough(g, cached[g]))'
    BY <1>2, <2>1, <2>3, <2>6 DEF SInv, Generation
  <2>9. SettingsTypeOK'
    BY <1>2, <2>1, <2>3, <2>5, SettingsAssumption DEF SInv, SettingsTypeOK, Generation
  <2> QED
    BY <1>2, <2>1, <2>3, <2>7, <2>8, <2>9 DEF SInv
<1> QED
  BY <1>1, <1>2 DEF Invalidate

LEMMA SNext == SInv /\ [SettingsNext]_settingsVars => SInv'
<1> SUFFICES ASSUME SInv, [SettingsNext]_settingsVars PROVE SInv'
  OBVIOUS
<1>1. CASE UNCHANGED settingsVars
  BY <1>1 DEF settingsVars, SInv, SettingsTypeOK, AdminKnows, AdminAt, FreshEnough
<1>2. ASSUME NEW a \in Admin, AdminStep(a) PROVE SInv'
  <2>1. connection \in ConnectionRow /\ connection.version \in Nat
    BY AdminOf DEF SInv, SettingsTypeOK
  <2>2. ASSUME NEW deleted \in BOOLEAN, WriteConnection(deleted)
        PROVE  connection' \in ConnectionRow /\ connection'.version >= connection.version
    BY <2>1, <2>2, SettingsAssumption DEF WriteConnection, ConnectionRow
  <2>3. connection.version >= connection.version
    BY <2>1
  <2>4. CASE BeginList(a) \/ ReadGeneration(a) \/ LookUp(a) \/ Load(a)
    BY <2>4, AdminLooks
  <2>5. CASE Store(a)
    BY <2>5, AdminStores
  <2>6. CASE BeginConfigure(a) \/ CheckVersion(a) \/ BeginDisconnect(a) \/ BeginTest(a)
    BY <2>1, <2>3, <2>6, AdminWrites DEF BeginConfigure, CheckVersion, BeginDisconnect, BeginTest,
       AdminAt, WriteSteps
  <2>7. CASE Create(a) \/ Update(a) \/ Disconnect(a) \/ RecordTest(a)
    BY <2>1, <2>2, <2>3, <2>7, AdminWrites DEF Create, Update, Disconnect, RecordTest,
       AdminAt, WriteSteps
  <2>8. CASE Invalidate(a)
    BY <2>8, AdminPublishes
  <2>9. CASE Leave(a)
    <3> DEFINE r == [admin[a] EXCEPT !.at = "rest", !.key = 0, !.versioned = FALSE, !.since = 0]
    <3>1. /\ admin[a] \in AdminState /\ 0 \in Generation /\ 0 \in 0..MaxVersion
          /\ 0 <= generation /\ 0 <= published /\ lists \in 0..MaxLists
      BY AdminOf, SettingsAssumption DEF Generation
    <3>2. /\ r \in AdminState /\ r.at = "rest" /\ r.key = 0 /\ r.since = 0
          /\ r.shown = admin[a].shown
      BY <3>1 DEF AdminState
    <3>3. r.shown.version >= 0
      BY <3>2, AdminOf DEF ConnectionRow
    <3>4. AdminDo(a, r) /\ UNCHANGED <<connection, generation, cached, published, lists>>
      BY <2>9 DEF Leave
    <3> HIDE DEF r
    <3> QED
      BY <2>1, <2>3, <3>1, <3>2, <3>3, <3>4, AdminMoves
  <2> QED
    BY <1>2, <2>4, <2>5, <2>6, <2>7, <2>8, <2>9 DEF AdminStep
<1> QED
  BY <1>1, <1>2 DEF SettingsNext

LEMMA SettingsInvariant == SettingsSpec => []SInv
<1> QED
  BY SInit, SNext, PTL DEF SettingsSpec

\* The row, the cache and the requests keep their types, for any administrators and
\* bounds: no entry is filed under a generation that does not exist.
THEOREM SettingsTypeCorrect == SettingsSpec => []SettingsTypeOK
<1>1. SInv => SettingsTypeOK
  BY DEF SInv
<1> QED
  BY <1>1, SettingsInvariant, PTL

\* However many loads are under way when a change is published, no list that begins
\* after it is shown what there was before it.
THEOREM PublishedIsShown == SettingsSpec => []FreshAfterPublishing
<1>1. SInv => FreshAfterPublishing
  BY DEF SInv, AdminKnows, FreshAfterPublishing, AdminAt, Looking
<1> QED
  BY <1>1, SettingsInvariant, PTL
================================================================================
