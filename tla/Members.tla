-------------------------------- MODULE Members --------------------------------
(***************************************************************************)
(* The members of an organization: role changes and removals, which look   *)
(* before they write.                                                      *)
(***************************************************************************)
EXTENDS Naturals, FiniteSets

CONSTANTS Member,        \* rows of the member table, over time
          Founder,       \* the row that createWithOwner inserts
          MemberRequest  \* requests of /api/members in flight at once

ASSUME MembersAssumption == Founder \in Member /\ IsFiniteSet(Member)

VARIABLES role,      \* role[m]; "new" before its row exists, "removed" after it
          memberReq  \* memberReq[p]: what the request does next and remembers

membersVars == <<role, memberReq>>

\* A viewer may change as little about members as a member.
Role == {"owner", "admin", "member"}
Owners == {m \in Member : role[m] = "owner"}
MayChangeMembers(r) == r \in {"owner", "admin"}
CanAssignRole(actorRole, r) ==
    /\ MayChangeMembers(actorRole)
    /\ r = "owner" => actorRole = "owner"

MemberIdle == [at |-> "idle"]

\* Going to change a member to role "to", "removed" among them, with the role of
\* the actor and of the member and the number of owners, as read.
Changing == [at : {"find", "count", "write"}, actor : Role, member : Member,
             to : Role \union {"removed"}, was : Role \union {"unread"},
             counted : 0..Cardinality(Member)]

MembersTypeOK ==
    /\ role \in [Member -> Role \union {"new", "removed"}]
    /\ memberReq \in [MemberRequest -> {MemberIdle} \union Changing]

\* createWithOwner: organization and owner in one transaction.
MembersInit ==
    /\ role = [m \in Member |-> IF m = Founder THEN "owner" ELSE "new"]
    /\ memberReq = [p \in MemberRequest |-> MemberIdle]

-------------------------------------------------------------------------------
RequestAt(p, step) == memberReq[p].at = step
RequestDo(p, r) == memberReq' = [memberReq EXCEPT ![p] = r]
RequestEnds(p) == RequestDo(p, MemberIdle)

\* Invitations are accepted through the authentication library.
AcceptInvitation(m) ==
    /\ role[m] = "new"
    /\ \E r \in {"admin", "member"} : role' = [role EXCEPT ![m] = r]
    /\ UNCHANGED memberReq

\* requirePermission reads the actor's role afresh, and the request keeps it.
BeginChange(p, a, m, to) ==
    /\ memberReq[p] = MemberIdle
    /\ role[a] \in Role
    /\ MayChangeMembers(role[a])
    /\ RequestDo(p, [at |-> "find", actor |-> role[a], member |-> m, to |-> to,
                     was |-> "unread", counted |-> 0])
    /\ UNCHANGED role

\* Only an owner makes owners; a removal is not an assignment.
FindMember(p) ==
    LET req == memberReq[p]
        was == role[req.member]
    IN  /\ RequestAt(p, "find")
        /\ IF was \in Role /\ (req.to \in Role => CanAssignRole(req.actor, req.to))
           THEN RequestDo(p, [req EXCEPT !.was = was,
                    !.at = IF was = "owner" /\ req.to # "owner" THEN "count" ELSE "write"])
           ELSE RequestEnds(p)
        /\ UNCHANGED role

\* Mutant: one owner is enough to let one go.
CountOwnersLoosely(p) ==
    LET n == Cardinality(Owners)
    IN  /\ RequestAt(p, "count")
        /\ IF n >= 1 THEN RequestDo(p, [memberReq[p] EXCEPT !.counted = n, !.at = "write"])
                     ELSE RequestEnds(p)
        /\ UNCHANGED role

CountOwners(p) ==
    LET n == Cardinality(Owners)
    IN  /\ RequestAt(p, "count")
        /\ IF n > 1 THEN RequestDo(p, [memberReq[p] EXCEPT !.counted = n, !.at = "write"])
                    ELSE RequestEnds(p)
        /\ UNCHANGED role

\* By id: a row that is gone is not found, whatever else changed since.
WriteMember(p) ==
    LET m == memberReq[p].member
    IN  /\ RequestAt(p, "write")
        /\ role' = IF role[m] \in Role THEN [role EXCEPT ![m] = memberReq[p].to] ELSE role
        /\ RequestEnds(p)

AbandonChange(p) ==
    /\ memberReq[p] # MemberIdle
    /\ RequestEnds(p)
    /\ UNCHANGED role

MembersNext ==
    \/ \E m \in Member : AcceptInvitation(m)
    \/ \E p \in MemberRequest :
          \/ \E a, m \in Member, to \in Role \union {"removed"} : BeginChange(p, a, m, to)
          \/ FindMember(p) \/ CountOwners(p) \/ WriteMember(p) \/ AbandonChange(p)

MembersSpec == MembersInit /\ [][MembersNext]_membersVars

-------------------------------------------------------------------------------
\* A request that others have overtaken: it counted more owners than are left, or
\* read of a member who has become the owner since.
Overtaken(p) ==
    /\ memberReq[p].at = "write"
    /\ \/ memberReq[p].counted > Cardinality(Owners)
       \/ memberReq[p].was # role[memberReq[p].member]

\* No owner is left, and no request of one who was is still under way.
Orphaned ==
    /\ Owners = {}
    /\ \A p \in MemberRequest : memberReq[p] # MemberIdle => memberReq[p].actor # "owner"

\* "The last owner cannot be demoted" (organization.service.ts): the organization
\* loses it only to a request that was overtaken, so only when requests overlap;
\* and then nobody makes himself owner by a detour (canAssignRole, removeMember).
OwnersAreKept ==
    [][/\ Owners # {} /\ Owners' = {} => \E p \in MemberRequest : Overtaken(p)
       /\ Orphaned => Owners' = {}]_membersVars
================================================================================
