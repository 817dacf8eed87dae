---------------------------- MODULE Organizations ----------------------------
(***************************************************************************)
(* The workspace of one organization (routers/organizations.py): members   *)
(* with a role, cohorts, and invites with a limited number of uses.  Each  *)
(* handler is one step here; OrganizationTx overlaps them.                 *)
(*                                                                         *)
(* db is the database: a row that does not exist has role "none", a cohort *)
(* membership that does not exist is "none", an invite that does not exist *)
(* is NoOffer.  Nothing is ever deleted, and nothing sets archived_at.     *)
(***************************************************************************)
EXTENDS Naturals, FiniteSets

CONSTANTS
    User, Cohort, Invite,
    NoCohort,        \* an invite to the organization alone
    MaxUses          \* bound on an invite's max_uses

ASSUME OrganizationAssumption == NoCohort \notin Cohort /\ MaxUses \in Nat

VARIABLES
    db,
    expired,         \* invites past their expires_at
    accepted         \* history: how often an invite was accepted

orgVars == <<db, expired, accepted>>

Role      == {"owner", "admin", "member"}
AdminRole == {"owner", "admin"}
Standing  == {"active", "revoked"}
LeftOut   == "unset"      \* a field the PATCH leaves out
NoOffer   == [role |-> "none", cohort |-> NoCohort, max |-> 0]
Offer     == [role : {"admin", "member"}, cohort : Cohort \cup {NoCohort}, max : 1..MaxUses]

Database ==
    [ role     : [User -> Role \cup {"none"}],
      status   : [User -> Standing],
      cohorts  : SUBSET Cohort,
      enrolled : [Cohort -> [User -> Standing \cup {"none"}]],
      offer    : [Invite -> Offer \cup {NoOffer}],
      uses     : [Invite -> 0..MaxUses],
      revoked  : SUBSET Invite ]

OrgTypeOK ==
    db \in Database /\ expired \subseteq Invite /\ accepted \in [Invite -> Nat]

EmptyDatabase ==
    [ role     |-> [u \in User |-> "none"],
      status   |-> [u \in User |-> "active"],
      cohorts  |-> {},
      enrolled |-> [c \in Cohort |-> [u \in User |-> "none"]],
      offer    |-> [i \in Invite |-> NoOffer],
      uses     |-> [i \in Invite |-> 0],
      revoked  |-> {} ]

OrgInit == db = EmptyDatabase /\ expired = {} /\ accepted = [i \in Invite |-> 0]

IsMember(u) == db.role[u] # "none" /\ db.status[u] = "active"
IsAdmin(u)  == IsMember(u) /\ db.role[u] \in AdminRole

-----------------------------------------------------------------------------
(* What each handler requires, and the database it leaves                  *)

MayCreate(u) == \A v \in User : db.role[v] = "none"

Created(u) ==
    [db EXCEPT !.role = [@ EXCEPT ![u] = "owner"], !.status = [@ EXCEPT ![u] = "active"]]

IsTransfer(u, role) == role = "owner" /\ db.role[u] # "owner"

\* a patches member u.
MayUpdateMember(a, u, role, status) ==
    /\ IsAdmin(a) /\ db.role[u] # "none"
    /\ status = "revoked" => db.role[u] # "owner" /\ role # "owner"
    /\ IsTransfer(u, role) => db.role[a] = "owner" /\ db.status[u] = "active"
    /\ db.role[u] = "owner" => role \in {LeftOut, "owner"}

\* Transferring makes the previous owner an admin.
RolesAfter(a, u, role) ==
    [v \in User |-> IF v = u /\ role # LeftOut THEN role
                    ELSE IF v = a /\ IsTransfer(u, role) THEN "admin" ELSE db.role[v]]

StatusesAfter(u, status) ==
    [v \in User |-> IF v = u /\ status # LeftOut THEN status ELSE db.status[v]]

\* Who is revoked leaves the cohorts.
EnrolmentsAfter(u, status) ==
    [c \in Cohort |-> [v \in User |->
        IF v = u /\ status = "revoked" /\ db.enrolled[c][v] = "active" THEN "revoked"
        ELSE db.enrolled[c][v]]]

\* Mistake: the previous owner stays one.
MemberUpdatedKeepingOwner(a, u, role, status) ==
    [db EXCEPT !.role = RolesAfter(u, u, role), !.status = StatusesAfter(u, status),
               !.enrolled = EnrolmentsAfter(u, status)]

MemberUpdated(a, u, role, status) ==
    [db EXCEPT !.role = RolesAfter(a, u, role), !.status = StatusesAfter(u, status),
               !.enrolled = EnrolmentsAfter(u, status)]

MayCreateCohort(a, c) == IsAdmin(a) /\ c \notin db.cohorts

CohortCreated(c) == [db EXCEPT !.cohorts = @ \cup {c}]

\* a changes u's status in cohort c, or moves u to another cohort.
MayUpdateCohortMember(a, c, u, target) ==
    /\ c \in db.cohorts /\ IsAdmin(a) /\ IsMember(u) /\ db.enrolled[c][u] # "none"
    /\ target \in db.cohorts \cup {NoCohort}

Enrolment(c, u, status) ==
    [x \in Cohort |-> [v \in User |-> IF x = c /\ v = u THEN status ELSE db.enrolled[x][v]]]

\* A move revokes the one enrolment and makes the other active.
Move(c, u, target) ==
    [x \in Cohort |-> [v \in User |->
        IF v = u /\ x \in {c, target} THEN IF x = c THEN "revoked" ELSE "active"
        ELSE db.enrolled[x][v]]]

CohortMemberUpdated(c, u, target, status) ==
    IF target \notin {NoCohort, c} THEN [db EXCEPT !.enrolled = Move(c, u, target)]
    ELSE IF status # LeftOut THEN [db EXCEPT !.enrolled = Enrolment(c, u, status)]
    ELSE db

MayInvite(a, i, offer) ==
    IsAdmin(a) /\ db.offer[i] = NoOffer /\ offer.cohort \in db.cohorts \cup {NoCohort}

Invited(i, offer) == [db EXCEPT !.offer = [@ EXCEPT ![i] = offer]]

MayRevokeInvite(a, i) == IsAdmin(a) /\ db.offer[i] # NoOffer

InviteRevoked(i) == [db EXCEPT !.revoked = @ \cup {i}]

MayAccept(u, i) ==
    /\ db.offer[i] # NoOffer /\ i \notin db.revoked /\ i \notin expired
    /\ db.uses[i] < db.offer[i].max

\* A member who was revoked comes back with the old role, or a better one.
RoleOnAccept(u, offer) ==
    IF db.role[u] = "none" \/ (db.role[u] = "member" /\ offer.role = "admin")
    THEN offer.role ELSE db.role[u]

Accepted(u, i) ==
    [db EXCEPT
       !.role = [@ EXCEPT ![u] = RoleOnAccept(u, db.offer[i])],
       !.status = [@ EXCEPT ![u] = "active"],
       !.enrolled = Enrolment(db.offer[i].cohort, u, "active"),
       !.uses = [@ EXCEPT ![i] = db.uses[i] + 1]]

-----------------------------------------------------------------------------
(* One request at a time                                                   *)

Keep(new) == db' = new /\ UNCHANGED <<expired, accepted>>

CreateOrganization(u) == MayCreate(u) /\ Keep(Created(u))

UpdateMember(a, u, role, status) ==
    MayUpdateMember(a, u, role, status) /\ Keep(MemberUpdated(a, u, role, status))

CreateCohort(a, c) == MayCreateCohort(a, c) /\ Keep(CohortCreated(c))

UpdateCohortMember(a, c, u, target, status) ==
    MayUpdateCohortMember(a, c, u, target) /\ Keep(CohortMemberUpdated(c, u, target, status))

CreateInvite(a, i, offer) == MayInvite(a, i, offer) /\ Keep(Invited(i, offer))

RevokeInvite(a, i) == MayRevokeInvite(a, i) /\ Keep(InviteRevoked(i))

AcceptInvite(u, i) ==
    /\ MayAccept(u, i)
    /\ db' = Accepted(u, i) /\ accepted' = [accepted EXCEPT ![i] = @ + 1]
    /\ UNCHANGED expired

Expire(i) ==
    /\ i \notin expired /\ db.offer[i] # NoOffer
    /\ expired' = expired \cup {i} /\ UNCHANGED <<db, accepted>>

OrgNext ==
    \/ \E u \in User : CreateOrganization(u)
    \/ \E a, u \in User, role \in Role \cup {LeftOut}, status \in Standing \cup {LeftOut} :
          UpdateMember(a, u, role, status)
    \/ \E a \in User, c \in Cohort : CreateCohort(a, c)
    \/ \E a, u \in User, c \in Cohort, target \in Cohort \cup {NoCohort},
          status \in Standing \cup {LeftOut} : UpdateCohortMember(a, c, u, target, status)
    \/ \E a \in User, i \in Invite, offer \in Offer : CreateInvite(a, i, offer)
    \/ \E a \in User, i \in Invite : RevokeInvite(a, i)
    \/ \E u \in User, i \in Invite : AcceptInvite(u, i)
    \/ \E i \in Invite : Expire(i)

OrgSpec == OrgInit /\ [][OrgNext]_orgVars

-----------------------------------------------------------------------------
(* Properties                                                              *)

Owners == {u \in User : db.role[u] = "owner"}

\* An organization has exactly one owner, who is active.
OneOwner ==
    (\E u \in User : db.role[u] # "none") =>
        \E u \in User : Owners = {u} /\ db.status[u] = "active"

\* Whoever is active in a cohort is active in the organization.
EnrolledIsMember ==
    \A c \in Cohort, u \in User : db.enrolled[c][u] = "active" => IsMember(u)

\* An invite was accepted as often as it counts, and never more than it allows.
UsesAreCounted ==
    \A i \in Invite : accepted[i] = db.uses[i] /\ db.uses[i] <= db.offer[i].max

OrgInv == OrgTypeOK /\ OneOwner /\ EnrolledIsMember /\ UsesAreCounted
=============================================================================
