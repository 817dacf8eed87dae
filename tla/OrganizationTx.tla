---------------------------- MODULE OrganizationTx ----------------------------
(***************************************************************************)
(* The handlers of Organizations as transactions: SELECTs without row      *)
(* locks, then one COMMIT that writes the changed columns and inserts the  *)
(* new rows over whatever other requests have committed since.             *)
(***************************************************************************)
EXTENDS Organizations, Requests

VARIABLES
    open,        \* the open transaction of a session
    raced        \* history: users and invites whose rows a transaction wrote
                 \* although they were no longer what it had read

orgTxVars == <<orgVars, open, raced>>

\* accepts is the invite that the transaction accepts, if it does.
Transaction == [op : {"write"}, seen : Database, new : Database, accepts : SUBSET Invite]

OrgTxTypeOK ==
    /\ OrgTypeOK
    /\ open \in [Session -> Transaction \cup {NoTx}]
    /\ raced \in [users : SUBSET User, invites : SUBSET Invite]

OrgTxInit ==
    OrgInit /\ open = [s \in Session |-> NoTx] /\ raced = [users |-> {}, invites |-> {}]

Load(s, new, accepts) ==
    /\ open[s] = NoTx
    /\ open' = [open EXCEPT ![s] =
                  [op |-> "write", seen |-> db, new |-> new, accepts |-> accepts]]
    /\ UNCHANGED <<orgVars, raced>>

\* Tokens are random: no two requests create the same invite.
NewToken(i) == \A s \in Session : open[s] # NoTx => open[s].new.offer[i] = NoOffer

Begin(s) ==
    \/ \E u \in User : MayCreate(u) /\ Load(s, Created(u), {})
    \/ \E a, u \in User, role \in Role \cup {LeftOut}, status \in Standing \cup {LeftOut} :
          MayUpdateMember(a, u, role, status) /\ Load(s, MemberUpdated(a, u, role, status), {})
    \/ \E a \in User, c \in Cohort : MayCreateCohort(a, c) /\ Load(s, CohortCreated(c), {})
    \/ \E a, u \in User, c \in Cohort, target \in Cohort \cup {NoCohort},
          status \in Standing \cup {LeftOut} :
          /\ MayUpdateCohortMember(a, c, u, target)
          /\ Load(s, CohortMemberUpdated(c, u, target, status), {})
    \/ \E a \in User, i \in Invite, offer \in Offer :
          MayInvite(a, i, offer) /\ NewToken(i) /\ Load(s, Invited(i, offer), {})
    \/ \E a \in User, i \in Invite : MayRevokeInvite(a, i) /\ Load(s, InviteRevoked(i), {})
    \/ \E u \in User, i \in Invite : MayAccept(u, i) /\ Load(s, Accepted(u, i), {i})

-----------------------------------------------------------------------------
(* COMMIT                                                                  *)

Changed(new, seen, stored) ==
    [x \in DOMAIN stored |-> WrittenOver(stored[x], seen[x], new[x])]

Merged(t) ==
    [ role     |-> Changed(t.new.role, t.seen.role, db.role),
      status   |-> Changed(t.new.status, t.seen.status, db.status),
      cohorts  |-> db.cohorts \cup (t.new.cohorts \ t.seen.cohorts),
      enrolled |-> [c \in Cohort |->
                      Changed(t.new.enrolled[c], t.seen.enrolled[c], db.enrolled[c])],
      offer    |-> Changed(t.new.offer, t.seen.offer, db.offer),
      uses     |-> Changed(t.new.uses, t.seen.uses, db.uses),
      revoked  |-> db.revoked \cup (t.new.revoked \ t.seen.revoked) ]

\* Unique constraints: (organization, user), (cohort, user), slugs.
NoDuplicate(t) ==
    /\ \A u \in User : t.seen.role[u] = "none" /\ t.new.role[u] # "none" => db.role[u] = "none"
    /\ \A c \in Cohort, u \in User :
          t.seen.enrolled[c][u] = "none" /\ t.new.enrolled[c][u] # "none"
              => db.enrolled[c][u] = "none"
    /\ (t.new.cohorts \ t.seen.cohorts) \cap db.cohorts = {}
    /\ (\A u \in User : t.seen.role[u] = "none") => (\A u \in User : db.role[u] = "none")

RowsOf(d, u)   == <<d.role[u], d.status[u], [c \in Cohort |-> d.enrolled[c][u]]>>
WritesUser(t, u) == RowsOf(t.new, u) # RowsOf(t.seen, u)

\* The users and invites whose rows t writes over those of another transaction.
OverwrittenBy(t) ==
    [ users   |-> {u \in User : WritesUser(t, u) /\ RowsOf(db, u) # RowsOf(t.seen, u)},
      invites |-> {i \in t.accepts : db.uses[i] # t.seen.uses[i]} ]

Commit(s) ==
    LET t == open[s] IN
    /\ t # NoTx /\ NoDuplicate(t)
    /\ db' = Merged(t)
    /\ accepted' = [i \in Invite |-> IF i \in t.accepts THEN accepted[i] + 1 ELSE accepted[i]]
    /\ raced' = [users |-> raced.users \cup OverwrittenBy(t).users,
                 invites |-> raced.invites \cup OverwrittenBy(t).invites]
    /\ open' = [open EXCEPT ![s] = NoTx]
    /\ UNCHANGED expired

\* A failed, refused or cancelled request leaves the database alone.
Rollback(s) ==
    open[s] # NoTx /\ open' = [open EXCEPT ![s] = NoTx] /\ UNCHANGED <<orgVars, raced>>

OrgTxNext ==
    \/ \E s \in Session : Begin(s) \/ Commit(s) \/ Rollback(s)
    \/ \E i \in Invite : Expire(i) /\ UNCHANGED <<open, raced>>

OrgTxSpec == OrgTxInit /\ [][OrgTxNext]_orgTxVars

-----------------------------------------------------------------------------
(* Properties                                                              *)

\* Two requests may leave an organization with two owners, with none, or with a
\* revoked one, but only when they wrote the membership of one user at once.
OwnerUnlessRaced == raced.users = {} => OneOwner

\* A user is active in a cohort of an organization that revoked them only when a
\* revocation and an acceptance, a move or a reinstatement of this user overlapped.
EnrolledUnlessRaced ==
    \A c \in Cohort, u \in User \ raced.users : db.enrolled[c][u] = "active" => IsMember(u)

\* An invite is accepted more often than it counts only when two acceptances of
\* it overlapped; and the count never passes the limit.
UsesUnlessRaced ==
    \A i \in Invite :
        /\ i \notin raced.invites => accepted[i] = db.uses[i]
        /\ db.uses[i] <= db.offer[i].max

\* One active owner, no cohort member whom the organization revoked and no acceptance
\* that an invite forgot, unless requests overlapped on the rows in question.
OrganizationIsSoundUnlessRaced == OwnerUnlessRaced /\ EnrolledUnlessRaced /\ UsesUnlessRaced
=============================================================================
