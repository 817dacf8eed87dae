------------------------------ MODULE MCAccounts ------------------------------
(***************************************************************************)
(* Instances of CareerTx, Commercial, UserObjects and OrganizationTx for   *)
(* TLC: the requests of one user, one after the other and overlapping      *)
(* (from an empty plan), the billing events, the API keys and the resume,  *)
(* and an organization, which is new or has an owner and a user who has    *)
(* accepted an invite and was perhaps revoked.  The components share no    *)
(* state that is written here, so each part runs while the others are at   *)
(* rest.  MaxWrites bounds the overlapping commits to the plan, and        *)
(* MaxOrgWrites those to the organization.                                 *)
(***************************************************************************)
EXTENDS CareerTx, Commercial, UserObjects, OrganizationTx, TLC

CONSTANTS MaxWrites, MaxOrgWrites, k1, v1, b1, b2

VARIABLES part, writes

MyAction(kind, status, vacancy) ==
    [kind |-> kind, status |-> status, application |-> Unset, skill |-> k1,
     vacancy |-> vacancy, source |-> "manual"]

Drafts ==
    { MyAction("learning", status, NoVacancy) : status \in {"planned", "done"} }
    \cup { MyAction("saved_vacancy", "planned", v1) }

Edits ==
    { [kind |-> Unset, status |-> status, application |-> Unset] :
        status \in {"planned", "done"} }

Payloads ==
    { [plan |-> "pro", state |-> state, entitlements |-> {}, subscription |-> subscription,
       at |-> at] :
        state \in {"active", "refunded"}, subscription \in {b1, b2}, at \in 0..MaxTime }

EmptyPlan ==
    [profile |-> "complete", plan |-> TRUE, actions |-> [a \in Action |-> NoAction], events |-> {}]

Joined(owner, u, i, offer, standing) ==
    [EmptyDatabase EXCEPT
       !.role = [@ EXCEPT ![owner] = "owner", ![u] = offer.role], !.cohorts = Cohort,
       !.status[u] = standing,
       !.enrolled = [c \in Cohort |-> IF c = offer.cohort THEN [@[c] EXCEPT ![u] = standing]
                                      ELSE @[c]],
       !.offer[i] = offer, !.uses[i] = 1]

Organization ==
    \/ db = EmptyDatabase
    \/ \E owner, u \in User, i \in Invite, offer \in Offer, standing \in Standing :
          /\ owner # u /\ offer.max = MaxUses /\ offer.cohort # NoCohort
          /\ db = Joined(owner, u, i, offer, standing)

NoPlanTx == planTx = [s \in Session |-> NoTx]
NoOrgTx  == open = [s \in Session |-> NoTx] /\ raced = [users |-> {}, invites |-> {}]
Raced(vacancies, skills) == [actions |-> {}, vacancies |-> vacancies, skills |-> skills]

mcVars == <<careerTxVars, billingVars, objectVars, orgTxVars, part, writes>>

MCInit ==
    /\ BillingInit /\ ObjectsInit /\ NoPlanTx /\ NoOrgTx /\ writes = 0
    /\ \/ part = "sequence" /\ CareerInit /\ db = EmptyDatabase
          /\ planRaced = Raced(Vacancy, Skill)        \* here users may type anything in twice
       \/ part = "overlap" /\ db = EmptyDatabase
          /\ user = EmptyPlan /\ subscribed = FALSE /\ entitled = TRUE /\ marketReady = TRUE
          /\ planRaced = Raced({}, {})
       \/ part \in {"billing", "objects"} /\ db = EmptyDatabase
          /\ CareerTxInit /\ entitled = FALSE /\ marketReady = FALSE
       \/ part = "organization" /\ Organization
          /\ CareerTxInit /\ entitled = FALSE /\ marketReady = FALSE
    /\ expired = {} /\ accepted = db.uses

MCNext ==
    /\ UNCHANGED part
    /\ \/ part = "sequence" /\ CareerNext
          /\ UNCHANGED <<planTx, planRaced, billingVars, objectVars, orgTxVars, writes>>
       \/ part = "overlap" /\ writes < MaxWrites /\ CareerTxNext
          /\ writes' = writes + (IF user' # user THEN 1 ELSE 0)
          /\ UNCHANGED <<billingVars, objectVars, orgTxVars>>
       \/ part = "billing" /\ BillingNext
          /\ UNCHANGED <<careerTxVars, objectVars, orgTxVars, writes>>
       \/ part = "objects" /\ ObjectsNext
          /\ UNCHANGED <<careerTxVars, billingVars, orgTxVars, writes>>
       \/ part = "organization" /\ writes < MaxOrgWrites /\ OrgTxNext
          /\ writes' = writes + (IF db' # db THEN 1 ELSE 0)
          /\ UNCHANGED <<careerTxVars, billingVars, objectVars>>

MCSpec == MCInit /\ [][MCNext]_mcVars

\* Users and events share their model values, and so do cohorts and objects: no part
\* uses both, and TLC tries every permutation on every state.
Symmetry == Permutations(Session) \cup Permutations(User) \cup Permutations(Cohort)
=============================================================================
