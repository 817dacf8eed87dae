------------------------------- MODULE CareerTx -------------------------------
(***************************************************************************)
(* The handlers of Careers as transactions: SELECTs without row locks,     *)
(* then one COMMIT.  UPDATE and DELETE of a row that is gone, and INSERT    *)
(* under a plan that is gone, fail; nothing else does.                     *)
(***************************************************************************)
EXTENDS Careers

VARIABLES
    planTx,          \* the open transaction of a session
    planRaced        \* history: actions written over a version not seen; vacancies
                     \* and skills added beside one not seen, or typed in by the user

careerTxVars == <<careerVars, planTx, planRaced>>

PlanTransaction == [op : {"typed", "derived"}, seen : UserRows, new : UserRows, orphan : BOOLEAN]

CareerTxTypeOK ==
    /\ CareerTypeOK
    /\ planTx \in [Session -> PlanTransaction \cup {NoTx}]
    /\ planRaced \in [actions : SUBSET Action, vacancies : SUBSET Vacancy, skills : SUBSET Skill]

CareerTxInit ==
    /\ CareerInit /\ planTx = [s \in Session |-> NoTx]
    /\ planRaced = [actions |-> {}, vacancies |-> {}, skills |-> {}]

\* Rows are new: two requests never add the same one, nor one that another has loaded.
FreshHere ==
    {a \in Fresh(user) : \A s \in Session :
        planTx[s] # NoTx => a \notin Rows(planTx[s].seen) \cup Rows(planTx[s].new)}

LoadPlan(s, op, new) ==
    /\ planTx[s] = NoTx
    /\ planTx' = [planTx EXCEPT ![s] = [op |-> op, seen |-> user, new |-> new, orphan |-> FALSE]]
    /\ UNCHANGED <<careerVars, planRaced>>

BeginPlan(s) ==
    \/ user.plan /\ LoadPlan(s, "derived", PlanDeleted)
    \/ /\ user.plan
       /\ \E draft \in Draft, a \in FreshHere : LoadPlan(s, "typed", ActionAdded(a, draft))
    \/ \E a \in Rows(user), edit \in Edit : LoadPlan(s, "typed", ActionPatched(a, edit))
    \/ MayGenerate /\ \E recommended \in SUBSET Skill, replace \in BOOLEAN :
          \E place \in Places(recommended) :
             /\ \A k \in Lacking(user.actions, recommended) : place[k] \in FreshHere
             /\ LoadPlan(s, "derived", Generated(recommended, replace, place))
    \/ user.plan /\ \E v \in Vacancy :
          IF SavedAs(v) # {} THEN LoadPlan(s, "derived", VacancySaved(v, First(SavedAs(v))))
          ELSE \E a \in FreshHere : LoadPlan(s, "derived", VacancySaved(v, a))
    \/ \E a \in Rows(user), outcome \in Outcome :
          LoadPlan(s, "derived", OutcomeRecorded(a, outcome))

-----------------------------------------------------------------------------
(* COMMIT                                                                  *)

Added(t)   == Rows(t.new) \ Rows(t.seen)
Deleted(t) == Rows(t.seen) \ Rows(t.new)
Written(t) == {a \in Rows(t.seen) \cap Rows(t.new) : t.new.actions[a] # t.seen.actions[a]}

\* What t needs is still there: rows it updates, the plan it adds to.
PlanStands(t) ==
    /\ Written(t) \cup (t.new.events \ t.seen.events) \subseteq Rows(user) \cup Added(t)
    /\ Added(t) # {} => ~t.orphan

ColumnsOf(t, a) ==
    [c \in DOMAIN t.new.actions[a] |->
        WrittenOver(user.actions[a][c], t.seen.actions[a][c], t.new.actions[a][c])]

PlanMerged(t) ==
    [ profile |-> WrittenOver(user.profile, t.seen.profile, t.new.profile),
      plan    |-> IF t.seen.plan /\ ~t.new.plan /\ ~t.orphan THEN FALSE ELSE user.plan,
      actions |-> [a \in Action |->
                     IF a \in Deleted(t) THEN NoAction
                     ELSE IF a \in Added(t) THEN t.new.actions[a]
                     ELSE IF a \in Written(t) THEN ColumnsOf(t, a)
                     ELSE IF ~t.new.plan /\ t.seen.plan /\ ~t.orphan THEN NoAction
                     ELSE user.actions[a]],
      events  |-> {a \in user.events \cup (t.new.events \ t.seen.events) :
                     a \notin Deleted(t) /\ (t.seen.plan => t.new.plan \/ t.orphan)} ]

Unseen(t, b) == user.actions[b] # t.seen.actions[b]

VacanciesOf(t, a) ==
    {v \in Vacancy : /\ t.new.actions[a].vacancy = v
                     /\ t.op = "typed" \/ \E b \in SavedAs(v) \ {a} : Unseen(t, b)}

SkillsOf(t, a) ==
    {k \in Skill : /\ t.new.actions[a].skill = k
                   /\ \/ t.op = "typed"
                      \/ \E b \in Rows(user) \ {a} : user.actions[b].skill = k /\ Unseen(t, b)}

RacedBy(t) ==
    LET touched == Added(t) \cup Written(t) IN
    [ actions   |-> {a \in Written(t) : Unseen(t, a)},
      vacancies |-> UNION {VacanciesOf(t, a) : a \in touched},
      skills    |-> UNION {SkillsOf(t, a) : a \in touched} ]

\* Whoever has loaded a plan that is deleted adds to it in vain.
Orphaned(t) == IF t = NoTx THEN t ELSE [t EXCEPT !.orphan = TRUE]

CommitPlan(s) ==
    LET t       == planTx[s]
        deletes == t.seen.plan /\ ~t.new.plan /\ ~t.orphan
    IN
    /\ t # NoTx /\ PlanStands(t)
    /\ user' = PlanMerged(t)
    /\ planRaced' = [f \in DOMAIN planRaced |-> planRaced[f] \cup RacedBy(t)[f]]
    /\ planTx' = [u \in Session |-> IF u = s THEN NoTx
                                    ELSE IF deletes THEN Orphaned(planTx[u]) ELSE planTx[u]]
    /\ UNCHANGED <<subscribed, entitled, marketReady>>

RollbackPlan(s) ==
    planTx[s] # NoTx /\ planTx' = [planTx EXCEPT ![s] = NoTx] /\ UNCHANGED <<careerVars, planRaced>>

\* Profile and plan are upserted in a step: each is one row, which nothing here compares.
CareerTxNext ==
    \/ \E s \in Session : BeginPlan(s) \/ CommitPlan(s) \/ RollbackPlan(s)
    \/ SavePlan /\ UNCHANGED <<planTx, planRaced>>

CareerTxSpec == CareerTxInit /\ [][CareerTxNext]_careerTxVars

-----------------------------------------------------------------------------
(* Properties                                                              *)

\* An open action is dated as completed only when an outcome, or a PATCH, was
\* written over another change of that action.
OpenIsNotCompletedUnlessRaced ==
    \A a \in Rows(user) \ planRaced.actions :
        user.actions[a].status \in Open => ~user.actions[a].completed

\* A vacancy is saved twice only when two savings of it overlapped, or the user
\* made one of the actions by hand.
SavedOnceUnlessRaced ==
    \A v \in Vacancy \ planRaced.vacancies, a, b \in Rows(user) :
        /\ user.actions[a].kind = "saved_vacancy" /\ user.actions[a].vacancy = v
        /\ user.actions[b].kind = "saved_vacancy" /\ user.actions[b].vacancy = v
        => a = b

\* A skill has two open actions only when two generations overlapped, or the user
\* made or reopened one by hand.
SkillOnceUnlessRaced ==
    \A k \in Skill \ planRaced.skills, a, b \in Rows(user) :
        /\ user.actions[a].skill = k /\ user.actions[a].status \in Open
        /\ user.actions[b].skill = k /\ user.actions[b].status \in Open
        => a = b

\* What is wrong with a plan has a race, or the user, to blame: services that read it (the
\* advice, the progress, the analytics of a cohort) count its actions by these.
PlanIsSoundUnlessRaced ==
    OpenIsNotCompletedUnlessRaced /\ SavedOnceUnlessRaced /\ SkillOnceUnlessRaced
=============================================================================
