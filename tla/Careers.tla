------------------------------- MODULE Careers -------------------------------
(***************************************************************************)
(* One user's way through the product: profile, career plan with its       *)
(* actions, saved vacancies and their outcomes, and the next best action   *)
(* the API advises (routers/users.py).  Each handler is one step here;     *)
(* CareerTx overlaps them.                                                 *)
(*                                                                         *)
(* An action is a number, its place in plan.actions, which are sorted by   *)
(* priority and id; NoAction is a row that does not exist.  events has the *)
(* actions that application_outcome_events has rows of.                    *)
(***************************************************************************)
EXTENDS Requests

CONSTANTS
    Action,          \* places in plan.actions, numbers
    Skill, NoSkill, Vacancy, NoVacancy,
    Draft,           \* what users post as an action of their own
    Edit,            \* what they patch one with
    Outcome          \* what they report of an application

Status      == {"planned", "in_progress", "done", "skipped"}
Open        == {"planned", "in_progress"}
Kind        == {"learning", "application", "portfolio", "networking", "saved_vacancy", "other"}
Application == {"saved", "applied", "interview", "offer", "rejected", "withdrawn"}
Unset       == "unset"         \* a column without value, or a field the PATCH leaves out

Row == [kind : Kind, status : Status, application : Application \cup {Unset},
        skill : Skill \cup {NoSkill}, vacancy : Vacancy \cup {NoVacancy},
        source : {"manual", "skill_gap"}, completed : BOOLEAN]

ASSUME CareerAssumption ==
    /\ Action \subseteq Nat /\ NoSkill \notin Skill /\ NoVacancy \notin Vacancy
    /\ Draft \subseteq [kind : Kind, status : Status, application : Application \cup {Unset},
                        skill : Skill \cup {NoSkill}, vacancy : Vacancy \cup {NoVacancy},
                        source : {"manual", "skill_gap"}]
    /\ Edit \subseteq [kind : Kind \cup {Unset}, status : Status \cup {Unset},
                       application : Application \cup {Unset}]
    /\ Outcome \subseteq Application

VARIABLES
    user,            \* profile, plan and actions of the user, as the tables hold them
    subscribed,      \* the weekly digest is on
    entitled,        \* the account has career_plan.generate_actions
    marketReady      \* the data store has loaded a dataset

careerVars == <<user, subscribed, entitled, marketReady>>

NoAction == [kind |-> "absent"]
Profile  == {"none", "partial", "complete"}

UserRows == [ profile : Profile, plan : BOOLEAN, actions : [Action -> Row \cup {NoAction}],
              events : SUBSET Action ]

CareerTypeOK ==
    /\ user \in UserRows
    /\ subscribed \in BOOLEAN /\ entitled \in BOOLEAN /\ marketReady \in BOOLEAN

CareerInit ==
    /\ user = [profile |-> "none", plan |-> FALSE, actions |-> [a \in Action |-> NoAction],
               events |-> {}]
    /\ subscribed = FALSE /\ entitled \in BOOLEAN /\ marketReady \in BOOLEAN

Rows(u)    == {a \in Action : u.actions[a] # NoAction}
First(ids) == CHOOSE a \in ids : \A b \in ids : a <= b
Fresh(u)   == Action \ Rows(u)

-----------------------------------------------------------------------------
(* What a handler leaves of the user's rows                                *)

RowPut(a, row)      == [user EXCEPT !.actions[a] = row]
RowRecorded(a, row) == [user EXCEPT !.actions[a] = row, !.events = @ \cup {a}]

ProfileSaved(profile)  == [user EXCEPT !.profile = profile]
PlanSaved              == [user EXCEPT !.plan = TRUE]

\* The cascade takes the actions and their outcome events.
PlanDeleted ==
    [user EXCEPT !.plan = FALSE, !.actions = [a \in Action |-> NoAction], !.events = {}]

RowOf(draft) ==
    [kind |-> draft.kind, status |-> draft.status, application |-> draft.application,
     skill |-> draft.skill, vacancy |-> draft.vacancy, source |-> draft.source,
     completed |-> draft.status = "done"]

ActionAdded(a, draft) == RowPut(a, RowOf(draft))

Patched(old, value) == IF value = Unset THEN old ELSE value

CompletedAfter(row, status) ==
    CASE status = Unset  -> row.completed
      [] status = "done" -> TRUE
      [] OTHER           -> FALSE

RowPatched(row, edit) ==
    [row EXCEPT !.kind = Patched(@, edit.kind), !.status = Patched(@, edit.status),
                !.application = Patched(@, edit.application),
                !.completed = CompletedAfter(row, edit.status)]

ActionPatched(a, edit) == RowPut(a, RowPatched(user.actions[a], edit))

\* The first skills of the analysis, fewer than the limit or as many.
Lacking(rows, recommended) ==
    {k \in recommended :
        ~ \E a \in Action : rows[a] # NoAction /\ rows[a].status \in Open /\ rows[a].skill = k}

Suggestion(k) ==
    [kind |-> "learning", status |-> "planned", application |-> Unset, skill |-> k,
     vacancy |-> NoVacancy, source |-> "skill_gap", completed |-> FALSE]

Replaceable(row) == row # NoAction /\ row.source = "skill_gap" /\ row.status \in Open

\* The skills to add are compared with plan.actions as it was loaded: an action that
\* replace_generated has deleted still counts.  place says which row each skill gets.
Generated(recommended, replace, place) ==
    LET kept == [a \in Action |-> IF replace /\ Replaceable(user.actions[a]) THEN NoAction
                                  ELSE user.actions[a]]
        new  == Lacking(user.actions, recommended)
    IN [user EXCEPT
          !.actions = [a \in Action |-> IF \E k \in new : place[k] = a
                                        THEN Suggestion(CHOOSE k \in new : place[k] = a)
                                        ELSE kept[a]],
          !.events = {a \in @ : kept[a] # NoAction}]

\* Distinct free rows for the skills to add.
Places(recommended) ==
    {place \in [Skill -> Action] :
        \A k \in Lacking(user.actions, recommended) :
            /\ user.actions[place[k]] = NoAction
            /\ \A j \in Lacking(user.actions, recommended) : place[j] = place[k] => j = k}

\* Mistake: an application that is over does not stand for its vacancy any more.
SavedAsOpen(v) ==
    {a \in Rows(user) : /\ user.actions[a].kind = "saved_vacancy" /\ user.actions[a].vacancy = v
                        /\ user.actions[a].status \in Open}

SavedAs(v) ==
    {a \in Rows(user) : user.actions[a].kind = "saved_vacancy" /\ user.actions[a].vacancy = v}

RowSaving(v) ==
    [kind |-> "saved_vacancy", status |-> "planned", application |-> "saved", skill |-> NoSkill,
     vacancy |-> v, source |-> "manual", completed |-> FALSE]

RowSavedAgain(row) == [row EXCEPT !.application = IF @ = Unset THEN "saved" ELSE @]

\* Saving a vacancy again keeps its status and records no event.
VacancySaved(v, a) ==
    IF SavedAs(v) # {}
    THEN LET b == First(SavedAs(v)) IN RowPut(b, RowSavedAgain(user.actions[b]))
    ELSE RowRecorded(a, RowSaving(v))

StatusAfter(row, outcome) ==
    IF outcome \in {"applied", "interview"} /\ row.status = "planned" THEN "in_progress"
    ELSE IF outcome = "offer" THEN "done"
    ELSE IF outcome \in {"rejected", "withdrawn"} THEN "skipped" ELSE row.status

RowAfter(row, outcome) ==
    [row EXCEPT !.application = outcome, !.status = StatusAfter(row, outcome),
                !.completed = @ \/ outcome \in {"offer", "rejected", "withdrawn"}]

OutcomeRecorded(a, outcome) == RowRecorded(a, RowAfter(user.actions[a], outcome))

-----------------------------------------------------------------------------
(* One request at a time                                                   *)

Put(new) == user' = new /\ UNCHANGED <<subscribed, entitled, marketReady>>

SaveProfile(profile) == Put(ProfileSaved(profile))
DeleteProfile        == user.profile # "none" /\ Put(ProfileSaved("none"))
SavePlan             == Put(PlanSaved)
DeletePlan           == user.plan /\ Put(PlanDeleted)

CreateAction(draft)  == user.plan /\ \E a \in Fresh(user) : Put(ActionAdded(a, draft))
PatchAction(a, edit) == a \in Rows(user) /\ Put(ActionPatched(a, edit))

MayGenerate == user.plan /\ entitled /\ user.profile # "none" /\ marketReady

GenerateActions(recommended, replace) ==
    /\ MayGenerate
    /\ \E place \in Places(recommended) : Put(Generated(recommended, replace, place))

SaveVacancy(v) ==
    /\ user.plan
    /\ IF SavedAs(v) # {} THEN Put(VacancySaved(v, First(SavedAs(v))))
       ELSE \E a \in Fresh(user) : Put(VacancySaved(v, a))

UpdateOutcome(a, outcome) == a \in Rows(user) /\ Put(OutcomeRecorded(a, outcome))

SetDigest(on) == subscribed' = on /\ UNCHANGED <<user, entitled, marketReady>>

\* Billing events change the entitlement, reloads the data.
Elsewhere ==
    /\ entitled' \in BOOLEAN /\ marketReady' \in BOOLEAN
    /\ UNCHANGED <<user, subscribed>>

CareerNext ==
    \/ \E profile \in {"partial", "complete"} : SaveProfile(profile)
    \/ DeleteProfile \/ SavePlan \/ DeletePlan
    \/ \E draft \in Draft : CreateAction(draft)
    \/ \E a \in Action, edit \in Edit : PatchAction(a, edit)
    \/ \E recommended \in SUBSET Skill, replace \in BOOLEAN : GenerateActions(recommended, replace)
    \/ \E v \in Vacancy : SaveVacancy(v)
    \/ \E a \in Action, outcome \in Outcome : UpdateOutcome(a, outcome)
    \/ \E on \in BOOLEAN : SetDigest(on)
    \/ Elsewhere

CareerSpec == CareerInit /\ [][CareerNext]_careerVars

-----------------------------------------------------------------------------
(* The next best action, as the number of its stage                        *)

OpenActions(u) ==
    {a \in Rows(u) : u.actions[a].kind # "saved_vacancy" /\ u.actions[a].status \in Open}
Saved(u)       == {a \in Rows(u) : u.actions[a].kind = "saved_vacancy"}

Stage == <<"create_profile", "complete_profile", "data_unavailable", "create_plan",
           "generate_plan_actions", "find_vacancy", "update_application_outcome",
           "enable_digest", "continue_plan">>

\* Mistake: a vacancy that was only saved counts as applied for.
AdviceIgnoringSaved(u, ready, digest) ==
    IF u.profile = "none" THEN 1
    ELSE IF u.profile = "partial" THEN 2
    ELSE IF ~ready THEN 3
    ELSE IF ~u.plan THEN 4
    ELSE IF Saved(u) = {} THEN 6
    ELSE IF OpenActions(u) = {} THEN 5
    ELSE IF u.actions[First(Saved(u))].application \in {Unset, "saved"} THEN 7
    ELSE IF ~digest THEN 8
    ELSE 9

Advice(u, ready, digest) ==
    IF u.profile = "none" THEN 1
    ELSE IF u.profile = "partial" THEN 2
    ELSE IF ~ready THEN 3
    ELSE IF ~u.plan THEN 4
    ELSE IF OpenActions(u) = {} THEN 5
    ELSE IF Saved(u) = {} THEN 6
    ELSE IF u.actions[First(Saved(u))].application \in {Unset, "saved"} THEN 7
    ELSE IF ~digest THEN 8
    ELSE 9

Advised  == Advice(user, marketReady, subscribed)

\* The request that an advice asks for, where there is a skill to recommend.
Follow ==
    \/ Advised = 1 /\ \E profile \in {"partial", "complete"} : SaveProfile(profile)
    \/ Advised = 2 /\ SaveProfile("complete")
    \/ Advised = 3 /\ Elsewhere /\ marketReady'
    \/ Advised = 4 /\ SavePlan
    \/ Advised = 5 /\ \E recommended \in (SUBSET Skill) \ {{}} : GenerateActions(recommended, FALSE)
    \/ Advised = 6 /\ \E v \in Vacancy : SaveVacancy(v)
    \/ Advised = 7 /\ \E outcome \in Outcome \ {"saved"} :
                         UpdateOutcome(First(Saved(user)), outcome)
    \/ Advised = 8 /\ SetDigest(TRUE)

-----------------------------------------------------------------------------
(* Properties                                                              *)

\* Whoever does what the next best action says gets another advice, of a later stage,
\* unless the skills recommended are all in the plan already, as saved vacancies.
AdviceAdvances ==
    [][Follow => \/ Advice(user, marketReady, subscribed)' > Advised
                 \/ Advised = 5 /\ \E a \in Saved(user) : user.actions[a].skill # NoSkill]_careerVars
=============================================================================
