------------------------------ MODULE WebForms ------------------------------
(***************************************************************************)
(* The forms of the web client: ProfilePage, CareerPlanPage and            *)
(* SubscriptionPage, which are filled from a query of React Query, typed   *)
(* into, and saved by mutations whose answers invalidate the query.  A     *)
(* user has one form; the team's mode chooses among users on the page.     *)
(*                                                                         *)
(* A row is known by the number of writes of it, the last of which may have*)
(* removed it.  Of what a form holds only whose it is counts: the user who *)
(* was chosen when it was filled or, if it is blank, Nobody.               *)
(***************************************************************************)
EXTENDS Naturals, FiniteSets

CONSTANTS
    UserId, Nobody,
    MaxCalls,        \* bound: mutations
    MaxChanges       \* bound: writes of others, failing calls

ASSUME FormsAssumption == Nobody \notin UserId /\ {MaxCalls, MaxChanges} \subseteq Nat

VARIABLES
    page,            \* the page, and whose the session is: Nobody's in the team's mode
    chosen,          \* effectiveUserId
    form,
    rows,            \* what the API keeps of each user
    queries,         \* the cache of the page's query, by user
    calls,           \* the mutations
    changes,
    behindOf,        \* history: users whose row has changed since it was last read
                     \* without an answer that invalidates the query
    reloaded         \* history: the form was emptied by choosing the same user again

formVars == <<page, chosen, form, rows, queries, calls, changes, behindOf, reloaded>>

CallNo == 1..MaxCalls
NeverHad  == [n |-> 0, there |-> FALSE]
Unfetched == [row |-> NeverHad, known |-> FALSE, old |-> TRUE, failed |-> FALSE,
              fetch |-> "none", answer |-> NeverHad]
Unmade    == [kind |-> "none"]
Over      == [kind |-> "over"]

FormsInit ==
    /\ page \in [name : {"profile", "plan", "subscription"}, own : UserId \cup {Nobody}]
    /\ chosen = Nobody /\ form = Nobody
    /\ \E had \in SUBSET UserId : rows = [u \in UserId |-> [n |-> 0, there |-> u \in had]]
    /\ queries = [u \in UserId |-> Unfetched]
    /\ calls = [n \in CallNo |-> Unmade]
    /\ changes = 0 /\ behindOf = {} /\ reloaded = FALSE

On(name) == page.name = name
Trouble  == changes < MaxChanges /\ changes' = changes + 1

Made(n)    == calls[n].kind # "none"
Pending(n) == Made(n) /\ calls[n].kind # "over"

\* isPending of a mutation the open page knows of.
IsPending(kind) == \E n \in CallNo : Pending(n) /\ calls[n].kind = kind /\ calls[n].bound

HasRow(u) == queries[u].known /\ queries[u].row.there

-----------------------------------------------------------------------------
(* Choosing a user                                                         *)

\* A query that is shown is fetched if it is old or has never come.
Mounted(q) == IF q.old /\ q.fetch = "none" THEN [q EXCEPT !.fetch = "asked", !.failed = FALSE] ELSE q

\* Mistake: the plan's form is left as it is.
KeptForm(u) == form

\* handleLoad, or the first render: only the plan's page empties its form.
KeptFormOf(u) == IF On("plan") THEN Nobody ELSE form

\* The effect on the data fills the form whenever another object is shown, so not when
\* the same user is chosen again.  A pending mutation takes the options of the new render.
Choose(u) ==
    /\ page.own # Nobody => chosen = Nobody /\ u = page.own
    /\ chosen' = u
    /\ form' = IF u # chosen /\ HasRow(u) THEN u ELSE KeptFormOf(u)
    /\ reloaded' = (On("plan") /\ u = chosen /\ HasRow(u))
    /\ queries' = IF u = chosen THEN queries ELSE [queries EXCEPT ![u] = Mounted(@)]
    /\ calls' = [n \in CallNo |-> IF Pending(n) /\ calls[n].bound
                                THEN [calls[n] EXCEPT !.key = u] ELSE calls[n]]
    /\ UNCHANGED <<page, rows, changes, behindOf>>

\* Another page is opened; mutations and fetches go on.
LeavePage ==
    /\ chosen # Nobody /\ chosen' = Nobody /\ form' = Nobody /\ reloaded' = FALSE
    /\ calls' = [n \in CallNo |-> IF Pending(n) THEN [calls[n] EXCEPT !.bound = FALSE] ELSE calls[n]]
    /\ UNCHANGED <<page, rows, queries, changes, behindOf>>

-----------------------------------------------------------------------------
(* The query                                                               *)

FetchOnly == UNCHANGED <<page, chosen, rows, calls, changes>>

\* staleTime is over.
Ages(u) ==
    /\ queries[u].known /\ ~queries[u].old
    /\ queries' = [queries EXCEPT ![u].old = TRUE]
    /\ FetchOnly /\ UNCHANGED <<form, behindOf, reloaded>>

\* The window gets the focus.
Focus ==
    /\ chosen # Nobody /\ queries' = [queries EXCEPT ![chosen] = Mounted(@)] /\ queries' # queries
    /\ FetchOnly /\ UNCHANGED <<form, behindOf, reloaded>>

FetchReads(u) ==
    /\ queries[u].fetch = "asked"
    /\ queries' = [queries EXCEPT ![u].fetch = "read", ![u].answer = rows[u]]
    /\ behindOf' = behindOf \ {u}
    /\ FetchOnly /\ UNCHANGED <<form, reloaded>>

\* Only the plan's page looks at isError.
Broken(q) == [q EXCEPT !.fetch = "none", !.failed = On("plan"), !.answer = NeverHad]

\* No plan is null; no profile and no subscription are an error, which keeps the data.
FetchArrives(u) ==
    LET q == queries[u]  missing == ~q.answer.there /\ ~On("plan") IN
    /\ q.fetch = "read"
    /\ queries' = [queries EXCEPT ![u] =
          IF missing THEN Broken(@)
          ELSE [Unfetched EXCEPT !.row = q.answer, !.known = TRUE, !.old = FALSE]]
    /\ IF u = chosen /\ q.answer.there /\ (q.answer # q.row \/ ~q.known)
       THEN form' = u /\ reloaded' = FALSE ELSE UNCHANGED <<form, reloaded>>
    /\ FetchOnly /\ UNCHANGED behindOf

FetchFails(u) ==
    /\ queries[u].fetch # "none" /\ Trouble
    /\ queries' = [queries EXCEPT ![u] = Broken(@)]
    /\ UNCHANGED <<page, chosen, form, rows, calls, behindOf, reloaded>>

-----------------------------------------------------------------------------
(* Mutations                                                               *)

NextCall(n) == ~Made(n) /\ (n > 1 => Made(n - 1))

Mutation(kind, of, blind, switched) ==
    [ kind |-> kind, at |-> "sent", target |-> chosen, key |-> chosen, bound |-> TRUE,
      of |-> of, blind |-> blind, switched |-> switched, reloaded |-> reloaded ]

\* The buttons: save, switch off, an action of the plan, and the upload of a resume.
MayMutate(kind) ==
    /\ chosen # Nobody
    /\ CASE kind = "save"   -> ~IsPending("save")
                               /\ (On("plan") => queries[chosen].known /\ ~queries[chosen].failed)
         [] kind = "delete" -> On("subscription") /\ HasRow(chosen) /\ ~IsPending("delete")
         [] kind = "action" -> On("plan") /\ HasRow(chosen) /\ ~queries[chosen].failed
                               /\ ~IsPending("action")
         [] kind = "upload" -> On("profile") /\ ~IsPending("upload")

Mutate(n, kind) ==
    /\ NextCall(n) /\ MayMutate(kind)
    /\ calls' = [calls EXCEPT ![n] = Mutation(kind, form, ~HasRow(chosen), FALSE)]
    /\ UNCHANGED <<page, chosen, form, rows, queries, changes, behindOf, reloaded>>

\* The API executes a mutation for the user who was chosen when it was made.
Execute(n) ==
    /\ Pending(n) /\ calls[n].at = "sent"
    /\ calls' = [calls EXCEPT ![n].at = "executed"]
    /\ rows' = IF calls[n].kind = "upload" THEN rows
               ELSE [rows EXCEPT ![calls[n].target] =
                        [n |-> @.n + 1, there |-> calls[n].kind # "delete"]]
    /\ UNCHANGED <<page, chosen, form, queries, changes, behindOf, reloaded>>

\* invalidateQueries: a query that is shown is fetched again, and what is under way is
\* forgotten; another one is only marked, until what is under way arrives.
Invalidated(q, isShown) ==
    IF isShown THEN [q EXCEPT !.old = TRUE, !.fetch = "asked", !.answer = NeverHad]
    ELSE [q EXCEPT !.old = TRUE]

\* The mutation's onSuccess, of the last render.
AnswerCall(n) ==
    LET c == calls[n]  underWay == c.key # chosen /\ queries[c.key].fetch # "none" IN
    /\ Pending(n) /\ c.at = "executed" /\ c.kind # "upload"
    /\ calls' = [calls EXCEPT ![n] = Over]
    /\ queries' = [queries EXCEPT ![c.key] = Invalidated(@, c.key = chosen)]
    /\ behindOf' = IF c.key # c.target \/ underWay THEN behindOf \cup {c.target} ELSE behindOf
    /\ UNCHANGED <<page, chosen, form, rows, changes, reloaded>>

\* The skills of the resume are added to the form and saved, as the form was when the
\* button was pressed, for the user who is chosen now; without new skills, or when the
\* page is gone, nothing is.
AnswerUpload(n, m) ==
    LET c == calls[n] IN
    /\ Pending(n) /\ c.at = "executed" /\ c.kind = "upload"
    /\ \/ calls' = [calls EXCEPT ![n] = Over]
       \/ /\ c.bound /\ NextCall(m)
          /\ calls' = [k \in CallNo |->
                IF k = m THEN Mutation("save", c.of, c.blind \/ ~HasRow(chosen), chosen # c.target)
                ELSE IF k = n THEN Over
                ELSE IF Pending(k) /\ calls[k].kind = "save" THEN [calls[k] EXCEPT !.bound = FALSE]
                ELSE calls[k]]
    /\ UNCHANGED <<page, chosen, form, rows, queries, changes, behindOf, reloaded>>

\* A mutation fails, or its answer is lost.
CallIsLost(n) ==
    /\ Pending(n) /\ Trouble
    /\ calls' = [calls EXCEPT ![n] = Over]
    /\ behindOf' = IF calls[n].at = "executed" THEN behindOf \cup {calls[n].target} ELSE behindOf
    /\ UNCHANGED <<page, chosen, form, rows, queries, reloaded>>

\* The bot, another window or a job writes or removes a row.
Elsewhere(u) ==
    /\ Trouble
    /\ \E there \in BOOLEAN :
          /\ there \/ rows[u].there
          /\ rows' = [rows EXCEPT ![u] = [n |-> @.n + 1, there |-> there]]
    /\ behindOf' = behindOf \cup {u}
    /\ UNCHANGED <<page, chosen, form, queries, calls, reloaded>>

-----------------------------------------------------------------------------
FormsNext ==
    \/ \E u \in UserId : \/ Choose(u) \/ Ages(u) \/ FetchReads(u) \/ FetchArrives(u)
                         \/ FetchFails(u) \/ Elsewhere(u)
    \/ LeavePage \/ Focus
    \/ \E n \in CallNo : \/ \E kind \in {"save", "delete", "action", "upload"} : Mutate(n, kind)
                       \/ Execute(n) \/ AnswerCall(n) \/ CallIsLost(n)
                       \/ \E m \in CallNo : AnswerUpload(n, m)

FormsSpec == FormsInit /\ [][FormsNext]_formVars

-----------------------------------------------------------------------------
(* Properties                                                              *)

\* What is saved for a user is that user's form.  The plan's page never saves another's:
\* at most a blank form, before there is a plan or when the same user was chosen again.
\* On the other pages another's form is saved when the user had none to show, or when the
\* user was chosen while a resume of the other one was uploaded.
SavedIsOwn ==
    \A n \in CallNo :
        calls[n].kind = "save" /\ calls[n].of # calls[n].target =>
            IF On("plan") THEN calls[n].of = Nobody /\ (calls[n].blind \/ calls[n].reloaded)
            ELSE calls[n].blind \/ calls[n].switched

\* Data that counts as fresh is the row, once what was executed is answered, unless the
\* row was written elsewhere, an answer was lost, or it came after another user was
\* chosen, or the page left, and so invalidated what it should not, or in vain.
FreshIsCurrent ==
    \A u \in UserId :
        /\ queries[u].known /\ ~queries[u].old /\ queries[u].fetch = "none"
        /\ ~\E n \in CallNo : Pending(n) /\ calls[n].target = u
        /\ u \notin behindOf
        => queries[u].row = rows[u]

FormsAreSound == SavedIsOwn /\ FreshIsCurrent
=============================================================================
