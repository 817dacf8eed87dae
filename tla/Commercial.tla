------------------------------ MODULE Commercial ------------------------------
(***************************************************************************)
(* The commercial account of one user and the webhook of a billing         *)
(* provider (routers/billing.py, services/billing.py,                      *)
(* services/commercial.py).  The provider delivers each of its events any  *)
(* number of times, in any order, several at once.                         *)
(***************************************************************************)
EXTENDS Requests

CONSTANTS
    Event,           \* provider_event_id
    Subscription,    \* provider_subscription_id
    NoSubscription,
    Payload,         \* the contents the provider may give an event
    MaxTime          \* bound on occurred_at; 0 is a payload without one

Plan         == {"free", "trial", "pro", "admin"}
BillingState == {"none", "trialing", "active", "cancel_at_period_end", "expired", "refunded",
                 "payment_failed", "provider_unavailable", "cancelled"}
Feature      == {"basic", "premium"}

PayloadType ==
    [plan : Plan, state : BillingState, entitlements : SUBSET Feature,
     subscription : Subscription \cup {NoSubscription}, at : 0..MaxTime]

ASSUME CommercialAssumption ==
    NoSubscription \notin Subscription /\ MaxTime \in Nat /\ Payload \subseteq PayloadType

VARIABLES
    account,         \* the row of user_commercial_accounts, or NoAccount
    ledger,          \* billing_events: what became of each event
    billing,         \* the open transaction of a session
    contents,        \* what the provider says in each event, once it has happened
    applied,         \* history: how often an event changed the account
    current,         \* history: the event that changed it last
    billingRaced     \* history: an event was committed over another one that it
                     \* had not seen

billingVars == <<account, ledger, billing, contents, applied, current, billingRaced>>

NoAccount == [plan |-> "absent"]
NoEvent   == [plan |-> "unknown"]
Account   == [plan : Plan, state : BillingState, entitlements : SUBSET Feature,
              subscription : Subscription \cup {NoSubscription}, trialStarted : BOOLEAN]

EntitlementsForPlan(plan) == IF plan = "free" THEN {"basic"} ELSE Feature

FreshAccount ==
    [plan |-> "free", state |-> "none", entitlements |-> EntitlementsForPlan("free"),
     subscription |-> NoSubscription, trialStarted |-> FALSE]

GrantingState == {"trialing", "active", "cancel_at_period_end"}

\* Dates are not looked at: a trial that is over stays "trialing" until an event ends it.
ResolveEntitlements(a) ==
    IF a.plan # "admin" /\ a.state \notin GrantingState
    THEN EntitlementsForPlan("free")
    ELSE IF a.entitlements # {} THEN a.entitlements ELSE EntitlementsForPlan(a.plan)

BillingTransaction ==
    [op : {"event"}, event : Event, status : {"applied", "ignored"},
     seen : Account \cup {NoAccount}, new : Account, fresh : BOOLEAN]
    \cup [op : {"visit"}]

BillingTypeOK ==
    /\ account \in Account \cup {NoAccount}
    /\ ledger \in [Event -> {"none", "applied", "ignored"}]
    /\ billing \in [Session -> BillingTransaction \cup {NoTx}]
    /\ contents \in [Event -> Payload \cup {NoEvent}]
    /\ applied \in [Event -> Nat] /\ current \subseteq Event /\ billingRaced \in BOOLEAN

BillingInit ==
    /\ account = NoAccount
    /\ ledger = [e \in Event |-> "none"]
    /\ billing = [s \in Session |-> NoTx]
    /\ contents = [e \in Event |-> NoEvent]
    /\ applied = [e \in Event |-> 0] /\ current = {} /\ billingRaced = FALSE

Happens(e, p) ==
    /\ contents[e] = NoEvent /\ contents' = [contents EXCEPT ![e] = p]
    /\ UNCHANGED <<account, ledger, billing, applied, current, billingRaced>>

-----------------------------------------------------------------------------
(* apply_billing_event                                                     *)

Recorded(sub) ==
    {e \in Event : ledger[e] # "none" /\ contents[e].subscription = sub /\ contents[e].at # 0}

\* Mistake: an event is compared with the last one that was recorded, not the latest.
IsOlderThanCurrent(p) ==
    /\ p.at # 0 /\ p.subscription # NoSubscription
    /\ \E e \in current : contents[e].at > p.at /\ contents[e].subscription = p.subscription

\* Only events of the same subscription are compared, and only those with a date.
IsOutOfOrder(p) ==
    /\ p.at # 0 /\ p.subscription # NoSubscription
    /\ \E e \in Recorded(p.subscription) : contents[e].at > p.at

Loaded == IF account = NoAccount THEN FreshAccount ELSE account

AfterEvent(p) ==
    [plan |-> p.plan, state |-> p.state, subscription |-> p.subscription,
     entitlements |-> IF p.entitlements # {} THEN p.entitlements ELSE EntitlementsForPlan(p.plan),
     trialStarted |-> Loaded.trialStarted \/ p.plan = "trial"]

\* A repeated event answers "duplicate" and changes nothing.
Deliver(s, e) ==
    /\ billing[s] = NoTx /\ contents[e] # NoEvent /\ ledger[e] = "none"
    /\ LET late == IsOutOfOrder(contents[e]) IN
       billing' = [billing EXCEPT ![s] =
           [op |-> "event", event |-> e, status |-> IF late THEN "ignored" ELSE "applied",
            seen |-> account, new |-> IF late THEN Loaded ELSE AfterEvent(contents[e]),
            fresh |-> TRUE]]
    /\ UNCHANGED <<account, ledger, contents, applied, current, billingRaced>>

\* get_or_create_commercial_account: /commercial-state and every check of an entitlement.
Visit(s) ==
    /\ billing[s] = NoTx /\ account = NoAccount
    /\ billing' = [billing EXCEPT ![s] = [op |-> "visit"]]
    /\ UNCHANGED <<account, ledger, contents, applied, current, billingRaced>>

-----------------------------------------------------------------------------
(* COMMIT: the account and the event in one transaction.  There is one     *)
(* account per user and one row per event id, or the transaction fails.    *)

Insertable(t) ==
    /\ t.op = "event" => ledger[t.event] = "none"
    /\ t.op = "visit" \/ t.seen = NoAccount => account = NoAccount

Columns(seen, new) ==
    IF seen = NoAccount THEN new
    ELSE [c \in DOMAIN new |-> WrittenOver(account[c], seen[c], new[c])]

Finish(s) == billing' = [billing EXCEPT ![s] = NoTx]

CommitVisit(s) ==
    /\ billing[s].op = "visit" /\ Insertable(billing[s])
    /\ account' = FreshAccount /\ Finish(s)
    /\ UNCHANGED <<ledger, contents, applied, current, billingRaced>>

\* What the other open transactions have read is no longer so.
Stale(t) == IF t.op = "event" THEN [t EXCEPT !.fresh = FALSE] ELSE t

CommitEvent(s) ==
    LET t == billing[s] IN
    /\ t.op = "event" /\ Insertable(t)
    /\ account' = Columns(t.seen, t.new)
    /\ ledger' = [ledger EXCEPT ![t.event] = t.status]
    /\ applied' = [applied EXCEPT ![t.event] = IF t.status = "applied" THEN @ + 1 ELSE @]
    /\ current' = IF t.status = "applied" THEN {t.event} ELSE current
    /\ billingRaced' = (billingRaced \/ ~t.fresh)
    /\ billing' = [u \in Session |-> IF u = s THEN NoTx ELSE Stale(billing[u])]
    /\ UNCHANGED contents

Refuse(s) ==
    billing[s] # NoTx /\ Finish(s)
    /\ UNCHANGED <<account, ledger, contents, applied, current, billingRaced>>

BillingNext ==
    \/ \E e \in Event, p \in Payload : Happens(e, p)
    \/ \E s \in Session : Visit(s) \/ CommitVisit(s) \/ CommitEvent(s) \/ Refuse(s)
    \/ \E s \in Session, e \in Event : Deliver(s, e)

BillingSpec == BillingInit /\ [][BillingNext]_billingVars

-----------------------------------------------------------------------------
(* Properties                                                              *)

\* However often an event is delivered, at once or one after the other, it changes
\* the account at most once.
AppliedOnce == \A e \in Event : applied[e] <= 1

\* When the account follows a dated event of a subscription, none recorded is
\* later, unless two events of the user were handled at once.
NewestDecidesUnlessRaced ==
    \A c \in current, e \in Event :
        /\ ~billingRaced
        /\ contents[c].subscription # NoSubscription /\ contents[c].at # 0
        /\ ledger[e] # "none" /\ contents[e].subscription = contents[c].subscription
        => contents[e].at <= contents[c].at

\* A user has the premium features only when the event the account follows grants
\* them, unless two events were handled at once and each wrote what it changed.
PremiumIsPaidUnlessRaced ==
    account # NoAccount /\ ~billingRaced /\ "premium" \in ResolveEntitlements(account) =>
        \E c \in current :
            /\ contents[c].plan = "admin" \/ contents[c].state \in GrantingState
            /\ contents[c].plan # "free" \/ "premium" \in contents[c].entitlements

\* What an account may use is what the newest event says, and was granted by it,
\* unless two events were handled at once.
BillingIsSoundUnlessRaced == NewestDecidesUnlessRaced /\ PremiumIsPaidUnlessRaced
=============================================================================
