------------------------------ MODULE MarketNews ------------------------------
(***************************************************************************)
(* The news that the market data were updated: the data scheduler calls    *)
(* /notify-data-updated, the API publishes on a Redis channel, and every   *)
(* bot process that listens tells the subscribers (market_update_listener  *)
(* in main.py), at most once in 24 hours, by a key that expires.           *)
(***************************************************************************)
EXTENDS Naturals, Sequences, FiniteSets

CONSTANTS
    Bot,             \* bot processes: more than one during a deployment
    Subscriber,
    MaxNews          \* bound on messages waiting for a listener

ASSUME NewsAssumption == MaxNews \in Nat

VARIABLES
    listener,        \* what each process is doing, and the messages it has not read
    notified,        \* the key market_updated:last_notified is there
    told,            \* history: how often each subscriber was told since it was set
    newsRaced,       \* history: it was set by a process that had found it missing
                     \* before another one set it
    missed           \* history: subscribers whom a broadcast under this key left out

newsVars == <<listener, notified, told, newsRaced, missed>>

Listener ==
    [at : {"listening", "setting", "telling", "stopped"},
     inbox : 0..MaxNews, todo : SUBSET Subscriber]

Listening == [at |-> "listening", inbox |-> 0, todo |-> {}]
Stopped   == [at |-> "stopped", inbox |-> 0, todo |-> {}]

NewsTypeOK ==
    /\ listener \in [Bot -> Listener] /\ notified \in BOOLEAN
    /\ told \in [Subscriber -> Nat] /\ newsRaced \in BOOLEAN /\ missed \subseteq Subscriber

NewsInit ==
    /\ listener = [b \in Bot |-> Listening] /\ notified = FALSE
    /\ told = [u \in Subscriber |-> 0] /\ newsRaced = FALSE /\ missed = {}

Is(b, at) == listener[b].at = at

\* Pub/sub: whoever is not subscribed does not get it.
Publish ==
    /\ \E b \in Bot : listener[b].at # "stopped" /\ listener[b].inbox < MaxNews
    /\ listener' = [b \in Bot |->
           IF listener[b].at # "stopped" /\ listener[b].inbox < MaxNews
           THEN [listener[b] EXCEPT !.inbox = @ + 1] ELSE listener[b]]
    /\ UNCHANGED <<notified, told, newsRaced, missed>>

\* EXISTS the key?
Read(b) ==
    /\ Is(b, "listening") /\ listener[b].inbox > 0
    /\ listener' = [listener EXCEPT ![b].inbox = @ - 1, ![b].at = IF notified THEN @ ELSE "setting"]
    /\ UNCHANGED <<notified, told, newsRaced, missed>>

\* Mistake: the key is set when everybody has been told.
SetKeyLate(b) ==
    /\ Is(b, "setting")
    /\ listener' = [listener EXCEPT ![b].at = "telling", ![b].todo = Subscriber]
    /\ UNCHANGED <<notified, told, newsRaced, missed>>

\* SET the key, then ask the API for the subscribers, which may fail.
SetKey(b) ==
    /\ Is(b, "setting")
    /\ notified' = TRUE /\ newsRaced' = (newsRaced \/ notified)
    /\ \/ /\ listener' = [listener EXCEPT ![b].at = "telling", ![b].todo = Subscriber]
          /\ UNCHANGED missed
       \/ listener' = [listener EXCEPT ![b].at = "listening"] /\ missed' = Subscriber
    /\ UNCHANGED told

\* One message; if it fails the subscriber is passed over.
Tell(b, u) ==
    /\ Is(b, "telling") /\ u \in listener[b].todo
    /\ listener' = [listener EXCEPT ![b].todo = @ \ {u}]
    /\ \/ told' = [told EXCEPT ![u] = @ + 1] /\ UNCHANGED missed
       \/ missed' = missed \cup {u} /\ UNCHANGED told
    /\ UNCHANGED <<notified, newsRaced>>

Told(b) ==
    /\ Is(b, "telling") /\ listener[b].todo = {}
    /\ listener' = [listener EXCEPT ![b].at = "listening"]
    /\ UNCHANGED <<notified, told, newsRaced, missed>>

\* A day later; a broadcast takes less than a day.
KeyExpires ==
    /\ notified /\ \A b \in Bot : ~Is(b, "setting") /\ ~Is(b, "telling")
    /\ notified' = FALSE /\ newsRaced' = FALSE
    /\ told' = [u \in Subscriber |-> 0] /\ missed' = {}
    /\ UNCHANGED listener

\* The process ends, or Redis fails: the listener stops and is not started again
\* before the process is.
Stop(b) ==
    /\ ~Is(b, "stopped") /\ listener' = [listener EXCEPT ![b] = Stopped]
    /\ missed' = missed \cup listener[b].todo /\ UNCHANGED <<notified, told, newsRaced>>

Begin(b) ==
    /\ Is(b, "stopped") /\ listener' = [listener EXCEPT ![b] = Listening]
    /\ UNCHANGED <<notified, told, newsRaced, missed>>

NewsNext ==
    \/ Publish \/ KeyExpires
    \/ \E b \in Bot : Read(b) \/ SetKey(b) \/ Told(b) \/ Stop(b) \/ Begin(b)
    \/ \E b \in Bot, u \in Subscriber : Tell(b, u)

NewsSpec == NewsInit /\ [][NewsNext]_newsVars

-----------------------------------------------------------------------------
(* Properties                                                              *)

\* In the day that the key lasts nobody is told twice, unless two processes found it
\* missing at once.
ToldOnceUnlessRaced == newsRaced \/ \A u \in Subscriber : told[u] <= 1

\* When a broadcast is over everybody was told, or left out by a failure, for which
\* the key then keeps the news from everybody for a day.
ToldOrMissed ==
    notified /\ (\A b \in Bot : ~Is(b, "telling")) =>
        \A u \in Subscriber : told[u] >= 1 \/ u \in missed

NewsOnceADay == ToldOnceUnlessRaced /\ ToldOrMissed
=============================================================================
