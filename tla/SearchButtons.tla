---------------------------- MODULE SearchButtons ----------------------------
(***************************************************************************)
(* The buttons under the bot's search results and saved vacancies          *)
(* (handlers/search.py, services/callback_context.py).  What a button      *)
(* stands for is in Redis under a signed token, or, where Redis could not  *)
(* be used, in the memory of the bot, which keeps a user's last search.    *)
(* Both forget it after TTL ticks.                                         *)
(***************************************************************************)
EXTENDS Naturals, FiniteSets

CONSTANTS
    Person, Vacancy, Token,
    TTL, MaxTime,    \* MaxTime bounds the clock
    MaxCached        \* SEARCH_RESULT_CACHE_MAX_USERS

ASSUME ButtonsAssumption == TTL \in Nat \ {0} /\ MaxTime \in Nat /\ MaxCached \in Nat

VARIABLES
    clock,
    redis,           \* the store is connected and answers
    contexts,        \* what is stored under each token
    cache,           \* _SEARCH_RESULT_CACHE: the last search of a user
    plan,            \* who has a career plan
    saved,           \* the vacancies in it
    pressed,         \* a press being handled, for each user
    shownAt,         \* history: when a user last saw a vacancy, with its buttons
    refused          \* history: the last press of a token that was turned down

buttonVars == <<clock, redis, contexts, cache, plan, saved, pressed, shownAt, refused>>

Unused  == [what |-> "none"]
NoCache == [at |-> 0, vacancies |-> {}]
NoPress == [at |-> "none"]
Never   == MaxTime + TTL + 1

Context == [what : {"save", "outcome"}, user : Person, vacancy : Vacancy, until : Nat]
Press   == [at : {"save", "create", "again", "outcome"}, vacancy : Vacancy, when : 0..MaxTime]

ButtonsTypeOK ==
    /\ clock \in 0..MaxTime /\ redis \in BOOLEAN
    /\ contexts \in [Token -> Context \cup {Unused}]
    /\ cache \in [Person -> [at : 0..MaxTime, vacancies : SUBSET Vacancy]]
    /\ plan \subseteq Person /\ saved \in [Person -> SUBSET Vacancy]
    /\ pressed \in [Person -> Press \cup {NoPress}]
    /\ shownAt \in [Person -> [Vacancy -> 0..MaxTime \cup {Never}]]
    /\ refused \in [user : Person, token : Token, when : 0..MaxTime, redis : BOOLEAN] \cup {NoPress}

ButtonsInit ==
    /\ clock = 0 /\ redis \in BOOLEAN
    /\ contexts = [t \in Token |-> Unused] /\ cache = [u \in Person |-> NoCache]
    /\ plan \in SUBSET Person
    /\ saved = [u \in Person |-> {}]
    /\ pressed = [u \in Person |-> NoPress]
    /\ shownAt = [u \in Person |-> [v \in Vacancy |-> Never]] /\ refused = NoPress

-----------------------------------------------------------------------------
(* Buttons                                                                 *)

\* _prune_search_cache: the entries that are too old, then the oldest beyond the limit.
Prune(c) ==
    LET young  == {u \in Person : c[u].vacancies # {} /\ clock - c[u].at <= TTL}
        ranked == {u \in young : Cardinality({w \in young : c[w].at > c[u].at}) < MaxCached}
    IN {[u \in Person |-> IF u \in kept THEN c[u] ELSE NoCache] :
            kept \in {k \in SUBSET ranked :
                Cardinality(k) =
                    IF Cardinality(young) < MaxCached THEN Cardinality(young) ELSE MaxCached}}

Free == {t \in Token : contexts[t] = Unused}

\* create_callback_data for each of the vacancies; if Redis fails on the way, all of
\* the buttons carry the vacancy's id instead.
Keyboard(u, what, vacancies) ==
    \E tokens \in SUBSET Free :
        /\ IF redis THEN Cardinality(tokens) <= Cardinality(vacancies) ELSE tokens = {}
        /\ \E of \in [tokens -> vacancies] :
              /\ \A s, t \in tokens : of[s] = of[t] => s = t
              /\ contexts' = [t \in Token |->
                     IF t \in tokens THEN [what |-> what, user |-> u, vacancy |-> of[t],
                                             until |-> clock + TTL]
                     ELSE contexts[t]]

Search(u, result) ==
    /\ cache' \in Prune([cache EXCEPT ![u] = [at |-> clock, vacancies |-> result]])
    /\ Keyboard(u, "save", result)
    /\ shownAt' = [shownAt EXCEPT ![u] = [v \in Vacancy |-> IF v \in result THEN clock ELSE @[v]]]
    /\ UNCHANGED <<clock, redis, plan, saved, pressed, refused>>

-----------------------------------------------------------------------------
(* Presses                                                                 *)

\* Mistake: anybody may press the button.
ResolvesForAnybody(u, t) == redis /\ contexts[t] # Unused /\ clock < contexts[t].until

\* resolve: the token is known, the user's own, and not too old.
Resolves(u, t) ==
    redis /\ contexts[t] # Unused /\ contexts[t].user = u /\ clock < contexts[t].until

Handle(u, at, v) == pressed' = [pressed EXCEPT ![u] = [at |-> at, vacancy |-> v, when |-> clock]]

Others == <<clock, redis, cache, plan, saved, shownAt>>

PressToken(u, t) ==
    /\ pressed[u] = NoPress /\ contexts[t] # Unused
    /\ IF Resolves(u, t)
       THEN Handle(u, contexts[t].what, contexts[t].vacancy) /\ UNCHANGED <<contexts, refused>>
       ELSE /\ refused' = [user |-> u, token |-> t, when |-> clock, redis |-> redis]
            /\ UNCHANGED <<contexts, pressed>>
    /\ UNCHANGED Others

\* A button with the vacancy's id, from whatever message: the last search decides.
PressLegacySave(u, v) ==
    /\ pressed[u] = NoPress /\ v \in cache[u].vacancies /\ clock - cache[u].at <= TTL
    /\ Handle(u, "save", v)
    /\ UNCHANGED <<Others, contexts, refused>>

\* A button with the action's id never gets old; the API answers for one's own alone.
PressLegacyOutcome(u, v) ==
    /\ pressed[u] = NoPress /\ v \in saved[u] /\ Handle(u, "outcome", v)
    /\ UNCHANGED <<Others, contexts, refused>>

MoveOn(u, at) == pressed' = [pressed EXCEPT ![u].at = at]

\* The vacancy is saved, and buttons for its outcomes are shown.
Save(u) ==
    /\ pressed[u].at \in {"save", "again"} /\ u \in plan
    /\ saved' = [saved EXCEPT ![u] = @ \cup {pressed[u].vacancy}]
    /\ pressed' = [pressed EXCEPT ![u] = NoPress]
    /\ Keyboard(u, "outcome", {pressed[u].vacancy})
    /\ UNCHANGED <<clock, redis, cache, plan, shownAt, refused>>

NoPlanYet(u) ==
    /\ pressed[u].at = "save" /\ u \notin plan /\ MoveOn(u, "create")
    /\ UNCHANGED <<Others, contexts, refused>>

CreatePlan(u) ==
    /\ pressed[u].at = "create" /\ plan' = plan \cup {u} /\ MoveOn(u, "again")
    /\ UNCHANGED <<clock, redis, cache, saved, shownAt, contexts, refused>>

\* The outcome is reported, see UpdateOutcome of Careers; or the API fails, and the
\* bot says so and does not try again.
EndPress(u) ==
    /\ pressed[u] # NoPress /\ pressed' = [pressed EXCEPT ![u] = NoPress]
    /\ UNCHANGED <<Others, contexts, refused>>

-----------------------------------------------------------------------------

DeletePlan(u) ==
    /\ plan' = plan \ {u} /\ saved' = [saved EXCEPT ![u] = {}]
    /\ UNCHANGED <<clock, redis, cache, contexts, pressed, shownAt, refused>>

Tick ==
    /\ clock < MaxTime /\ clock' = clock + 1
    /\ UNCHANGED <<redis, contexts, cache, plan, saved, pressed, shownAt, refused>>

\* The memory is gone; whether Redis can be reached is found out at startup.
RestartBot ==
    /\ cache' = [u \in Person |-> NoCache] /\ pressed' = [u \in Person |-> NoPress]
    /\ redis' \in BOOLEAN
    /\ UNCHANGED <<clock, contexts, plan, saved, shownAt, refused>>

ButtonsNext ==
    \/ \E u \in Person, result \in (SUBSET Vacancy) \ {{}} : Search(u, result)
    \/ \E u \in Person, t \in Token : PressToken(u, t)
    \/ \E u \in Person, v \in Vacancy : PressLegacySave(u, v) \/ PressLegacyOutcome(u, v)
    \/ \E u \in Person :
          Save(u) \/ NoPlanYet(u) \/ CreatePlan(u) \/ EndPress(u) \/ DeletePlan(u)
    \/ Tick \/ RestartBot

ButtonsSpec == ButtonsInit /\ [][ButtonsNext]_buttonVars

-----------------------------------------------------------------------------
(* Properties                                                              *)

\* A press saves what a search has shown to this very user in the last TTL ticks,
\* whoever else saw the button, and however often the bot was restarted.
SavesWhatWasShown ==
    \A u \in Person : pressed[u].at \in {"save", "create", "again"} =>
        LET seen == shownAt[u][pressed[u].vacancy]
        IN seen # Never /\ (seen > pressed[u].when \/ pressed[u].when - seen <= TTL)

\* A token is turned down for its own user only when it is too old or Redis is away:
\* neither a restart nor another search takes it from the user.
RefusedForAReason ==
    refused # NoPress /\ refused.redis /\ contexts[refused.token].user = refused.user
        => refused.when >= contexts[refused.token].until

ButtonsKeepTheirWord == SavesWhatWasShown /\ RefusedForAReason
=============================================================================
