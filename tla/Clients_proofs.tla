---------------------------- MODULE Clients_proofs ----------------------------
(***************************************************************************)
(* Proofs about the clients of the API: the bot's news (MarketNews), the   *)
(* buttons under its search results (SearchButtons), its dialogue about    *)
(* the profile (BotDialogue), and the forms of the web client (WebForms);  *)
(* for every number of users, processes, updates and calls.                *)
(***************************************************************************)
EXTENDS MarketNews, SearchButtons, WebForms, BotDialogue, TLAPS

-----------------------------------------------------------------------------
(* The news                                                                *)

\* Who is to be told is known to a process that tells, after it has set the key.
TellingHasKey ==
    \A b \in Bot : IF Is(b, "telling") THEN notified ELSE listener[b].todo = {}

\* Under a key that is missing nothing was told, and no two processes raced for it.
NothingBeforeKey == ~notified => ~newsRaced /\ \A u \in Subscriber : told[u] = 0

\* Without a race one process tells, and nobody whom it has told.
OneTells ==
    ~newsRaced =>
        /\ \A b, c \in Bot : Is(b, "telling") /\ Is(c, "telling") => b = c
        /\ \A u \in Subscriber :
              told[u] <= 1 /\ \A b \in Bot : u \in listener[b].todo => told[u] = 0

\* Under the key everybody was told, was left out, or will be told.
NobodyForgotten ==
    notified => \A u \in Subscriber :
        told[u] >= 1 \/ u \in missed \/ \E b \in Bot : u \in listener[b].todo

NewsInv == NewsTypeOK /\ TellingHasKey /\ NothingBeforeKey /\ OneTells /\ NobodyForgotten

LEMMA MessageIsRead ==
    ASSUME NEW x \in Listener, x.inbox > 0, NEW next \in {"setting", "listening"},
           NEW y, y = [x EXCEPT !.inbox = @ - 1, !.at = next]
    PROVE  y \in Listener /\ y.todo = x.todo /\ y.at = next
<1>1. x.inbox \in 0..MaxNews /\ x.todo \subseteq Subscriber
  BY DEF Listener
<1>2. x.inbox - 1 \in 0..MaxNews
  BY <1>1, NewsAssumption
<1>3. y = [at |-> next, inbox |-> x.inbox - 1, todo |-> x.todo]
  BY DEF Listener
<1> QED BY <1>1, <1>2, <1>3 DEF Listener

LEMMA NewsStart == ASSUME NewsInit PROVE NewsInv
<1>1. /\ notified = FALSE /\ newsRaced = FALSE /\ missed = {}
      /\ told = [u \in Subscriber |-> 0] /\ listener = [b \in Bot |-> Listening]
      /\ Listening \in Listener /\ Listening.todo = {} /\ Listening.at = "listening"
  BY NewsAssumption DEF NewsInit, Listener, Listening
<1>2. NewsTypeOK
  BY <1>1 DEF NewsTypeOK
<1>3. \A b \in Bot : listener[b].todo = {} /\ ~Is(b, "telling")
  BY <1>1 DEF Is
<1> QED
  BY <1>1, <1>2, <1>3 DEF NewsInv, TellingHasKey, NothingBeforeKey, OneTells, NobodyForgotten

LEMMA NewsStep == ASSUME NewsInv, [NewsNext]_newsVars PROVE NewsInv'
<1> USE DEF NewsInv
<1>0. \A b \in Bot : listener[b] \in Listener
  BY DEF NewsTypeOK
<1>1. CASE Publish
  <2>1. /\ UNCHANGED <<notified, told, newsRaced, missed>>
        /\ \A b \in Bot : /\ listener'[b] \in Listener
                          /\ listener'[b].at = listener[b].at
                          /\ listener'[b].todo = listener[b].todo
    BY <1>0, <1>1, NewsAssumption DEF Publish, Listener
  <2>2. listener' = [b \in Bot |-> listener'[b]]
    BY <1>1 DEF Publish
  <2>3. NewsTypeOK'
    BY <2>1, <2>2 DEF NewsTypeOK
  <2> QED BY <2>1, <2>3 DEF TellingHasKey, NothingBeforeKey, OneTells, NobodyForgotten, Is
<1>2. CASE KeyExpires
  <2>1. NewsTypeOK'
    BY <1>2 DEF KeyExpires, NewsTypeOK
  <2> QED
    BY <1>2, <2>1 DEF KeyExpires, TellingHasKey, NothingBeforeKey, OneTells, NobodyForgotten, Is
<1>3. ASSUME NEW b \in Bot, Read(b) PROVE NewsInv'
  <2> DEFINE new == [listener[b] EXCEPT !.inbox = @ - 1, !.at = IF notified THEN @ ELSE "setting"]
  <2>2. listener[b].todo = {} /\ ~Is(b, "telling") /\ listener[b].inbox > 0
    BY <1>3 DEF Read, TellingHasKey, Is
  <2>0. /\ new \in Listener /\ new.todo = {}
        /\ new.at \in {"setting", "listening"}
    <3>1. listener[b] \in Listener /\ listener[b].at = "listening"
      BY <1>0, <1>3 DEF Read, Is
    <3>2. new = [listener[b] EXCEPT !.inbox = @ - 1, !.at = "listening"]
          \/ new = [listener[b] EXCEPT !.inbox = @ - 1, !.at = "setting"]
      BY <3>1
    <3> HIDE DEF new
    <3> QED BY <2>2, <3>1, <3>2, MessageIsRead
  <2>1. /\ UNCHANGED <<notified, told, newsRaced, missed>>
        /\ listener' = [listener EXCEPT ![b] = listener'[b]]
        /\ listener'[b] \in Listener /\ listener'[b].todo = {} /\ listener'[b].at # "telling"
    BY <1>3, <2>0 DEF Read, NewsTypeOK
  <2>3. \A c \in Bot \ {b} : listener'[c] = listener[c]
    BY <2>1 DEF NewsTypeOK
  <2>4. NewsTypeOK'
    BY <2>1 DEF NewsTypeOK
  <2> QED
    BY <2>1, <2>2, <2>3, <2>4 DEF TellingHasKey, NothingBeforeKey, OneTells, NobodyForgotten, Is
<1>4. ASSUME NEW b \in Bot, SetKey(b) PROVE NewsInv'
  <2>1. /\ Is(b, "setting") /\ notified' = TRUE /\ newsRaced' = (newsRaced \/ notified)
        /\ told' = told /\ listener[b].todo = {}
        /\ listener' = [listener EXCEPT ![b] = listener'[b]]
        /\ listener'[b] \in Listener
    BY <1>0, <1>4 DEF SetKey, Listener, NewsTypeOK, TellingHasKey, Is
  <2>2. \/ listener'[b].at = "telling" /\ listener'[b].todo = Subscriber /\ missed' = missed
        \/ listener'[b].at = "listening" /\ listener'[b].todo = {} /\ missed' = Subscriber
    BY <1>0, <1>4, <2>1 DEF SetKey, Listener, NewsTypeOK
  <2>3. \A c \in Bot \ {b} : listener'[c] = listener[c]
    BY <2>1 DEF NewsTypeOK
  <2>4. NewsTypeOK'
    BY <2>1, <2>2 DEF NewsTypeOK
  <2>5. TellingHasKey' /\ NothingBeforeKey' /\ NobodyForgotten'
    BY <2>1, <2>2, <2>3 DEF TellingHasKey, NothingBeforeKey, NobodyForgotten, Is
  <2>6. ~newsRaced' => /\ \A u \in Subscriber : told[u] = 0
                       /\ \A c \in Bot : ~Is(c, "telling")
    BY <2>1 DEF NothingBeforeKey, TellingHasKey, NewsTypeOK
  <2>7. OneTells'
    BY <2>1, <2>2, <2>3, <2>6 DEF OneTells, Is
  <2> QED BY <2>4, <2>5, <2>7
<1>5. ASSUME NEW b \in Bot, Told(b) PROVE NewsInv'
  <2>1. /\ UNCHANGED <<notified, told, newsRaced, missed>>
        /\ listener' = [listener EXCEPT ![b] = listener'[b]]
        /\ listener'[b] \in Listener /\ listener'[b].todo = {} /\ listener'[b].at = "listening"
        /\ listener[b].todo = {}
    BY <1>0, <1>5 DEF Told, Listener, NewsTypeOK, Is
  <2>2. \A c \in Bot \ {b} : listener'[c] = listener[c]
    BY <2>1 DEF NewsTypeOK
  <2>3. NewsTypeOK'
    BY <2>1 DEF NewsTypeOK
  <2> QED
    BY <2>1, <2>2, <2>3 DEF TellingHasKey, NothingBeforeKey, OneTells, NobodyForgotten, Is
<1>6. ASSUME NEW b \in Bot, Stop(b) \/ Begin(b) PROVE NewsInv'
  <2>1. /\ UNCHANGED <<notified, told, newsRaced>>
        /\ missed' \subseteq Subscriber
        /\ missed \cup listener[b].todo \subseteq missed'
    BY <1>0, <1>6 DEF Stop, Begin, TellingHasKey, Is, Listener, NewsTypeOK
  <2>2. listener' = [listener EXCEPT ![b] = listener'[b]] /\ listener'[b] \in {Listening, Stopped}
    BY <1>6 DEF Stop, Begin, NewsTypeOK
  <2>3. listener'[b] \in Listener /\ listener'[b].todo = {} /\ listener'[b].at # "telling"
    BY <2>2, NewsAssumption DEF Listening, Stopped, Listener
  <2>4. \A c \in Bot \ {b} : listener'[c] = listener[c]
    BY <2>2 DEF NewsTypeOK
  <2>5. NewsTypeOK'
    BY <2>1, <2>2, <2>3 DEF NewsTypeOK
  <2> QED
    BY <2>1, <2>3, <2>4, <2>5 DEF TellingHasKey, NothingBeforeKey, OneTells, NobodyForgotten, Is
<1>7. ASSUME NEW b \in Bot, NEW u \in Subscriber, Tell(b, u) PROVE NewsInv'
  <2>1. /\ Is(b, "telling") /\ u \in listener[b].todo /\ UNCHANGED <<notified, newsRaced>>
        /\ listener' = [listener EXCEPT ![b] = listener'[b]]
        /\ listener'[b] \in Listener /\ listener'[b].at = "telling"
        /\ listener'[b].todo = listener[b].todo \ {u}
        /\ told[u] \in Nat
    BY <1>0, <1>7 DEF Tell, Listener, NewsTypeOK, Is
  <2>2. /\ told' \in [Subscriber -> Nat] /\ missed' \subseteq Subscriber
        /\ missed \subseteq missed' /\ (told'[u] >= 1 \/ u \in missed')
        /\ told'[u] <= told[u] + 1
        /\ \A v \in Subscriber \ {u} : told'[v] = told[v]
    BY <1>7, <2>1 DEF Tell, NewsTypeOK
  <2>3. \A c \in Bot \ {b} : listener'[c] = listener[c]
    BY <2>1 DEF NewsTypeOK
  <2>4. NewsTypeOK'
    BY <2>1, <2>2 DEF NewsTypeOK
  <2>5. notified /\ TellingHasKey' /\ NothingBeforeKey'
    BY <2>1, <2>3 DEF TellingHasKey, NothingBeforeKey, Is
  <2>6. NobodyForgotten'
    BY <2>1, <2>2, <2>3 DEF NobodyForgotten, NewsTypeOK
  <2>7. \A c \in Bot : ~newsRaced => u \notin listener'[c].todo
    BY <2>1, <2>3 DEF OneTells, TellingHasKey, Is
  <2>8. ~newsRaced => told[u] = 0
    BY <2>1 DEF OneTells
  <2>9. OneTells'
    BY <2>1, <2>2, <2>3, <2>7, <2>8 DEF OneTells, Is
  <2> QED BY <2>4, <2>5, <2>6, <2>9
<1>8. CASE UNCHANGED newsVars
  BY <1>8 DEF newsVars, NewsTypeOK, TellingHasKey, NothingBeforeKey, OneTells,
              NobodyForgotten, Is
<1> QED BY <1>1, <1>2, <1>3, <1>4, <1>5, <1>6, <1>7, <1>8 DEF NewsNext

\* For any number of bot processes, subscribers and messages, and whatever stops or fails:
\* nobody is told twice under a key that one process set, and nobody is forgotten
\* (market_update_listener).
THEOREM NewsIsToldOnce == NewsSpec => []NewsOnceADay
<1>1. NewsInv => NewsOnceADay
  BY DEF NewsInv, NewsOnceADay, ToldOnceUnlessRaced, ToldOrMissed, OneTells, NobodyForgotten,
         TellingHasKey
<1> QED BY <1>1, NewsStart, NewsStep, PTL DEF NewsSpec
-----------------------------------------------------------------------------
(* The buttons                                                             *)

\* What a user saw was seen in the past.
ShownInThePast ==
    \A u \in Person, v \in Vacancy : shownAt[u][v] = Never \/ shownAt[u][v] <= clock

\* A button that saves was shown to its user, and gets old no later than the sight of it.
ContextsWereShown ==
    \A t \in Token : contexts[t] # Unused /\ contexts[t].what = "save" =>
        LET seen == shownAt[contexts[t].user][contexts[t].vacancy]
        IN seen # Never /\ contexts[t].until <= seen + TTL

\* So was what the bot remembers of a search.
CacheWasShown ==
    \A u \in Person : \A v \in cache[u].vacancies :
        shownAt[u][v] # Never /\ cache[u].at <= shownAt[u][v]

PressedInThePast == \A u \in Person : pressed[u] # NoPress => pressed[u].when <= clock

\* What was turned down had been given out; it is never given out again.
RefusedIsKnown == refused # NoPress => contexts[refused.token] # Unused

ButtonsInv ==
    /\ ButtonsTypeOK
    /\ ShownInThePast /\ ContextsWereShown /\ CacheWasShown
    /\ PressedInThePast /\ RefusedIsKnown
    /\ SavesWhatWasShown /\ RefusedForAReason

LEMMA ButtonsStart == ASSUME ButtonsInit PROVE ButtonsInv
<1>1. ButtonsTypeOK
  BY ButtonsAssumption DEF ButtonsInit, ButtonsTypeOK, NoCache
<1>2. ShownInThePast /\ CacheWasShown /\ PressedInThePast
  BY DEF ButtonsInit, ShownInThePast, CacheWasShown, NoCache, PressedInThePast
<1>3. ContextsWereShown /\ RefusedIsKnown /\ RefusedForAReason
  BY DEF ButtonsInit, ContextsWereShown, RefusedIsKnown, RefusedForAReason
<1>4. SavesWhatWasShown
  BY DEF ButtonsInit, SavesWhatWasShown, NoPress
<1> QED BY <1>1, <1>2, <1>3, <1>4 DEF ButtonsInv

LEMMA NotAContext == Unused \notin Context /\ NoPress \notin Press
BY DEF Unused, Context, NoPress, Press

\* A keyboard takes tokens nobody has, for the vacancies it is for.
LEMMA KeyboardAdds ==
    ASSUME ButtonsTypeOK, NEW u \in Person, NEW what \in {"save", "outcome"},
           NEW vacancies \in SUBSET Vacancy, Keyboard(u, what, vacancies)
    PROVE  /\ contexts' \in [Token -> Context \cup {Unused}]
           /\ \A t \in Token :
                 \/ contexts'[t] = contexts[t]
                 \/ /\ contexts[t] = Unused
                    /\ contexts'[t] # Unused /\ contexts'[t].what = what
                    /\ contexts'[t].user = u /\ contexts'[t].vacancy \in vacancies
                    /\ contexts'[t].until = clock + TTL
<1>1. PICK tokens \in SUBSET Free : \E of \in [tokens -> vacancies] :
          contexts' = [t \in Token |->
                 IF t \in tokens THEN [what |-> what, user |-> u, vacancy |-> of[t],
                                         until |-> clock + TTL]
                 ELSE contexts[t]]
  BY DEF Keyboard
<1>2. PICK of \in [tokens -> vacancies] :
          contexts' = [t \in Token |->
                 IF t \in tokens THEN [what |-> what, user |-> u, vacancy |-> of[t],
                                         until |-> clock + TTL]
                 ELSE contexts[t]]
  BY <1>1
<1>3. clock + TTL \in Nat
  BY ButtonsAssumption DEF ButtonsTypeOK
<1>4. ASSUME NEW t \in tokens
      PROVE  /\ t \in Token /\ contexts[t] = Unused /\ of[t] \in vacancies
             /\ [what |-> what, user |-> u, vacancy |-> of[t], until |-> clock + TTL] \in Context
  BY <1>3 DEF Free, Context
<1>5. contexts' \in [Token -> Context \cup {Unused}]
  BY <1>2, <1>4 DEF ButtonsTypeOK
<1>6. ASSUME NEW t \in Token
      PROVE  \/ contexts'[t] = contexts[t]
             \/ /\ contexts[t] = Unused
                /\ contexts'[t] # Unused /\ contexts'[t].what = what
                /\ contexts'[t].user = u /\ contexts'[t].vacancy \in vacancies
                /\ contexts'[t].until = clock + TTL
  <2>1. CASE t \in tokens
    BY <1>2, <1>4, <2>1, NotAContext
  <2>2. CASE t \notin tokens
    BY <1>2, <2>2
  <2> QED BY <2>1, <2>2
<1> QED BY <1>5, <1>6

\* Pruning forgets searches, and changes none.
LEMMA PruneForgets ==
    ASSUME NEW c \in [Person -> [at : 0..MaxTime, vacancies : SUBSET Vacancy]],
           NEW d \in Prune(c)
    PROVE  /\ d \in [Person -> [at : 0..MaxTime, vacancies : SUBSET Vacancy]]
           /\ \A u \in Person : d[u] = c[u] \/ d[u].vacancies = {}
<1>1. PICK kept : d = [u \in Person |-> IF u \in kept THEN c[u] ELSE NoCache]
  BY DEF Prune
<1>2. NoCache \in [at : 0..MaxTime, vacancies : SUBSET Vacancy] /\ NoCache.vacancies = {}
  BY ButtonsAssumption DEF NoCache
<1> QED BY <1>1, <1>2

\* A step that shows nothing new: the contexts that are there stay, and what is remembered
\* of searches is at most forgotten.
ShowsNothingNew ==
    /\ shownAt' = shownAt /\ clock <= clock'
    /\ \A u \in Person : cache'[u] = cache[u] \/ cache'[u].vacancies = {}
    /\ \A t \in Token :
          \/ contexts'[t] = contexts[t]
          \/ /\ contexts[t] = Unused
             /\ contexts'[t] # Unused /\ contexts'[t].what = "outcome"

LEMMA NothingNewShown ==
    ASSUME ButtonsInv, ButtonsTypeOK', ShowsNothingNew
    PROVE  ShownInThePast' /\ ContextsWereShown' /\ CacheWasShown'
<1>1. ShownInThePast'
  BY ButtonsAssumption DEF ShowsNothingNew, ButtonsInv, ShownInThePast, Never, ButtonsTypeOK
<1>2. ContextsWereShown'
  BY DEF ShowsNothingNew, ButtonsInv, ContextsWereShown, Never
<1>3. CacheWasShown'
  BY DEF ShowsNothingNew, ButtonsInv, CacheWasShown, Never
<1> QED BY <1>1, <1>2, <1>3

LEMMA SearchStep ==
    ASSUME ButtonsInv, NEW u \in Person, NEW result \in (SUBSET Vacancy) \ {{}}, Search(u, result)
    PROVE  ButtonsInv'
<1> USE DEF ButtonsInv
<1> DEFINE c == [cache EXCEPT ![u] = [at |-> clock, vacancies |-> result]]
<1>1. /\ cache' \in Prune(c) /\ Keyboard(u, "save", result)
      /\ shownAt' = [shownAt EXCEPT ![u] = [v \in Vacancy |-> IF v \in result THEN clock ELSE @[v]]]
      /\ UNCHANGED <<clock, redis, plan, saved, pressed, refused>>
  BY DEF Search
<1>2. c \in [Person -> [at : 0..MaxTime, vacancies : SUBSET Vacancy]]
  BY DEF ButtonsTypeOK
<1>3. /\ cache' \in [Person -> [at : 0..MaxTime, vacancies : SUBSET Vacancy]]
      /\ \A w \in Person : cache'[w] = c[w] \/ cache'[w].vacancies = {}
  <2> HIDE DEF c
  <2> QED BY <1>1, <1>2, PruneForgets
<1>4. /\ \A w \in Person \ {u} : c[w] = cache[w]
      /\ c[u] = [at |-> clock, vacancies |-> result]
  BY DEF ButtonsTypeOK
<1> HIDE DEF c
<1>5. /\ contexts' \in [Token -> Context \cup {Unused}]
      /\ \A t \in Token :
            \/ contexts'[t] = contexts[t]
            \/ /\ contexts[t] = Unused
               /\ contexts'[t] # Unused /\ contexts'[t].what = "save"
               /\ contexts'[t].user = u /\ contexts'[t].vacancy \in result
               /\ contexts'[t].until = clock + TTL
  BY <1>1, KeyboardAdds
<1>6. \A w \in Person, v \in Vacancy :
        /\ shownAt'[w][v] = IF w = u /\ v \in result THEN clock ELSE shownAt[w][v]
        /\ shownAt'[w][v] \in 0..MaxTime \cup {Never}
        /\ shownAt[w][v] \in 0..MaxTime \cup {Never}
  BY <1>1 DEF ButtonsTypeOK
<1>7. /\ shownAt' \in [Person -> [Vacancy -> 0..MaxTime \cup {Never}]]
      /\ clock' = clock /\ clock \in 0..MaxTime /\ clock # Never
      /\ TTL \in Nat /\ MaxTime \in Nat /\ Never \in Nat
  BY <1>1, ButtonsAssumption DEF ButtonsTypeOK, Never
<1>8. ButtonsTypeOK'
  BY <1>1, <1>3, <1>5, <1>7 DEF ButtonsTypeOK
<1>9. ShownInThePast'
  BY <1>1, <1>6, <1>7 DEF ShownInThePast
\* Nothing is seen earlier than it was.
<1>10. \A w \in Person, v \in Vacancy : shownAt[w][v] # Never =>
          shownAt'[w][v] # Never /\ shownAt[w][v] <= shownAt'[w][v]
  BY <1>6, <1>7 DEF ShownInThePast
<1>11. ContextsWereShown'
  <2> SUFFICES ASSUME NEW t \in Token, contexts'[t] # Unused, contexts'[t].what = "save"
               PROVE  LET seen == shownAt'[contexts'[t].user][contexts'[t].vacancy]
                      IN seen # Never /\ contexts'[t].until <= seen + TTL
    BY <1>7 DEF ContextsWereShown, Never
  <2>1. contexts'[t] \in Context
    BY <1>5
  <2>2. contexts'[t].user \in Person /\ contexts'[t].vacancy \in Vacancy /\ contexts'[t].until \in Nat
    BY <2>1 DEF Context
  <2>3. CASE contexts'[t] = contexts[t]
    <3> DEFINE seen == shownAt[contexts[t].user][contexts[t].vacancy]
    <3>1. seen # Never /\ contexts[t].until <= seen + TTL
      BY <2>3 DEF ContextsWereShown
    <3>2. seen \in Nat /\ shownAt'[contexts[t].user][contexts[t].vacancy] \in Nat
      BY <1>6, <1>7, <2>2, <2>3
    <3> QED BY <1>7, <1>10, <2>2, <2>3, <3>1, <3>2
  <2>4. CASE contexts'[t] # contexts[t]
    BY <1>5, <1>6, <1>7, <2>2, <2>4
  <2> QED BY <2>3, <2>4
<1>12. CacheWasShown'
  <2> SUFFICES ASSUME NEW w \in Person, NEW v \in cache'[w].vacancies
               PROVE  shownAt'[w][v] # Never /\ cache'[w].at <= shownAt'[w][v]
    BY DEF CacheWasShown, Never
  <2>1. cache'[w] = c[w] /\ v \in Vacancy
    BY <1>3
  <2>2. CASE w = u
    BY <1>4, <1>6, <1>7, <2>1, <2>2
  <2>3. CASE w # u
    <3>1. v \in cache[w].vacancies /\ cache'[w].at = cache[w].at /\ cache[w].at \in Nat
      BY <1>4, <2>1, <2>3 DEF ButtonsTypeOK
    <3> QED BY <1>6, <1>7, <2>1, <2>3, <3>1 DEF CacheWasShown
  <2> QED BY <2>2, <2>3
<1>13. PressedInThePast'
  BY <1>1 DEF PressedInThePast
<1>14. SavesWhatWasShown'
  <2> SUFFICES ASSUME NEW w \in Person, pressed[w].at \in {"save", "create", "again"}
               PROVE  LET seen == shownAt'[w][pressed[w].vacancy]
                      IN seen # Never /\ (seen > pressed[w].when \/ pressed[w].when - seen <= TTL)
    BY <1>1 DEF SavesWhatWasShown, Never
  <2>1. pressed[w] \in Press /\ pressed[w].when \in 0..MaxTime /\ pressed[w].vacancy \in Vacancy
    BY DEF ButtonsTypeOK, NoPress, Press
  <2> DEFINE seen == shownAt[w][pressed[w].vacancy]
             now  == shownAt'[w][pressed[w].vacancy]
  <2>2. seen # Never /\ (seen > pressed[w].when \/ pressed[w].when - seen <= TTL)
    BY DEF SavesWhatWasShown
  <2>3. now # Never /\ seen <= now /\ seen \in Nat /\ now \in Nat
    BY <1>6, <1>7, <1>10, <2>1, <2>2
  <2> QED BY <1>7, <2>1, <2>2, <2>3
<1>15. refused # NoPress => refused.token \in Token
  BY DEF ButtonsTypeOK
<1>16. RefusedIsKnown' /\ RefusedForAReason'
  BY <1>1, <1>5, <1>15 DEF RefusedIsKnown, RefusedForAReason
<1> QED BY <1>8, <1>9, <1>11, <1>12, <1>13, <1>14, <1>16

\* The steps of a press once it is handled, and those beside it.
Handles ==
    /\ ShowsNothingNew /\ clock' = clock /\ refused' = refused
    /\ \A u \in Person :
          \/ pressed'[u] \in {pressed[u], NoPress}
          \/ /\ pressed[u].at \in {"save", "create"} /\ pressed[u] # NoPress
             /\ pressed'[u].vacancy = pressed[u].vacancy /\ pressed'[u].when = pressed[u].when

LEMMA HandledStep == ASSUME ButtonsInv, ButtonsTypeOK', Handles PROVE ButtonsInv'
<1> USE DEF ButtonsInv, Handles
<1>1. ShownInThePast' /\ ContextsWereShown' /\ CacheWasShown'
  BY NothingNewShown
<1>2. PressedInThePast'
  BY DEF PressedInThePast
<1>3. SavesWhatWasShown'
  BY DEF SavesWhatWasShown, NoPress, Never, ShowsNothingNew
<1>4. refused # NoPress => refused.token \in Token
  BY DEF ButtonsTypeOK
<1>5. RefusedIsKnown' /\ RefusedForAReason'
  BY <1>4 DEF RefusedIsKnown, RefusedForAReason, ShowsNothingNew
<1> QED BY <1>1, <1>2, <1>3, <1>5

\* A press of something that stands for a vacancy.
LEMMA PressStep ==
    ASSUME ButtonsInv, NEW u \in Person, NEW at \in {"save", "outcome"}, NEW v \in Vacancy,
           Handle(u, at, v), UNCHANGED <<Others, contexts, refused>>,
           at = "save" => shownAt[u][v] # Never /\ (shownAt[u][v] > clock \/ clock - shownAt[u][v] <= TTL)
    PROVE  ButtonsInv'
<1> USE DEF ButtonsInv
<1> DEFINE new == [at |-> at, vacancy |-> v, when |-> clock]
<1>1. /\ pressed' = [pressed EXCEPT ![u] = new]
      /\ UNCHANGED <<clock, redis, cache, plan, saved, shownAt, contexts, refused>>
  BY DEF Handle, Others
<1>2. new \in Press /\ new.at = at /\ new.vacancy = v /\ new.when = clock /\ clock \in 0..MaxTime
  BY DEF Press, ButtonsTypeOK
<1> HIDE DEF new
<1>3. ButtonsTypeOK'
  BY <1>1, <1>2 DEF ButtonsTypeOK
<1>4. \A w \in Person : pressed'[w] = IF w = u THEN new ELSE pressed[w]
  BY <1>1 DEF ButtonsTypeOK
<1>5. ShownInThePast' /\ ContextsWereShown' /\ CacheWasShown'
  <2>1. clock <= clock'
    BY <1>1, <1>2, ButtonsAssumption
  <2>2. ShowsNothingNew
    BY <1>1, <2>1 DEF ShowsNothingNew
  <2> QED BY <1>3, <2>2, NothingNewShown
<1>6. PressedInThePast'
  BY <1>1, <1>2, <1>4, ButtonsAssumption DEF PressedInThePast
<1>7. SavesWhatWasShown'
  BY <1>1, <1>2, <1>4 DEF SavesWhatWasShown, Never
<1>8. RefusedIsKnown' /\ RefusedForAReason'
  BY <1>1 DEF RefusedIsKnown, RefusedForAReason
<1> QED BY <1>3, <1>5, <1>6, <1>7, <1>8

LEMMA ButtonsStep == ASSUME ButtonsInv, [ButtonsNext]_buttonVars PROVE ButtonsInv'
<1> USE DEF ButtonsInv
<1>1. ASSUME NEW u \in Person, NEW result \in (SUBSET Vacancy) \ {{}}, Search(u, result)
      PROVE  ButtonsInv'
  BY <1>1, SearchStep
<1>2. ASSUME NEW u \in Person, NEW t \in Token, PressToken(u, t) PROVE ButtonsInv'
  <2>1. contexts[t] \in Context /\ contexts[t] # Unused
    BY <1>2 DEF PressToken, ButtonsTypeOK
  <2>2. CASE Resolves(u, t)
    <3>1. /\ contexts[t].what \in {"save", "outcome"} /\ contexts[t].vacancy \in Vacancy
          /\ contexts[t].user = u /\ clock < contexts[t].until /\ contexts[t].until \in Nat
      BY <2>1, <2>2 DEF Resolves, Context
    <3>2. /\ Handle(u, contexts[t].what, contexts[t].vacancy)
          /\ UNCHANGED <<Others, contexts, refused>>
      BY <1>2, <2>2 DEF PressToken
    <3>3. ASSUME contexts[t].what = "save"
          PROVE  LET seen == shownAt[u][contexts[t].vacancy]
                 IN seen # Never /\ (seen > clock \/ clock - seen <= TTL)
      <4>1. /\ shownAt[u][contexts[t].vacancy] # Never
            /\ contexts[t].until <= shownAt[u][contexts[t].vacancy] + TTL
        BY <2>1, <3>1, <3>3 DEF ContextsWereShown
      <4>2. /\ shownAt[u][contexts[t].vacancy] \in 0..MaxTime /\ clock \in 0..MaxTime
            /\ TTL \in Nat /\ MaxTime \in Nat
        BY <3>1, <4>1, ButtonsAssumption DEF ButtonsTypeOK
      <4> QED BY <3>1, <4>1, <4>2
    <3> QED BY <3>1, <3>2, <3>3, PressStep
  <2>3. CASE ~Resolves(u, t)
    <3> DEFINE new == [user |-> u, token |-> t, when |-> clock, redis |-> redis]
    <3>1. /\ refused' = new
          /\ UNCHANGED <<clock, redis, cache, plan, saved, shownAt, contexts, pressed>>
      BY <1>2, <2>3 DEF PressToken, Others
    <3>2. /\ new \in [user : Person, token : Token, when : 0..MaxTime, redis : BOOLEAN]
          /\ new.user = u /\ new.token = t /\ new.when = clock /\ new.redis = redis
      BY DEF ButtonsTypeOK
    <3> HIDE DEF new
    <3>3. ButtonsTypeOK'
      BY <3>1, <3>2 DEF ButtonsTypeOK
    <3>4. redis /\ contexts[t].user = u => clock >= contexts[t].until
      <4>1. contexts[t].until \in Nat /\ clock \in Nat
        BY <2>1, ButtonsAssumption DEF Context, ButtonsTypeOK
      <4> QED BY <2>1, <2>3, <4>1 DEF Resolves
    <3>5. RefusedIsKnown' /\ RefusedForAReason'
      BY <2>1, <3>1, <3>2, <3>4 DEF RefusedIsKnown, RefusedForAReason
    <3> QED BY <3>1, <3>3, <3>5 DEF ShownInThePast, ContextsWereShown, CacheWasShown,
                                    PressedInThePast, SavesWhatWasShown, Never
  <2> QED BY <2>2, <2>3
<1>3. ASSUME NEW u \in Person, NEW v \in Vacancy, PressLegacySave(u, v) PROVE ButtonsInv'
  <2>1. /\ Handle(u, "save", v) /\ UNCHANGED <<Others, contexts, refused>>
        /\ v \in cache[u].vacancies /\ clock - cache[u].at <= TTL
    BY <1>3 DEF PressLegacySave
  <2>2. shownAt[u][v] # Never /\ cache[u].at <= shownAt[u][v]
    BY <2>1 DEF CacheWasShown
  <2>3. /\ shownAt[u][v] \in 0..MaxTime /\ clock \in 0..MaxTime /\ cache[u].at \in 0..MaxTime
        /\ TTL \in Nat /\ MaxTime \in Nat
    BY <2>2, ButtonsAssumption DEF ButtonsTypeOK
  <2> QED BY <2>1, <2>2, <2>3, PressStep
<1>4. ASSUME NEW u \in Person, NEW v \in Vacancy, PressLegacyOutcome(u, v) PROVE ButtonsInv'
  BY <1>4, PressStep DEF PressLegacyOutcome
<1>5. ASSUME NEW u \in Person, Save(u) PROVE ButtonsInv'
  <2>1. pressed[u] \in Press /\ pressed[u].vacancy \in Vacancy
    BY <1>5 DEF Save, ButtonsTypeOK, Press, NoPress
  <2>2. /\ saved' = [saved EXCEPT ![u] = @ \cup {pressed[u].vacancy}]
        /\ pressed' = [pressed EXCEPT ![u] = NoPress]
        /\ Keyboard(u, "outcome", {pressed[u].vacancy})
        /\ UNCHANGED <<clock, redis, cache, plan, shownAt, refused>>
    BY <1>5 DEF Save
  <2> DEFINE one == {pressed[u].vacancy}
  <2>3. one \in SUBSET Vacancy /\ Keyboard(u, "outcome", one)
    BY <2>1, <2>2
  <2> HIDE DEF one
  <2>4. /\ contexts' \in [Token -> Context \cup {Unused}]
        /\ \A t \in Token :
              \/ contexts'[t] = contexts[t]
              \/ /\ contexts[t] = Unused
                 /\ contexts'[t] # Unused /\ contexts'[t].what = "outcome"
    BY <2>3, KeyboardAdds
  <2>5. ButtonsTypeOK'
    BY <2>1, <2>2, <2>4 DEF ButtonsTypeOK
  <2>6. \A w \in Person : pressed'[w] \in {pressed[w], NoPress}
    BY <2>2 DEF ButtonsTypeOK
  <2>7. clock <= clock
    BY ButtonsAssumption DEF ButtonsTypeOK
  <2>8. Handles
    BY <2>2, <2>4, <2>6, <2>7 DEF Handles, ShowsNothingNew
  <2> QED BY <2>5, <2>8, HandledStep
<1>6. ASSUME NEW u \in Person, NoPlanYet(u) \/ CreatePlan(u) PROVE ButtonsInv'
  <2>1. PICK at \in {"create", "again"} : pressed' = [pressed EXCEPT ![u].at = at]
    BY <1>6 DEF NoPlanYet, CreatePlan, MoveOn
  <2>2. /\ pressed[u].at \in {"save", "create"}
        /\ plan' \in {plan, plan \cup {u}}
        /\ UNCHANGED <<clock, redis, cache, saved, shownAt, contexts, refused>>
    BY <1>6 DEF NoPlanYet, CreatePlan, Others
  <2>3. pressed[u] \in Press /\ pressed[u] # NoPress
    BY <2>2 DEF ButtonsTypeOK, Press, NoPress
  <2> DEFINE new == [pressed[u] EXCEPT !.at = at]
  <2>4. new \in Press /\ new.vacancy = pressed[u].vacancy /\ new.when = pressed[u].when
    BY <2>3 DEF Press
  <2>5. pressed' = [pressed EXCEPT ![u] = new]
    BY <2>1
  <2> HIDE DEF new
  <2>6. ButtonsTypeOK'
    BY <2>2, <2>4, <2>5 DEF ButtonsTypeOK
  <2>7. \A w \in Person : pressed'[w] = IF w = u THEN new ELSE pressed[w]
    BY <2>5 DEF ButtonsTypeOK
  <2>8. clock <= clock
    BY ButtonsAssumption DEF ButtonsTypeOK
  <2>9. Handles
    BY <2>2, <2>3, <2>4, <2>7, <2>8 DEF Handles, ShowsNothingNew
  <2> QED BY <2>6, <2>9, HandledStep
<1>7. ASSUME NEW u \in Person, EndPress(u) \/ DeletePlan(u) PROVE ButtonsInv'
  <2>1. /\ UNCHANGED <<clock, redis, cache, shownAt, contexts, refused>>
        /\ plan' \subseteq plan /\ saved' \in [Person -> SUBSET Vacancy]
    BY <1>7 DEF EndPress, DeletePlan, Others, ButtonsTypeOK
  <2>2. pressed' \in {pressed, [pressed EXCEPT ![u] = NoPress]}
    BY <1>7 DEF EndPress, DeletePlan
  <2>3. \A w \in Person : pressed'[w] \in {pressed[w], NoPress}
    BY <2>2 DEF ButtonsTypeOK
  <2>4. ButtonsTypeOK'
    BY <2>1, <2>2 DEF ButtonsTypeOK
  <2>5. clock <= clock
    BY ButtonsAssumption DEF ButtonsTypeOK
  <2>6. Handles
    BY <2>1, <2>3, <2>5 DEF Handles, ShowsNothingNew
  <2> QED BY <2>4, <2>6, HandledStep
<1>8. CASE Tick
  <2>1. /\ clock' = clock + 1 /\ clock' \in 0..MaxTime /\ clock \in 0..MaxTime
        /\ UNCHANGED <<redis, contexts, cache, plan, saved, pressed, shownAt, refused>>
    BY <1>8, ButtonsAssumption DEF Tick, ButtonsTypeOK
  <2>2. ButtonsTypeOK'
    BY <2>1 DEF ButtonsTypeOK
  <2>3. clock <= clock'
    BY <2>1
  <2>4. ShownInThePast' /\ ContextsWereShown' /\ CacheWasShown'
    <3>1. ShowsNothingNew
      BY <2>1, <2>3 DEF ShowsNothingNew
    <3> QED BY <2>2, <3>1, NothingNewShown
  <2>5. ASSUME NEW u \in Person, pressed[u] # NoPress PROVE pressed[u].when <= clock'
    <3>1. pressed[u].when \in 0..MaxTime /\ pressed[u].when <= clock
      BY <2>5 DEF PressedInThePast, ButtonsTypeOK, Press
    <3> QED BY <2>1, <3>1, ButtonsAssumption
  <2> QED BY <2>1, <2>2, <2>4, <2>5
          DEF PressedInThePast, RefusedIsKnown, SavesWhatWasShown, RefusedForAReason, Never
<1>9. CASE RestartBot
  <2>1. /\ cache' = [u \in Person |-> NoCache] /\ pressed' = [u \in Person |-> NoPress]
        /\ redis' \in BOOLEAN /\ UNCHANGED <<clock, contexts, plan, saved, shownAt, refused>>
    BY <1>9 DEF RestartBot
  <2>2. NoCache \in [at : 0..MaxTime, vacancies : SUBSET Vacancy] /\ NoCache.vacancies = {}
    BY ButtonsAssumption DEF NoCache
  <2>3. ButtonsTypeOK'
    BY <2>1, <2>2 DEF ButtonsTypeOK
  <2>4. clock <= clock
    BY ButtonsAssumption DEF ButtonsTypeOK
  <2>5. Handles
    BY <2>1, <2>2, <2>4 DEF Handles, ShowsNothingNew
  <2> QED BY <2>3, <2>5, HandledStep
<1>10. CASE UNCHANGED buttonVars
  <2>1. UNCHANGED <<clock, redis, contexts, cache, plan, saved, pressed, shownAt, refused>>
    BY <1>10 DEF buttonVars
  <2>2. ButtonsTypeOK'
    BY <2>1 DEF ButtonsTypeOK
  <2>3. clock <= clock
    BY ButtonsAssumption DEF ButtonsTypeOK
  <2>4. Handles
    BY <2>1, <2>3 DEF Handles, ShowsNothingNew
  <2> QED BY <2>2, <2>4, HandledStep
<1> QED BY <1>1, <1>2, <1>3, <1>4, <1>5, <1>6, <1>7, <1>8, <1>9, <1>10 DEF ButtonsNext

\* For any number of users, vacancies, tokens and ticks, whatever is forgotten, restarted or
\* left without Redis: a press saves only what its user was shown within the lifetime, and a
\* token is turned down only for a reason (SearchCallbackContext, handle_save_vacancy).
THEOREM ButtonsKeepTheirPromise == ButtonsSpec => []ButtonsKeepTheirWord
<1>1. ButtonsInv => ButtonsKeepTheirWord
  BY DEF ButtonsInv, ButtonsKeepTheirWord
<1> QED BY <1>1, ButtonsStart, ButtonsStep, PTL DEF ButtonsSpec

-----------------------------------------------------------------------------
(* The forms                                                               *)

AnyRow == [n : Nat, there : BOOLEAN]

Query ==
    [ row : AnyRow, known : BOOLEAN, old : BOOLEAN, failed : BOOLEAN,
      fetch : {"none", "asked", "read"}, answer : AnyRow ]

MadeCall ==
    [ kind : {"save", "delete", "action", "upload"}, at : {"sent", "executed"},
      target : UserId, key : UserId, bound : BOOLEAN, of : UserId \cup {Nobody},
      blind : BOOLEAN, switched : BOOLEAN, reloaded : BOOLEAN ]

FormsTypeOK ==
    /\ page \in [name : {"profile", "plan", "subscription"}, own : UserId \cup {Nobody}]
    /\ chosen \in UserId \cup {Nobody} /\ form \in UserId \cup {Nobody}
    /\ rows \in [UserId -> AnyRow] /\ queries \in [UserId -> Query]
    /\ calls \in [CallNo -> MadeCall \cup {Unmade, Over}]
    /\ behindOf \subseteq UserId /\ reloaded \in BOOLEAN

\* What the open page shows is the chosen user's, or there is nothing to show; the plan's
\* page shows nobody else's even then, and is blank over a row only after a reload.
FormOK ==
    IF On("plan")
    THEN form \in {Nobody, chosen} /\ (chosen # Nobody /\ form # chosen => ~HasRow(chosen) \/ reloaded)
    ELSE chosen # Nobody /\ form # chosen => ~HasRow(chosen)

\* Only with a user chosen is a mutation of the open page under way.
BoundCalls == \A n \in CallNo : Pending(n) /\ calls[n].bound => chosen # Nobody

\* The form that a mutation carries is its target's, or has a reason not to be.
OwnForm(c) ==
    c.of # c.target =>
        IF On("plan") THEN c.of = Nobody /\ (c.blind \/ c.reloaded) ELSE c.blind \/ c.switched

CallsOwn ==
    \A n \in CallNo :
        /\ calls[n].kind \in {"save", "upload"} => OwnForm(calls[n])
        /\ calls[n].kind = "upload" => On("profile") /\ ~calls[n].switched

Executed(n, u) ==
    /\ Pending(n) /\ calls[n].kind # "upload"
    /\ calls[n].at = "executed" /\ calls[n].target = u

\* Nothing has changed the row behind the query's back.
Undisturbed(u) == u \notin behindOf /\ \A n \in CallNo : ~Executed(n, u)

\* A query is fetched because it is old; what it has read, or shows as fresh, is the row.
QueryOK(u) ==
    /\ queries[u].fetch # "none" => queries[u].old
    /\ Undisturbed(u) =>
          /\ queries[u].fetch = "read" => queries[u].answer = rows[u]
          /\ queries[u].known /\ ~queries[u].old => queries[u].row = rows[u]

FormsInv ==
    /\ FormsTypeOK /\ FormOK /\ BoundCalls /\ CallsOwn
    /\ \A u \in UserId : QueryOK(u)

LEMMA FormsStart == ASSUME FormsInit PROVE FormsInv
<1>1. NeverHad \in AnyRow /\ Unfetched \in Query
  BY DEF NeverHad, Unfetched, AnyRow, Query
<1>2. PICK had \in SUBSET UserId : rows = [u \in UserId |-> [n |-> 0, there |-> u \in had]]
  BY DEF FormsInit
<1>3. \A u \in UserId : [n |-> 0, there |-> u \in had] \in AnyRow
  BY DEF AnyRow
<1>4. rows \in [UserId -> AnyRow]
  BY <1>2, <1>3
<1>5. FormsTypeOK
  BY <1>1, <1>4 DEF FormsInit, FormsTypeOK
<1>6. FormOK
  BY DEF FormsInit, FormOK
<1>7. BoundCalls /\ CallsOwn
  BY DEF FormsInit, BoundCalls, CallsOwn, Pending, Made, Unmade
<1>8. \A u \in UserId : QueryOK(u)
  BY DEF FormsInit, QueryOK, Unfetched
<1> QED BY <1>5, <1>6, <1>7, <1>8 DEF FormsInv

\* What is done to queries that shows nothing else.
LEMMA QueriesAreTyped ==
    ASSUME NEW q \in Query, NEW isShown \in BOOLEAN
    PROVE  /\ Mounted(q) \in Query /\ Mounted(q).row = q.row /\ Mounted(q).known = q.known
           /\ Mounted(q).old = q.old /\ Mounted(q).answer = q.answer
           /\ Mounted(q).fetch \in {q.fetch, "asked"}
           /\ Mounted(q).fetch # q.fetch => q.old
           /\ Broken(q) \in Query /\ Broken(q).row = q.row /\ Broken(q).known = q.known
           /\ Broken(q).old = q.old /\ Broken(q).fetch = "none"
           /\ Invalidated(q, isShown) \in Query /\ Invalidated(q, isShown).row = q.row
           /\ Invalidated(q, isShown).known = q.known /\ Invalidated(q, isShown).old
           /\ isShown => Invalidated(q, isShown).fetch = "asked"
           /\ ~isShown => /\ Invalidated(q, isShown).fetch = q.fetch
                          /\ Invalidated(q, isShown).answer = q.answer
<1>1. NeverHad \in AnyRow
  BY DEF NeverHad, AnyRow
<1>2. /\ Mounted(q) \in Query /\ Mounted(q).row = q.row /\ Mounted(q).known = q.known
      /\ Mounted(q).old = q.old /\ Mounted(q).answer = q.answer
      /\ Mounted(q).fetch \in {q.fetch, "asked"}
      /\ Mounted(q).fetch # q.fetch => q.old
  <2>1. CASE q.old /\ q.fetch = "none"
    BY <2>1 DEF Mounted, Query
  <2>2. CASE ~(q.old /\ q.fetch = "none")
    BY <2>2 DEF Mounted, Query
  <2> QED BY <2>1, <2>2
<1>3. /\ Broken(q) \in Query /\ Broken(q).row = q.row /\ Broken(q).known = q.known
      /\ Broken(q).old = q.old /\ Broken(q).fetch = "none"
  <2> DEFINE isPlan == On("plan")
  <2>1. isPlan \in BOOLEAN
    BY DEF On
  <2>2. Broken(q) = [q EXCEPT !.fetch = "none", !.failed = isPlan, !.answer = NeverHad]
    BY DEF Broken
  <2> HIDE DEF isPlan
  <2> QED BY <1>1, <2>1, <2>2 DEF Query
<1>4. /\ Invalidated(q, isShown) \in Query /\ Invalidated(q, isShown).row = q.row
      /\ Invalidated(q, isShown).known = q.known /\ Invalidated(q, isShown).old
      /\ isShown => Invalidated(q, isShown).fetch = "asked"
      /\ ~isShown => /\ Invalidated(q, isShown).fetch = q.fetch
                     /\ Invalidated(q, isShown).answer = q.answer
  <2>1. CASE isShown
    BY <1>1, <2>1 DEF Invalidated, Query
  <2>2. CASE ~isShown
    BY <1>1, <2>2 DEF Invalidated, Query
  <2> QED BY <2>1, <2>2
<1> QED BY <1>2, <1>3, <1>4

\* A step that leaves what a query shows as it is, or makes it old, and reads nothing.
ShowsSame(u) ==
    /\ queries'[u].row = queries[u].row /\ queries'[u].known = queries[u].known
    /\ queries[u].old => queries'[u].old
    /\ queries'[u].fetch # "none" => queries'[u].old
    /\ queries'[u].fetch = "read" => /\ queries[u].fetch = "read"
                                     /\ queries'[u].answer = queries[u].answer

LEMMA QueryKept ==
    ASSUME FormsInv, NEW u \in UserId, ShowsSame(u), rows'[u] = rows[u], Undisturbed(u)' => Undisturbed(u)
    PROVE  QueryOK(u)'
BY DEF FormsInv, QueryOK, ShowsSame

LEMMA CallsSettle ==
    ASSUME behindOf \subseteq behindOf', NEW u \in UserId,
           \A n \in CallNo : Executed(n, u) => Executed(n, u)' \/ u \in behindOf'
    PROVE  Undisturbed(u)' => Undisturbed(u)
BY DEF Undisturbed

LEMMA FormKept ==
    ASSUME FormsInv, page' = page, chosen' = chosen, form' = form, reloaded' = reloaded,
           \A u \in UserId : queries'[u].row = queries[u].row /\ queries'[u].known = queries[u].known
    PROVE  FormOK'
<1>1. chosen # Nobody => chosen \in UserId
  BY DEF FormsInv, FormsTypeOK
<1>2. chosen # Nobody => (HasRow(chosen)' <=> HasRow(chosen))
  BY <1>1 DEF HasRow
<1> QED BY <1>2 DEF FormsInv, FormOK, On

\* One query is shown, asked again, or not to be relied on any more.
LEMMA QueryActionStep ==
    ASSUME FormsInv, NEW u \in UserId, NEW q \in Query,
           queries' = [queries EXCEPT ![u] = q],
           q.row = queries[u].row, q.known = queries[u].known, queries[u].old => q.old,
           q.fetch # "none" => q.old,
           q.fetch = "read" => queries[u].fetch = "read" /\ q.answer = queries[u].answer,
           UNCHANGED <<page, chosen, form, rows, calls, behindOf, reloaded>>
    PROVE  FormsInv'
<1> USE DEF FormsInv
<1>1. \A w \in UserId : queries'[w] = IF w = u THEN q ELSE queries[w]
  BY DEF FormsTypeOK
<1>2. FormsTypeOK'
  BY DEF FormsTypeOK
<1>3. FormOK'
  BY <1>1, FormKept
<1>4. BoundCalls' /\ CallsOwn'
  BY DEF BoundCalls, CallsOwn, Pending, Made, OwnForm, On
<1>5. ASSUME NEW w \in UserId PROVE QueryOK(w)'
  <2>1. Undisturbed(w)' => Undisturbed(w)
    BY DEF Undisturbed, Executed, Pending, Made
  <2>2. ShowsSame(w)
    BY <1>1 DEF ShowsSame, QueryOK
  <2> QED BY <2>1, <2>2, QueryKept
<1> QED BY <1>2, <1>3, <1>4, <1>5

LEMMA ChooseStep == ASSUME FormsInv, NEW u \in UserId, Choose(u) PROVE FormsInv'
<1> USE DEF FormsInv
<1>1. /\ chosen' = u /\ u # Nobody /\ UNCHANGED <<page, rows, behindOf>>
      /\ form' = IF u # chosen /\ HasRow(u) THEN u ELSE KeptFormOf(u)
      /\ reloaded' = (On("plan") /\ u = chosen /\ HasRow(u))
      /\ queries' = IF u = chosen THEN queries ELSE [queries EXCEPT ![u] = Mounted(@)]
      /\ calls' = [n \in CallNo |-> IF Pending(n) /\ calls[n].bound
                                  THEN [calls[n] EXCEPT !.key = u] ELSE calls[n]]
  BY FormsAssumption DEF Choose
<1>2. ASSUME NEW n \in CallNo
      PROVE  /\ calls'[n] \in MadeCall \cup {Unmade, Over} /\ calls'[n].kind = calls[n].kind
             /\ calls'[n].at = calls[n].at /\ calls'[n].target = calls[n].target
             /\ calls'[n].of = calls[n].of /\ calls'[n].blind = calls[n].blind
             /\ calls'[n].reloaded = calls[n].reloaded /\ calls'[n].switched = calls[n].switched
  <2>1. CASE Pending(n) /\ calls[n].bound
    <3>1. calls[n] \in MadeCall
      BY <2>1 DEF Pending, Made, Unmade, Over, FormsTypeOK
    <3>2. calls'[n] = [calls[n] EXCEPT !.key = u]
      BY <1>1, <2>1
    <3> QED BY <3>1, <3>2 DEF MadeCall
  <2>2. CASE ~(Pending(n) /\ calls[n].bound)
    BY <1>1, <2>2 DEF FormsTypeOK
  <2> QED BY <2>1, <2>2
<1>3. calls' \in [CallNo -> MadeCall \cup {Unmade, Over}]
  BY <1>1, <1>2
<1>4. \A w \in UserId : /\ queries'[w] \in Query
                        /\ queries'[w] \in {queries[w], Mounted(queries[w])}
  BY <1>1, QueriesAreTyped DEF FormsTypeOK
<1>5. queries' \in [UserId -> Query]
  BY <1>1, <1>4 DEF FormsTypeOK
<1>6. form' \in UserId \cup {Nobody} /\ reloaded' \in BOOLEAN
  BY <1>1 DEF KeptFormOf, FormsTypeOK
<1>7. FormsTypeOK'
  BY <1>1, <1>3, <1>5, <1>6 DEF FormsTypeOK
<1>8. \A w \in UserId : /\ queries'[w].row = queries[w].row
                        /\ queries'[w].known = queries[w].known
  BY <1>4, QueriesAreTyped DEF FormsTypeOK
<1>10. FormOK'
  <2>1. HasRow(chosen)' <=> HasRow(u)
    BY <1>1, <1>8 DEF HasRow
  <2>2. CASE On("plan")
    BY <1>1, <2>1, <2>2 DEF FormOK, KeptFormOf, On
  <2>3. CASE ~On("plan")
    BY <1>1, <2>1, <2>3 DEF FormOK, KeptFormOf, On
  <2> QED BY <2>2, <2>3
<1>11. BoundCalls' /\ CallsOwn'
  BY <1>1, <1>2 DEF BoundCalls, CallsOwn, OwnForm, On
<1>12. ASSUME NEW w \in UserId PROVE QueryOK(w)'
  <2>1. Undisturbed(w)' => Undisturbed(w)
    BY <1>1, <1>2 DEF Undisturbed, Executed, Pending, Made
  <2>2. ShowsSame(w)
    BY <1>4, QueriesAreTyped DEF ShowsSame, QueryOK, FormsTypeOK
  <2> QED BY <1>1, <2>1, <2>2, QueryKept
<1> QED BY <1>7, <1>10, <1>11, <1>12

LEMMA LeavePageStep == ASSUME FormsInv, LeavePage PROVE FormsInv'
<1> USE DEF FormsInv
<1>1. /\ chosen' = Nobody /\ form' = Nobody /\ reloaded' = FALSE
      /\ calls' = [n \in CallNo |-> IF Pending(n) THEN [calls[n] EXCEPT !.bound = FALSE] ELSE calls[n]]
      /\ UNCHANGED <<page, rows, queries, behindOf>>
  BY DEF LeavePage
<1>2. ASSUME NEW n \in CallNo
      PROVE  /\ calls'[n] \in MadeCall \cup {Unmade, Over} /\ calls'[n].kind = calls[n].kind
             /\ calls'[n].at = calls[n].at /\ calls'[n].target = calls[n].target
             /\ calls'[n].of = calls[n].of /\ calls'[n].blind = calls[n].blind
             /\ calls'[n].reloaded = calls[n].reloaded /\ calls'[n].switched = calls[n].switched
             /\ Pending(n) => ~calls'[n].bound
  <2>1. CASE Pending(n)
    <3>1. calls[n] \in MadeCall
      BY <2>1 DEF Pending, Made, Unmade, Over, FormsTypeOK
    <3>2. calls'[n] = [calls[n] EXCEPT !.bound = FALSE]
      BY <1>1, <2>1
    <3> QED BY <3>1, <3>2 DEF MadeCall
  <2>2. CASE ~Pending(n)
    BY <1>1, <2>2 DEF FormsTypeOK
  <2> QED BY <2>1, <2>2
<1>3. FormsTypeOK'
  BY <1>1, <1>2 DEF FormsTypeOK
<1>4. FormOK'
  BY <1>1 DEF FormOK
<1>5. BoundCalls' /\ CallsOwn'
  <2>1. BoundCalls'
    BY <1>2 DEF BoundCalls, Pending, Made
  <2>2. CallsOwn'
    BY <1>1, <1>2 DEF CallsOwn, OwnForm, On
  <2> QED BY <2>1, <2>2
<1>6. ASSUME NEW w \in UserId PROVE QueryOK(w)'
  <2>1. Undisturbed(w)' => Undisturbed(w)
    BY <1>1, <1>2 DEF Undisturbed, Executed, Pending, Made
  <2>2. ShowsSame(w)
    BY <1>1 DEF ShowsSame, QueryOK
  <2> QED BY <1>1, <2>1, <2>2, QueryKept
<1> QED BY <1>3, <1>4, <1>5, <1>6

LEMMA FetchReadsStep == ASSUME FormsInv, NEW u \in UserId, FetchReads(u) PROVE FormsInv'
<1> USE DEF FormsInv
<1> DEFINE q == [queries[u] EXCEPT !.fetch = "read", !.answer = rows[u]]
<1>1. /\ queries[u].fetch = "asked" /\ queries' = [queries EXCEPT ![u] = q]
      /\ behindOf' = behindOf \ {u}
      /\ UNCHANGED <<page, chosen, form, rows, calls, reloaded>>
  BY DEF FetchReads, FetchOnly
<1>2. /\ q \in Query /\ q.row = queries[u].row /\ q.known = queries[u].known
      /\ q.old = queries[u].old /\ q.fetch = "read" /\ q.answer = rows[u]
  BY DEF FormsTypeOK, Query
<1> HIDE DEF q
<1>3. \A w \in UserId : queries'[w] = IF w = u THEN q ELSE queries[w]
  BY <1>1 DEF FormsTypeOK
<1>4. FormsTypeOK'
  BY <1>1, <1>2 DEF FormsTypeOK
<1>5. FormOK'
  BY <1>1, <1>2, <1>3, FormKept
<1>6. BoundCalls' /\ CallsOwn'
  BY <1>1 DEF BoundCalls, CallsOwn, Pending, Made, OwnForm, On
<1>7. queries[u].old
  BY <1>1 DEF QueryOK
<1>8. QueryOK(u)'
  BY <1>1, <1>2, <1>3, <1>7 DEF QueryOK
<1>9. ASSUME NEW w \in UserId \ {u} PROVE QueryOK(w)'
  <2>1. Undisturbed(w)' => Undisturbed(w)
    BY <1>1 DEF Undisturbed, Executed, Pending, Made
  <2>2. ShowsSame(w)
    BY <1>3 DEF ShowsSame, QueryOK
  <2> QED BY <1>1, <2>1, <2>2, QueryKept
<1> QED BY <1>4, <1>5, <1>6, <1>8, <1>9

LEMMA FetchArrivesStep == ASSUME FormsInv, NEW u \in UserId, FetchArrives(u) PROVE FormsInv'
<1> USE DEF FormsInv
<1> DEFINE q == queries[u]
           new == [Unfetched EXCEPT !.row = q.answer, !.known = TRUE, !.old = FALSE]
<1>1. /\ q.fetch = "read" /\ UNCHANGED <<page, chosen, rows, calls, behindOf>>
      /\ IF u = chosen /\ q.answer.there /\ (q.answer # q.row \/ ~q.known)
         THEN form' = u /\ reloaded' = FALSE ELSE form' = form /\ reloaded' = reloaded
  BY DEF FetchArrives, FetchOnly
<1>2. q \in Query /\ q.answer \in AnyRow
  BY DEF FormsTypeOK, Query
<1>3. CASE ~q.answer.there /\ ~On("plan")
  <2>1. queries' = [queries EXCEPT ![u] = Broken(q)]
    BY <1>3 DEF FetchArrives
  <2>2. UNCHANGED <<page, chosen, form, rows, calls, behindOf, reloaded>>
    BY <1>1, <1>3
  <2>3. /\ Broken(q) \in Query /\ Broken(q).row = q.row /\ Broken(q).known = q.known
        /\ Broken(q).old = q.old /\ Broken(q).fetch = "none"
    BY <1>2, QueriesAreTyped
  <2> HIDE DEF q
  <2> QED BY <2>1, <2>2, <2>3, QueryActionStep DEF q
<1>4. CASE q.answer.there \/ On("plan")
  <2>1. queries' = [queries EXCEPT ![u] = new]
    BY <1>4 DEF FetchArrives
  <2>2. /\ new \in Query /\ new.row = q.answer /\ new.known = TRUE /\ new.old = FALSE
        /\ new.fetch = "none"
    <3>1. NeverHad \in AnyRow
      BY DEF NeverHad, AnyRow
    <3> HIDE DEF q
    <3> QED BY <1>2, <3>1 DEF Query, Unfetched
  <2> HIDE DEF new
  <2>3. \A w \in UserId : queries'[w] = IF w = u THEN new ELSE queries[w]
    BY <2>1 DEF FormsTypeOK
  <2>4. FormsTypeOK'
    BY <1>1, <2>1, <2>2 DEF FormsTypeOK
  <2>5. FormOK'
    <3>1. CASE u = chosen /\ q.answer.there /\ (q.answer # q.row \/ ~q.known)
      BY <1>1, <3>1 DEF FormOK, On
    <3>2. CASE u # chosen
      <4>1. chosen # Nobody => chosen \in UserId \ {u}
        BY <3>2 DEF FormsTypeOK
      <4>2. chosen # Nobody => (HasRow(chosen)' <=> HasRow(chosen))
        BY <1>1, <2>3, <4>1 DEF HasRow
      <4> QED BY <1>1, <3>2, <4>2 DEF FormOK, On
    <3>3. CASE u = chosen /\ ~q.answer.there
      <4>1. ~HasRow(chosen)' /\ form' = form /\ reloaded' = reloaded
        BY <1>1, <2>2, <2>3, <3>3 DEF HasRow
      <4> QED BY <1>1, <4>1 DEF FormOK, On
    <3>4. CASE u = chosen /\ q.answer.there /\ q.answer = q.row /\ q.known
      <4>1. HasRow(chosen) /\ form' = form /\ reloaded' = reloaded
        BY <1>1, <3>4 DEF HasRow
      <4> QED BY <1>1, <4>1 DEF FormOK, On
    <3> QED BY <3>1, <3>2, <3>3, <3>4
  <2>6. BoundCalls' /\ CallsOwn'
    BY <1>1 DEF BoundCalls, CallsOwn, Pending, Made, OwnForm, On
  <2>7. \A w \in UserId : Undisturbed(w)' => Undisturbed(w)
    BY <1>1 DEF Undisturbed, Executed, Pending, Made
  <2>8. QueryOK(u)'
    BY <1>1, <2>2, <2>3, <2>7 DEF QueryOK
  <2>9. ASSUME NEW w \in UserId \ {u} PROVE QueryOK(w)'
    <3>1. ShowsSame(w)
      BY <2>3 DEF ShowsSame, QueryOK
    <3> QED BY <1>1, <2>7, <3>1, QueryKept
  <2> QED BY <2>4, <2>5, <2>6, <2>8, <2>9
<1> QED BY <1>3, <1>4

\* What a call is to be after a step of the calls; one that stays as it is has it, and so
\* has one that is over, unless its user was waiting for its answer.
CallOK(n) ==
    /\ Pending(n)' /\ calls'[n].bound => chosen # Nobody
    /\ calls'[n].kind \in {"save", "upload"} => OwnForm(calls'[n])
    /\ calls'[n].kind = "upload" => On("profile") /\ ~calls'[n].switched
    /\ \A u \in UserId : Executed(n, u) => Executed(n, u)' \/ u \in behindOf'

LEMMA CallsStep ==
    ASSUME FormsInv, UNCHANGED <<page, chosen, form, rows, queries, reloaded>>,
           behindOf' \subseteq UserId, behindOf \subseteq behindOf',
           calls' \in [CallNo -> MadeCall \cup {Unmade, Over}],
           \A n \in CallNo : CallOK(n)
    PROVE  FormsInv'
<1> USE DEF FormsInv
<1>1. FormsTypeOK'
  BY DEF FormsTypeOK
<1>2. FormOK'
  BY FormKept
<1>3. BoundCalls'
  BY DEF CallOK, BoundCalls
<1>4. CallsOwn'
  BY DEF CallOK, CallsOwn, OwnForm, On
<1>5. ASSUME NEW u \in UserId PROVE QueryOK(u)'
  <2>1. Undisturbed(u)' => Undisturbed(u)
    BY CallsSettle DEF CallOK
  <2>2. ShowsSame(u)
    BY DEF ShowsSame, QueryOK
  <2> QED BY <2>1, <2>2, QueryKept
<1> QED BY <1>1, <1>2, <1>3, <1>4, <1>5

LEMMA SameCallOK ==
    ASSUME FormsInv, NEW n \in CallNo,
           \/ calls'[n] = calls[n]
           \/ Pending(n) /\ calls'[n] = [calls[n] EXCEPT !.bound = FALSE]
    PROVE  CallOK(n)
<1>1. CASE calls'[n] = calls[n]
  BY <1>1 DEF CallOK, FormsInv, BoundCalls, CallsOwn, Executed, Pending, Made
<1>2. CASE Pending(n) /\ calls'[n] = [calls[n] EXCEPT !.bound = FALSE]
  <2>1. calls[n] \in MadeCall
    BY <1>2 DEF Pending, Made, Unmade, Over, FormsInv, FormsTypeOK
  <2>2. /\ calls'[n].kind = calls[n].kind /\ calls'[n].at = calls[n].at
        /\ calls'[n].target = calls[n].target /\ calls'[n].of = calls[n].of
        /\ calls'[n].blind = calls[n].blind /\ calls'[n].reloaded = calls[n].reloaded
        /\ calls'[n].switched = calls[n].switched /\ ~calls'[n].bound
    BY <1>2, <2>1 DEF MadeCall
  <2> QED BY <2>2 DEF CallOK, FormsInv, CallsOwn, OwnForm, Executed, Pending, Made
<1> QED BY <1>1, <1>2

LEMMA OverCallOK ==
    ASSUME NEW n \in CallNo, calls'[n] = Over, \A u \in UserId : Executed(n, u) => u \in behindOf'
    PROVE  CallOK(n)
BY DEF CallOK, Over, Pending, Made

LEMMA MutateStep ==
    ASSUME FormsInv, NEW n \in CallNo, NEW kind \in {"save", "delete", "action", "upload"},
           Mutate(n, kind)
    PROVE  FormsInv'
<1> USE DEF FormsInv
<1> DEFINE blind == ~HasRow(chosen)
           c == [ kind |-> kind, at |-> "sent", target |-> chosen, key |-> chosen, bound |-> TRUE,
                  of |-> form, blind |-> blind, switched |-> FALSE, reloaded |-> reloaded ]
<1>1. /\ ~Made(n) /\ chosen # Nobody /\ chosen \in UserId
      /\ kind = "upload" => On("profile")
      /\ calls' = [calls EXCEPT ![n] = c]
      /\ UNCHANGED <<page, chosen, form, rows, queries, behindOf, reloaded>>
  BY DEF Mutate, NextCall, MayMutate, Mutation, FormsTypeOK
<1>2. blind \in BOOLEAN
  OBVIOUS
<1>3. c.of # c.target => IF On("plan") THEN c.of = Nobody /\ (blind \/ c.reloaded) ELSE blind
  <2>1. CASE On("plan")
    BY <1>1, <2>1 DEF FormOK
  <2>2. CASE ~On("plan")
    BY <1>1, <2>2 DEF FormOK
  <2> QED BY <2>1, <2>2
<1> HIDE DEF blind
<1>4. /\ c \in MadeCall /\ c.kind = kind /\ c.target = chosen /\ c.of = form /\ c.blind = blind
      /\ c.switched = FALSE /\ c.reloaded = reloaded
  BY <1>1, <1>2 DEF MadeCall, FormsTypeOK
<1>5. OwnForm(c)
  BY <1>3, <1>4 DEF OwnForm
<1> HIDE DEF c
<1>6. \A m \in CallNo : calls'[m] = IF m = n THEN c ELSE calls[m]
  BY <1>1 DEF FormsTypeOK
<1>7. calls' \in [CallNo -> MadeCall \cup {Unmade, Over}]
  BY <1>1, <1>4 DEF FormsTypeOK
<1>8. CallOK(n)
  BY <1>1, <1>4, <1>5, <1>6 DEF CallOK, Executed, Pending
<1>9. \A m \in CallNo : CallOK(m)
  BY <1>6, <1>8, SameCallOK
<1> QED BY <1>1, <1>7, <1>9, CallsStep DEF FormsTypeOK

LEMMA CallIsLostStep == ASSUME FormsInv, NEW n \in CallNo, CallIsLost(n) PROVE FormsInv'
<1> USE DEF FormsInv
<1>1. /\ Pending(n) /\ calls' = [calls EXCEPT ![n] = Over]
      /\ behindOf' = IF calls[n].at = "executed" THEN behindOf \cup {calls[n].target} ELSE behindOf
      /\ UNCHANGED <<page, chosen, form, rows, queries, reloaded>>
  BY DEF CallIsLost
<1>2. calls[n] \in MadeCall
  BY <1>1 DEF Pending, Made, Unmade, Over, FormsTypeOK
<1>3. behindOf' \subseteq UserId /\ behindOf \subseteq behindOf'
  BY <1>1, <1>2 DEF MadeCall, FormsTypeOK
<1>4. \A m \in CallNo : calls'[m] = IF m = n THEN Over ELSE calls[m]
  BY <1>1 DEF FormsTypeOK
<1>5. calls' \in [CallNo -> MadeCall \cup {Unmade, Over}]
  BY <1>1 DEF FormsTypeOK
<1>6. CallOK(n)
  BY <1>1, <1>4, OverCallOK DEF Executed
<1>7. \A m \in CallNo : CallOK(m)
  BY <1>4, <1>6, SameCallOK
<1> QED BY <1>1, <1>3, <1>5, <1>7, CallsStep

LEMMA AnswerUploadStep ==
    ASSUME FormsInv, NEW n \in CallNo, NEW m \in CallNo, AnswerUpload(n, m)
    PROVE  FormsInv'
<1> USE DEF FormsInv
<1>1. /\ Pending(n) /\ calls[n].kind = "upload"
      /\ UNCHANGED <<page, chosen, form, rows, queries, behindOf, reloaded>>
  BY DEF AnswerUpload
<1>2. calls[n] \in MadeCall /\ On("profile") /\ ~calls[n].switched /\ OwnForm(calls[n])
  BY <1>1 DEF Pending, Made, Unmade, Over, FormsTypeOK, CallsOwn
<1>3. behindOf' \subseteq UserId /\ behindOf \subseteq behindOf'
  BY <1>1 DEF FormsTypeOK
<1>4. \A u \in UserId : ~Executed(n, u)
  BY <1>1 DEF Executed
<1>5. CASE calls' = [calls EXCEPT ![n] = Over]
  <2>1. \A k \in CallNo : calls'[k] = IF k = n THEN Over ELSE calls[k]
    BY <1>5 DEF FormsTypeOK
  <2>2. calls' \in [CallNo -> MadeCall \cup {Unmade, Over}]
    BY <1>5 DEF FormsTypeOK
  <2>3. \A k \in CallNo : CallOK(k)
    BY <1>4, <2>1, OverCallOK, SameCallOK
  <2> QED BY <1>1, <1>3, <2>2, <2>3, CallsStep
<1>6. CASE calls' # [calls EXCEPT ![n] = Over]
  <2> DEFINE blind == calls[n].blind \/ ~HasRow(chosen)
             switched == chosen # calls[n].target
             c == [ kind |-> "save", at |-> "sent", target |-> chosen, key |-> chosen,
                    bound |-> TRUE, of |-> calls[n].of, blind |-> blind, switched |-> switched,
                    reloaded |-> reloaded ]
  <2>1. /\ calls[n].bound /\ ~Made(m)
        /\ calls' = [k \in CallNo |->
              IF k = m THEN c
              ELSE IF k = n THEN Over
              ELSE IF Pending(k) /\ calls[k].kind = "save" THEN [calls[k] EXCEPT !.bound = FALSE]
              ELSE calls[k]]
    BY <1>6 DEF AnswerUpload, NextCall, Mutation
  <2>2. chosen # Nobody /\ chosen \in UserId
    BY <1>1, <2>1 DEF BoundCalls, FormsTypeOK
  <2>3. blind \in BOOLEAN /\ switched \in BOOLEAN
    OBVIOUS
  <2>4. ~On("plan")
    BY <1>2 DEF On
  <2>5. calls[n].of # chosen => blind \/ switched
    BY <1>2, <2>4 DEF OwnForm
  <2> HIDE DEF blind, switched
  <2>6. /\ c \in MadeCall /\ c.kind = "save" /\ c.target = chosen /\ c.of = calls[n].of
        /\ c.blind = blind /\ c.switched = switched
    BY <1>2, <2>2, <2>3 DEF MadeCall, FormsTypeOK
  <2>7. OwnForm(c)
    BY <2>4, <2>5, <2>6 DEF OwnForm
  <2> HIDE DEF c
  <2>8. CallOK(m)
    <3>1. calls'[m] = c
      BY <2>1
    <3> QED BY <2>1, <2>2, <2>6, <2>7, <3>1 DEF CallOK, Executed, Pending
  <2>9. ASSUME NEW k \in CallNo \ {m} PROVE CallOK(k)
    <3>1. CASE k = n
      BY <1>4, <2>1, <2>9, <3>1, OverCallOK
    <3>2. CASE k # n /\ Pending(k) /\ calls[k].kind = "save"
      BY <2>1, <2>9, <3>2, SameCallOK
    <3>3. CASE k # n /\ ~(Pending(k) /\ calls[k].kind = "save")
      BY <2>1, <2>9, <3>3, SameCallOK
    <3> QED BY <3>1, <3>2, <3>3
  <2>10. ASSUME NEW k \in CallNo PROVE calls'[k] \in MadeCall \cup {Unmade, Over}
    <3>1. CASE k # m /\ k # n /\ Pending(k)
      <4>1. calls[k] \in MadeCall
        BY <3>1 DEF Pending, Made, Unmade, Over, FormsTypeOK
      <4>2. [calls[k] EXCEPT !.bound = FALSE] \in MadeCall
        BY <4>1 DEF MadeCall
      <4> QED BY <2>1, <3>1, <4>1, <4>2
    <3>2. CASE k = m \/ k = n \/ ~Pending(k)
      BY <2>1, <2>6, <3>2 DEF FormsTypeOK
    <3> QED BY <3>1, <3>2
  <2>11. calls' \in [CallNo -> MadeCall \cup {Unmade, Over}]
    BY <2>1, <2>10
  <2> QED BY <1>1, <1>3, <2>8, <2>9, <2>11, CallsStep
<1> QED BY <1>5, <1>6

LEMMA ExecuteStep == ASSUME FormsInv, NEW n \in CallNo, Execute(n) PROVE FormsInv'
<1> USE DEF FormsInv
<1> DEFINE c == [calls[n] EXCEPT !.at = "executed"]
           u == calls[n].target
<1>1. /\ Pending(n) /\ calls' = [calls EXCEPT ![n] = c]
      /\ rows' = IF calls[n].kind = "upload" THEN rows
                 ELSE [rows EXCEPT ![u] = [n |-> @.n + 1, there |-> calls[n].kind # "delete"]]
      /\ UNCHANGED <<page, chosen, form, queries, behindOf, reloaded>>
  BY DEF Execute
<1>2. calls[n] \in MadeCall /\ u \in UserId
  BY <1>1 DEF Pending, Made, Unmade, Over, FormsTypeOK, MadeCall
<1>3. /\ c \in MadeCall /\ c.kind = calls[n].kind /\ c.at = "executed"
      /\ c.target = calls[n].target /\ c.of = calls[n].of /\ c.bound = calls[n].bound
      /\ c.blind = calls[n].blind /\ c.reloaded = calls[n].reloaded
      /\ c.switched = calls[n].switched
  BY <1>2 DEF MadeCall
<1> HIDE DEF c
<1>4. \A m \in CallNo : calls'[m] = IF m = n THEN c ELSE calls[m]
  BY <1>1 DEF FormsTypeOK
<1>5. FormsTypeOK'
  <2>1. calls' \in [CallNo -> MadeCall \cup {Unmade, Over}]
    BY <1>1, <1>3 DEF FormsTypeOK
  <2>2. [n |-> rows[u].n + 1, there |-> calls[n].kind # "delete"] \in AnyRow
    BY <1>2 DEF FormsTypeOK, AnyRow
  <2>3. rows' \in [UserId -> AnyRow]
    BY <1>1, <1>2, <2>2 DEF FormsTypeOK
  <2> QED BY <1>1, <2>1, <2>3 DEF FormsTypeOK
<1>6. FormOK'
  BY <1>1, FormKept
<1>7. BoundCalls'
  BY <1>1, <1>3, <1>4 DEF BoundCalls, Pending, Made
<1>8. CallsOwn'
  BY <1>1, <1>3, <1>4 DEF CallsOwn, OwnForm, On
<1>9. ASSUME NEW w \in UserId PROVE QueryOK(w)'
  <2>1. Undisturbed(w)' => Undisturbed(w)
    BY <1>1, <1>3, <1>4 DEF Undisturbed, Executed, Pending, Made
  <2>2. ShowsSame(w)
    BY <1>1 DEF ShowsSame, QueryOK
  <2>3. CASE rows'[w] = rows[w]
    BY <2>1, <2>2, <2>3, QueryKept
  <2>4. CASE rows'[w] # rows[w]
    <3>1. calls[n].kind # "upload" /\ w = u
      BY <1>1, <1>2, <2>4 DEF FormsTypeOK
    <3>2. Executed(n, w)'
      BY <1>1, <1>3, <1>4, <3>1 DEF Executed, Pending, Made
    <3>3. ~Undisturbed(w)'
      BY <3>2 DEF Undisturbed
    <3> QED BY <1>1, <3>3 DEF QueryOK
  <2> QED BY <2>3, <2>4
<1> QED BY <1>5, <1>6, <1>7, <1>8, <1>9

LEMMA AnswerCallStep == ASSUME FormsInv, NEW n \in CallNo, AnswerCall(n) PROVE FormsInv'
<1> USE DEF FormsInv
<1> DEFINE key == calls[n].key
           u == calls[n].target
           isShown == key = chosen
           q == Invalidated(queries[key], isShown)
<1>1. /\ Pending(n) /\ calls[n].kind # "upload" /\ calls' = [calls EXCEPT ![n] = Over]
      /\ queries' = [queries EXCEPT ![key] = q]
      /\ behindOf' = IF key # u \/ (~isShown /\ queries[key].fetch # "none")
                     THEN behindOf \cup {u} ELSE behindOf
      /\ UNCHANGED <<page, chosen, form, rows, reloaded>>
  BY DEF AnswerCall
<1>2. u \in UserId /\ key \in UserId /\ isShown \in BOOLEAN
  BY <1>1 DEF Pending, Made, Unmade, Over, FormsTypeOK, MadeCall
<1>3. /\ q \in Query /\ q.row = queries[key].row /\ q.known = queries[key].known /\ q.old
      /\ isShown => q.fetch = "asked"
      /\ ~isShown => q.fetch = queries[key].fetch /\ q.answer = queries[key].answer
  <2>1. queries[key] \in Query
    BY <1>2 DEF FormsTypeOK
  <2> HIDE DEF isShown
  <2> QED BY <1>2, <2>1, QueriesAreTyped
<1> HIDE DEF q, key, isShown
<1>4. \A m \in CallNo : calls'[m] = IF m = n THEN Over ELSE calls[m]
  BY <1>1 DEF FormsTypeOK
<1>5. \A w \in UserId : queries'[w] = IF w = key THEN q ELSE queries[w]
  BY <1>1 DEF FormsTypeOK
<1>6. FormsTypeOK'
  BY <1>1, <1>2, <1>3 DEF FormsTypeOK
<1>7. FormOK'
  BY <1>1, <1>3, <1>5, FormKept
<1>8. BoundCalls' /\ CallsOwn'
  BY <1>1, <1>4 DEF BoundCalls, CallsOwn, OwnForm, On, Pending, Made, Over
<1>9. ASSUME NEW w \in UserId PROVE QueryOK(w)'
  <2>1. ShowsSame(w)
    BY <1>3, <1>5 DEF ShowsSame, QueryOK
  <2>2. CASE w # u \/ u \in behindOf'
    <3>1. \A m \in CallNo : Executed(m, w) => Executed(m, w)' \/ w \in behindOf'
      BY <1>4, <2>2 DEF Executed, Pending, Made
    <3>2. behindOf \subseteq behindOf'
      BY <1>1
    <3>3. Undisturbed(w)' => Undisturbed(w)
      BY <3>1, <3>2, CallsSettle
    <3> QED BY <1>1, <2>1, <3>3, QueryKept
  <2>3. CASE w = u /\ u \notin behindOf'
    <3>1. key = u /\ (isShown \/ queries[key].fetch = "none")
      BY <1>1, <2>3
    <3>2. queries'[w] = q /\ q.fetch \in {"asked", "none"} /\ q.old
      BY <1>3, <1>5, <2>3, <3>1
    <3> QED BY <3>2 DEF QueryOK
  <2> QED BY <2>2, <2>3
<1> QED BY <1>6, <1>7, <1>8, <1>9

LEMMA ElsewhereStep == ASSUME FormsInv, NEW u \in UserId, Elsewhere(u) PROVE FormsInv'
<1> USE DEF FormsInv
<1>1. PICK there \in BOOLEAN : rows' = [rows EXCEPT ![u] = [n |-> @.n + 1, there |-> there]]
  BY DEF Elsewhere
<1>2. behindOf' = behindOf \cup {u} /\ UNCHANGED <<page, chosen, form, queries, calls, reloaded>>
  BY DEF Elsewhere
<1>3. FormsTypeOK'
  <2>1. [n |-> rows[u].n + 1, there |-> there] \in AnyRow
    BY DEF FormsTypeOK, AnyRow
  <2> QED BY <1>1, <1>2, <2>1 DEF FormsTypeOK
<1>4. FormOK'
  BY <1>2, FormKept
<1>5. BoundCalls' /\ CallsOwn'
  BY <1>2 DEF BoundCalls, CallsOwn, OwnForm, On, Pending, Made
<1>6. ASSUME NEW w \in UserId PROVE QueryOK(w)'
  <2>1. Undisturbed(w)' => Undisturbed(w) /\ w # u
    BY <1>2 DEF Undisturbed, Executed, Pending, Made
  <2>2. w # u => rows'[w] = rows[w]
    BY <1>1 DEF FormsTypeOK
  <2> QED BY <1>2, <2>1, <2>2 DEF QueryOK
<1> QED BY <1>3, <1>4, <1>5, <1>6

LEMMA FormsStep == ASSUME FormsInv, [FormsNext]_formVars PROVE FormsInv'
<1> USE DEF FormsInv
<1>1. ASSUME NEW u \in UserId, Ages(u) PROVE FormsInv'
  <2> DEFINE q == [queries[u] EXCEPT !.old = TRUE]
  <2>1. /\ queries' = [queries EXCEPT ![u] = q]
        /\ UNCHANGED <<page, chosen, form, rows, calls, behindOf, reloaded>>
    BY <1>1 DEF Ages, FetchOnly
  <2>2. /\ q \in Query /\ q.row = queries[u].row /\ q.known = queries[u].known /\ q.old
        /\ q.fetch = queries[u].fetch /\ q.answer = queries[u].answer
    BY DEF FormsTypeOK, Query
  <2> HIDE DEF q
  <2> QED BY <2>1, <2>2, QueryActionStep
<1>2. ASSUME Focus PROVE FormsInv'
  <2> DEFINE q == Mounted(queries[chosen])
  <2>1. /\ chosen \in UserId /\ queries' = [queries EXCEPT ![chosen] = q]
        /\ UNCHANGED <<page, chosen, form, rows, calls, behindOf, reloaded>>
    BY <1>2 DEF Focus, FetchOnly, FormsTypeOK
  <2>2. queries[chosen] \in Query
    BY <2>1 DEF FormsTypeOK
  <2>3. /\ q \in Query /\ q.row = queries[chosen].row /\ q.known = queries[chosen].known
        /\ q.old = queries[chosen].old /\ q.answer = queries[chosen].answer
        /\ q.fetch \in {queries[chosen].fetch, "asked"}
        /\ q.fetch # queries[chosen].fetch => queries[chosen].old
    BY <2>2, QueriesAreTyped
  <2>4. queries[chosen].fetch # "none" => queries[chosen].old
    BY <2>1 DEF QueryOK
  <2> HIDE DEF q
  <2> QED BY <2>1, <2>3, <2>4, QueryActionStep
<1>3. ASSUME NEW u \in UserId, FetchFails(u) PROVE FormsInv'
  <2> DEFINE q == Broken(queries[u])
  <2>1. /\ queries' = [queries EXCEPT ![u] = q]
        /\ UNCHANGED <<page, chosen, form, rows, calls, behindOf, reloaded>>
    BY <1>3 DEF FetchFails
  <2>2. queries[u] \in Query
    BY DEF FormsTypeOK
  <2>3. /\ q \in Query /\ q.row = queries[u].row /\ q.known = queries[u].known
        /\ q.old = queries[u].old /\ q.fetch = "none"
    BY <2>2, QueriesAreTyped
  <2> HIDE DEF q
  <2> QED BY <2>1, <2>3, QueryActionStep
<1>4. CASE UNCHANGED formVars
  <2>1. UNCHANGED <<page, chosen, form, rows, queries, calls, behindOf, reloaded>>
    BY <1>4 DEF formVars
  <2> QED BY <2>1 DEF FormsTypeOK, FormOK, BoundCalls, CallsOwn, OwnForm, QueryOK, Undisturbed,
                      Executed, Pending, Made, HasRow, On
<1> QED BY <1>1, <1>2, <1>3, <1>4, ChooseStep, LeavePageStep, FetchReadsStep, FetchArrivesStep,
           MutateStep, ExecuteStep, AnswerCallStep, AnswerUploadStep, CallIsLostStep,
           ElsewhereStep
    DEF FormsNext

\* For any number of users, mutations and writes of others: what a page saves is its user's
\* form but for the reasons that are named, and data that count as fresh are the row's
\* (ProfilePage, CareerPlanPage, SubscriptionPage).
THEOREM FormsKeepToTheirUser == FormsSpec => []FormsAreSound
<1>1. ASSUME FormsInv PROVE FormsAreSound
  <2>1. SavedIsOwn
    BY <1>1 DEF FormsInv, CallsOwn, OwnForm, SavedIsOwn
  <2>2. FreshIsCurrent
    BY <1>1 DEF FormsInv, QueryOK, Undisturbed, Executed, FreshIsCurrent
  <2> QED BY <2>1, <2>2 DEF FormsAreSound
<1> QED BY <1>1, FormsStart, FormsStep, PTL DEF FormsSpec

-----------------------------------------------------------------------------
(* The dialogue about the profile                                          *)

Counted == Len(Steps)

Given(answers, i) == answers[Steps[i]] # Empty

\* Who is at x, in the FSM or with the keyboard of x before him, has given the answers
\* that come before x.
Reached(x, answers) ==
    /\ \A i \in 1..Counted : x = Steps[i] => \A j \in 1..i - 1 : Given(answers, j)
    /\ x \in {"skills", "confirm"} => \A j \in 1..Counted - 1 : Given(answers, j)
    /\ x = "confirm" => answers["skills"] # Empty

Follows(c) == ~c.strayed => Reached(c.state, c.answers) /\ Reached(c.shown, c.answers)

AnswersInv == Follows(chat)

ProfileJob == {"field", "typed", "merge"}

OneFieldOf(base, payload) ==
    /\ base \in Profile /\ payload \in Profile
    /\ \E f \in Field : \A g \in Field \ {f} : payload[g] = base[g]

\* What a handler is about to save.
JobOK(job) ==
    /\ job.op \in {"start", "settings"} => job.at = "settle"
    /\ job.op = "all" => job.payload \in Profile /\ (job.stray \/ Reached("confirm", job.payload))
    /\ job.op \in ProfileJob /\ job.at = "call" => OneFieldOf(job.base, job.payload)
    /\ job.op = "delete" => job.payload = Absent

JobsInv == \A h \in Update : jobs[h] # Idle => JobOK(jobs[h])

DialogueInv == DialogueTypeOK /\ AnswersInv /\ JobsInv

LEMMA StepFacts ==
    /\ Counted \in Nat \ {0}
    /\ \A i \in 1..Counted : Steps[i] \in Asked
    /\ \A i, j \in 1..Counted : Steps[i] = Steps[j] => i = j
    /\ \A f \in Asked : \E i \in 1..Counted : f = Steps[i]
    /\ Last(Steps) = Steps[Counted] /\ Last(Steps) \in Asked
<1>1. Steps \in Seq(STRING) /\ Steps # <<>>
  BY DialogueAssumption
<1>2. Counted \in Nat /\ DOMAIN Steps = 1..Counted /\ Counted # 0
  BY <1>1 DEF Counted
<1>3. \A i, j \in 1..Counted : Steps[i] = Steps[j] => i = j
  BY <1>2, DialogueAssumption DEF IsInjective
<1>4. Asked = {Steps[i] : i \in 1..Counted}
  BY <1>2 DEF Asked, Range
<1>5. Last(Steps) = Steps[Counted]
  BY DEF Last, Counted
<1> QED BY <1>2, <1>3, <1>4, <1>5

\* The marks are no steps, and "skills" is a field of its own.
LEMMA MarkFacts ==
    /\ \A x \in Mark : x \notin Asked
    /\ Asked \subseteq Field /\ "skills" \in Field
    /\ Nothing \in Profile /\ Absent \notin Profile
    /\ \A p \in Profile : \A f \in Field : p[f] \in Value \cup {Empty}
    /\ \A v \in Value : v # Empty
BY DialogueAssumption DEF Field, Nothing, Profile

LEMMA AfterStepIs ==
    ASSUME NEW i \in 1..Counted
    PROVE  AfterStep(Steps[i]) = IF i = Counted THEN "skills" ELSE Steps[i + 1]
<1> DEFINE k == CHOOSE k \in DOMAIN Steps : Steps[k] = Steps[i]
<1>1. DOMAIN Steps = 1..Counted
  BY DialogueAssumption DEF Counted
<1>2. k \in 1..Counted /\ Steps[k] = Steps[i]
  BY <1>1
<1>3. k = i
  BY <1>2, StepFacts
<1>4. AfterStep(Steps[i]) = IF k = Counted THEN "skills" ELSE Steps[k + 1]
  BY Zenon DEF AfterStep, Counted
<1> QED BY <1>3, <1>4

\* Before a mark that is neither the skills nor the confirmation, nothing is asked.
LEMMA ReachedMark ==
    ASSUME NEW x \in Mark \ {"skills", "confirm"}, NEW answers PROVE Reached(x, answers)
BY StepFacts, MarkFacts DEF Reached

LEMMA ReachedPrompt ==
    ASSUME NEW x, NEW answers, Reached(x, answers) PROVE Reached(PromptOf(x), answers)
<1>1. PromptOf(x) \in {x, "none"}
  BY DEF PromptOf
<1>2. Reached("none", answers)
  BY ReachedMark DEF Mark
<1> QED BY <1>1, <1>2

\* What is required is kept, when an answer is given.
LEMMA ReachedStays ==
    ASSUME NEW x, NEW f \in Field, NEW answers \in Profile, NEW new, Reached(x, answers),
           new = [answers EXCEPT ![f] = new[f]], new[f] # Empty \/ f = Last(Steps)
    PROVE  Reached(x, new)
<1>1. \A g \in Field : g # f => new[g] = answers[g]
  BY DEF Profile
<1>2. \A j \in 1..Counted : Given(answers, j) /\ j # Counted => Given(new, j)
  BY <1>1, StepFacts, MarkFacts DEF Given
<1>3. \A i \in 1..Counted : x = Steps[i] => \A j \in 1..i - 1 : Given(new, j)
  <2> TAKE i \in 1..Counted
  <2> HAVE x = Steps[i]
  <2> TAKE j \in 1..i - 1
  <2>1. j \in 1..Counted /\ j # Counted
    BY StepFacts
  <2> QED BY <2>1, <1>2 DEF Reached
<1>4. x \in {"skills", "confirm"} => \A j \in 1..Counted - 1 : Given(new, j)
  <2> HAVE x \in {"skills", "confirm"}
  <2> TAKE j \in 1..Counted - 1
  <2>1. j \in 1..Counted /\ j # Counted
    BY StepFacts
  <2> QED BY <2>1, <1>2 DEF Reached
<1>5. x = "confirm" => new["skills"] # Empty
  <2>1. f = Last(Steps) => f # "skills"
    BY StepFacts, MarkFacts DEF Mark
  <2>2. CASE f = "skills"
    BY <2>1, <2>2
  <2>3. CASE f # "skills"
    BY <2>3, <1>1, MarkFacts DEF Reached
  <2> QED BY <2>2, <2>3
<1> QED BY <1>3, <1>4, <1>5 DEF Reached

\* Who gives the answer that he is asked for reaches what comes after it.
LEMMA ReachedNext ==
    ASSUME NEW f \in Asked, NEW answers \in Profile, NEW new, Reached(f, answers),
           new = [answers EXCEPT ![f] = new[f]], new[f] # Empty \/ f = Last(Steps)
    PROVE  Reached(AfterStep(f), new)
<1>1. PICK i \in 1..Counted : f = Steps[i]
  BY StepFacts
<1>2. Reached(f, new)
  BY ReachedStays, MarkFacts
<1>3. \A j \in 1..i - 1 : Given(new, j)
  BY <1>1, <1>2 DEF Reached
<1>4. CASE i = Counted
  <2>1. AfterStep(f) = "skills"
    BY <1>1, <1>4, AfterStepIs
  <2>2. "skills" \notin Asked
    BY MarkFacts DEF Mark
  <2> QED BY <1>3, <1>4, <2>1, <2>2, StepFacts DEF Reached
<1>5. CASE i # Counted
  <2>1. i + 1 \in 1..Counted /\ AfterStep(f) = Steps[i + 1]
    BY <1>1, <1>5, AfterStepIs, StepFacts
  <2>2. f # Last(Steps) /\ Given(new, i)
    BY <1>1, <1>5, StepFacts DEF Given
  <2>3. \A j \in 1..i : Given(new, j)
    BY <1>3, <2>2
  <2>4. AfterStep(f) \notin {"skills", "confirm"}
    BY <2>1, StepFacts, MarkFacts DEF Mark
  <2>5. \A k \in 1..Counted : AfterStep(f) = Steps[k] => k = i + 1
    BY <2>1, StepFacts
  <2>6. (i + 1) - 1 = i
    OBVIOUS
  <2> QED BY <2>3, <2>4, <2>5, <2>6 DEF Reached
<1> QED BY <1>4, <1>5

LEMMA SayKeeps ==
    ASSUME DialogueInv, NEW new, Say(new), new \in Chat, Follows(new) PROVE DialogueInv'
<1>1. chat' = new /\ profile' = profile /\ jobs' = jobs /\ writer' = writer
  BY DEF Say
<1>2. DialogueTypeOK'
  BY <1>1 DEF DialogueInv, DialogueTypeOK
<1>3. AnswersInv'
  BY <1>1 DEF AnswersInv
<1>4. JobsInv'
  BY <1>1 DEF DialogueInv, JobsInv
<1> QED BY <1>2, <1>3, <1>4 DEF DialogueInv

LEMMA GoToFacts ==
    ASSUME chat \in Chat, NEW x \in State
    PROVE  /\ GoTo(x) \in Chat
           /\ GoTo(x) = [chat EXCEPT !.state = x, !.shown = PromptOf(x)]
           /\ GoTo(x).state = x /\ GoTo(x).shown = PromptOf(x)
           /\ GoTo(x).answers = chat.answers /\ GoTo(x).strayed = chat.strayed
           /\ PromptOf(x) \in State
<1>1. PromptOf(x) \in State
  BY DEF PromptOf, State
<1> QED BY <1>1 DEF GoTo, Chat

LEMMA GoToFollows ==
    ASSUME chat \in Chat, NEW x \in State, chat.strayed \/ Reached(x, chat.answers)
    PROVE  Follows(GoTo(x))
<1>1. /\ GoTo(x).state = x /\ GoTo(x).shown = PromptOf(x)
      /\ GoTo(x).answers = chat.answers /\ GoTo(x).strayed = chat.strayed
  BY GoToFacts
<1>2. Reached(x, chat.answers) => Reached(PromptOf(x), chat.answers)
  BY ReachedPrompt
<1> QED BY <1>1, <1>2, Zenon DEF Follows

LEMMA ClearedFacts ==
    ASSUME NEW x \in State \cup {"exists", "settings", "restart"}
    PROVE  Cleared(x) \in Chat /\ Cleared(x).state = "none" /\ Cleared(x).shown = x
BY MarkFacts DEF Cleared, Chat, State

\* In a cleared dialogue, or at its first step, nothing had to be answered before.
LEMMA FreshFollows ==
    ASSUME NEW c, NEW x \in Mark \ {"skills", "confirm"}, NEW y \in Mark \ {"skills", "confirm"},
           c.state = x, c.shown = y
    PROVE  Follows(c)
BY ReachedMark DEF Follows

LEMMA NewFacts == NewOnboarding \in Chat /\ Follows(NewOnboarding)
<1>1. Steps[1] \in Asked
  BY StepFacts
<1>2. /\ NewOnboarding \in Chat
      /\ NewOnboarding.state = Steps[1] /\ NewOnboarding.shown = Steps[1]
  BY <1>1, MarkFacts DEF NewOnboarding, Cleared, Chat, State
<1>3. \A answers : Reached(Steps[1], answers)
  BY <1>1, StepFacts, MarkFacts DEF Reached, Mark
<1> QED BY <1>2, <1>3 DEF Follows

LEMMA AfterIsState == ASSUME NEW f \in Asked PROVE AfterStep(f) \in State
<1>1. PICK i \in 1..Counted : f = Steps[i]
  BY StepFacts
<1>2. i # Counted => i + 1 \in 1..Counted
  BY StepFacts
<1> QED BY <1>1, <1>2, AfterStepIs, StepFacts DEF State

LEMMA AnswerFacts ==
    ASSUME NEW f \in Asked, NEW v \in Answer(f)
    PROVE  v \in Value \cup {Empty} /\ (v # Empty \/ f = Last(Steps))
BY MarkFacts DEF Answer

LEMMA SelectStep ==
    ASSUME DialogueInv, NEW f \in Asked, NEW v \in Answer(f), NEW typed \in BOOLEAN,
           Select(f, v, typed)
    PROVE  DialogueInv'
<1> DEFINE x == AfterStep(f)
           strays == chat.strayed \/ (~typed /\ Strays(f))
           given == [chat.answers EXCEPT ![f] = v]
           new == [GoTo(x) EXCEPT !.answers[f] = v, !.strayed = @ \/ (~typed /\ Strays(f))]
<1>1. chat \in Chat /\ Follows(chat) /\ chat.answers \in Profile /\ chat.strayed \in BOOLEAN
  BY DEF DialogueInv, DialogueTypeOK, AnswersInv, Chat
<1>2. x \in State
  BY AfterIsState
<1>3. Say(new) /\ (typed => chat.state = f)
  BY DEF Select
<1>4. given \in Profile /\ given[f] = v
  BY <1>1, MarkFacts, AnswerFacts DEF Profile
<1>5. strays \in BOOLEAN /\ new.strayed = strays
  BY <1>1, <1>2, GoToFacts, Zenon DEF Chat
<1>6. new \in Chat /\ new.answers = given /\ new.state = x /\ new.shown = PromptOf(x)
  <2>1. PICK b \in BOOLEAN : b = strays
    BY <1>5
  <2>2. GoTo(x) \in Chat /\ GoTo(x).answers = chat.answers /\ GoTo(x).strayed = chat.strayed
        /\ GoTo(x).state = x /\ GoTo(x).shown = PromptOf(x)
    BY <1>1, <1>2, GoToFacts
  <2>3. new = [[GoTo(x) EXCEPT !.answers = given] EXCEPT !.strayed = b]
    BY <2>1, <2>2, Zenon
  <2> HIDE DEF given, new
  <2> QED BY <1>4, <2>2, <2>3 DEF Chat
<1>7. ~strays => Reached(x, given)
  <2> HAVE ~strays
  <2>1. Reached(f, chat.answers)
    BY <1>1, <1>3 DEF Follows, Strays
  <2>2. v # Empty \/ f = Last(Steps)
    BY AnswerFacts
  <2> HIDE DEF given
  <2>3. given = [chat.answers EXCEPT ![f] = given[f]] /\ given[f] = v
    BY <1>4 DEF given
  <2> QED BY <1>1, <2>1, <2>2, <2>3, ReachedNext
<1>8. Follows(new)
  BY <1>5, <1>6, <1>7, ReachedPrompt DEF Follows
<1> QED BY <1>3, <1>6, <1>8, SayKeeps

\* What the skills are does not matter before the confirmation.
LEMMA SkillsStep ==
    ASSUME DialogueInv, NEW v \in Value, TypeSkills(v) \/ AddSkill(v)
    PROVE  DialogueInv'
<1> DEFINE given == [chat.answers EXCEPT !["skills"] = v]
<1>1. chat \in Chat /\ Follows(chat) /\ chat.answers \in Profile /\ chat.state = "skills"
  BY DEF DialogueInv, DialogueTypeOK, AnswersInv, Chat, TypeSkills, AddSkill
<1>2. given \in Profile /\ given["skills"] = v /\ v # Empty
  BY <1>1, MarkFacts DEF Profile
<1>3. \A x : Reached(x, chat.answers) => Reached(x, given)
  <2> TAKE x
  <2> HAVE Reached(x, chat.answers)
  <2> HIDE DEF given
  <2>1. given = [chat.answers EXCEPT !["skills"] = given["skills"]]
    BY <1>2 DEF given
  <2> QED BY <1>1, <1>2, <2>1, ReachedStays, MarkFacts
<1>4. Reached("skills", given) => Reached("confirm", given)
  BY <1>2, MarkFacts, StepFacts DEF Reached, Mark
<1>5. CASE TypeSkills(v)
  <2> DEFINE new == [GoTo("confirm") EXCEPT !.answers["skills"] = v]
  <2>1. "confirm" \in State /\ PromptOf("confirm") = "confirm"
    BY DEF State, PromptOf
  <2>2. new \in Chat /\ new.answers = given /\ new.state = "confirm" /\ new.shown = "confirm"
        /\ new.strayed = chat.strayed
    BY <1>1, <1>2, <2>1, GoToFacts DEF Chat
  <2>3. Follows(new)
    BY <1>1, <1>3, <1>4, <2>2 DEF Follows
  <2>4. Say(new)
    BY <1>5 DEF TypeSkills
  <2> QED BY <2>2, <2>3, <2>4, SayKeeps
<1>6. CASE AddSkill(v)
  <2> DEFINE new == [chat EXCEPT !.answers["skills"] = v]
  <2>1. new \in Chat /\ new.answers = given /\ new.state = chat.state /\ new.shown = chat.shown
        /\ new.strayed = chat.strayed
    BY <1>1, <1>2 DEF Chat
  <2>2. Follows(new)
    BY <1>1, <1>3, <2>1 DEF Follows
  <2>3. Say(new)
    BY <1>6 DEF AddSkill
  <2> QED BY <2>1, <2>2, <2>3, SayKeeps
<1> QED BY <1>5, <1>6

LEMMA MoveStep ==
    ASSUME DialogueInv,
           \/ EditSkills \/ ChooseSkillsField \/ SkipResume \/ AcceptResume \/ ResumeCommand
           \/ ResumeOnboarding \/ RestartOnboarding \/ StartAgain \/ Leave \/ Return
    PROVE  DialogueInv'
<1>1. chat \in Chat /\ Follows(chat) /\ chat.strayed \in BOOLEAN /\ chat.state \in State
  BY DEF DialogueInv, DialogueTypeOK, AnswersInv, Chat
<1>2. /\ Cleared("none") \in Chat /\ Cleared("none").state = "none"
      /\ Cleared("none").shown = "none"
  BY ClearedFacts DEF State
<1>3. Follows(Cleared("none"))
  BY <1>2, FreshFollows DEF Mark
<1>4. ASSUME Say(Cleared("none")) PROVE DialogueInv'
  BY <1>2, <1>3, <1>4, SayKeeps
<1>5. ASSUME NEW x \in Mark \ {"skills", "confirm"}, x \in State, Say(GoTo(x)) PROVE DialogueInv'
  BY <1>1, <1>5, GoToFacts, GoToFollows, ReachedMark, SayKeeps
<1>6. ASSUME Say(NewOnboarding) PROVE DialogueInv'
  BY <1>6, NewFacts, SayKeeps
<1>7. CASE EditSkills
  <2> DEFINE new == [GoTo("skills") EXCEPT !.strayed = Strays("confirm")]
  <2>1. PICK b \in BOOLEAN : b = Strays("confirm")
    BY <1>1 DEF Strays
  <2>2. new = [GoTo("skills") EXCEPT !.strayed = b]
    BY <2>1, Zenon
  <2>3. /\ GoTo("skills") \in Chat /\ GoTo("skills").answers = chat.answers
        /\ GoTo("skills").state = "skills" /\ GoTo("skills").shown = "none"
    <3>1. "skills" \in State /\ PromptOf("skills") = "none"
      BY MarkFacts DEF State, PromptOf, Mark
    <3> QED BY <1>1, <3>1, GoToFacts
  <2>4. /\ new \in Chat /\ new.state = "skills" /\ new.shown = "none" /\ new.strayed = b
        /\ new.answers = chat.answers
    BY <2>2, <2>3 DEF Chat
  <2>5. ~b => Reached("confirm", chat.answers)
    BY <1>1, <2>1 DEF Strays, Follows
  <2>6. Reached("confirm", chat.answers) => Reached("skills", chat.answers)
    BY MarkFacts, StepFacts DEF Reached, Mark
  <2>7. Reached("none", chat.answers)
    BY ReachedMark DEF Mark
  <2>8. Follows(new)
    BY <2>4, <2>5, <2>6, <2>7 DEF Follows
  <2> QED BY <1>7, <2>4, <2>8, SayKeeps DEF EditSkills
<1>8. CASE ChooseSkillsField
  BY <1>5, <1>8 DEF ChooseSkillsField, Mark, State
<1>9. CASE SkipResume
  BY <1>4, <1>9 DEF SkipResume
<1>10. CASE AcceptResume
  <2> DEFINE new == [GoTo("file") EXCEPT !.flow = "resume"]
  <2>1. "file" \in State /\ "file" \in Mark \ {"skills", "confirm"}
    BY DEF State, Mark
  <2>2. Follows(GoTo("file")) /\ GoTo("file") \in Chat
    BY <1>1, <2>1, GoToFacts, GoToFollows, ReachedMark
  <2>3. /\ new \in Chat /\ new.state = GoTo("file").state /\ new.shown = GoTo("file").shown
        /\ new.strayed = GoTo("file").strayed /\ new.answers = GoTo("file").answers
    BY <2>2 DEF Chat
  <2>4. Follows(new)
    BY <2>2, <2>3 DEF Follows
  <2> QED BY <1>10, <2>3, <2>4, SayKeeps DEF AcceptResume
<1>11. CASE ResumeCommand
  <2> DEFINE new == [Cleared("none") EXCEPT !.flow = "resume", !.state = "file"]
  <2>1. new \in Chat /\ new.state = "file" /\ new.shown = "none"
    BY <1>2 DEF Chat, State
  <2>2. Follows(new)
    BY <2>1, FreshFollows DEF Mark
  <2> QED BY <1>11, <2>1, <2>2, SayKeeps DEF ResumeCommand
<1>12. CASE ResumeOnboarding
  <2> DEFINE x == IF chat.state = "confirm" /\ chat.answers["skills"] = Empty THEN "skills"
                  ELSE chat.state
  <2>1. x \in State /\ (chat.strayed \/ Reached(x, chat.answers))
    BY <1>1 DEF Follows, Reached, State
  <2>2. Say(GoTo(x)) => DialogueInv'
    BY <1>1, <2>1, GoToFacts, GoToFollows, SayKeeps
  <2>3. Say(GoTo(x)) \/ Say(NewOnboarding)
    BY <1>12 DEF ResumeOnboarding
  <2> QED BY <1>6, <2>2, <2>3
<1>13. CASE RestartOnboarding
  BY <1>6, <1>13 DEF RestartOnboarding
<1>14. CASE StartAgain
  <2> DEFINE new == [chat EXCEPT !.shown = "restart"]
  <2>1. /\ new \in Chat /\ new.state = chat.state /\ new.shown = "restart"
        /\ new.strayed = chat.strayed /\ new.answers = chat.answers
    BY <1>1 DEF Chat
  <2>2. Follows(new)
    BY <1>1, <2>1, ReachedMark DEF Follows, Mark
  <2> QED BY <1>14, <2>1, <2>2, SayKeeps DEF StartAgain
<1>15. CASE Leave
  <2> DEFINE new == [Cleared("none") EXCEPT !.state = "elsewhere"]
  <2>1. new \in Chat /\ new.state = "elsewhere" /\ new.shown = "none"
    BY <1>2 DEF Chat, State
  <2>2. Follows(new)
    BY <2>1, FreshFollows DEF Mark
  <2>3. Say(new) => DialogueInv'
    BY <2>1, <2>2, SayKeeps
  <2>4. Say(GoTo("elsewhere")) => DialogueInv'
    BY <1>5 DEF Mark, State
  <2> QED BY <1>15, <2>3, <2>4 DEF Leave
<1>16. CASE Return
  BY <1>4, <1>16 DEF Return
<1> QED BY <1>7, <1>8, <1>9, <1>10, <1>11, <1>12, <1>13, <1>14, <1>15, <1>16

-----------------------------------------------------------------------------

\* A handler that prepares a call leaves the profile and, at most, gives an answer.
LEMMA PrepareKeeps ==
    ASSUME DialogueInv, NEW h \in Update, NEW job \in Job, JobOK(job), Prepare(h, job),
           profile' = profile, writer' = writer, chat' \in Chat, Follows(chat')
    PROVE  DialogueInv'
<1>1. jobs' = [jobs EXCEPT ![h] = job] /\ jobs \in [Update -> Job \cup {Idle}]
  BY DEF Prepare, DialogueInv, DialogueTypeOK
<1>2. jobs' \in [Update -> Job \cup {Idle}] /\ \A k \in Update : jobs'[k] \in {job, jobs[k]}
  BY <1>1
<1>3. DialogueTypeOK'
  BY <1>2 DEF DialogueInv, DialogueTypeOK
<1>4. JobsInv'
  BY <1>2 DEF DialogueInv, JobsInv
<1> QED BY <1>3, <1>4 DEF DialogueInv, AnswersInv

LEMMA PlainFacts ==
    ASSUME DialogueInv, NEW op \in {"start", "settings", "merge"}
    PROVE  Plain(op, "settle") \in Job /\ JobOK(Plain(op, "settle"))
BY DEF DialogueInv, DialogueTypeOK, Plain, Job, JobOK, ProfileJob

LEMMA MergedFacts ==
    ASSUME NEW base \in Profile, NEW f \in Field, NEW v \in Value \cup {Empty}
    PROVE  OneFieldOf(base, Merged(base, f, v))
<1>1. Merged(base, f, v) \in Profile /\ \A g \in Field \ {f} : Merged(base, f, v)[g] = base[g]
  BY DEF Merged, Profile
<1> QED BY <1>1 DEF OneFieldOf

LEMMA SavedField ==
    ASSUME DialogueInv, NEW h \in Update, NEW op \in ProfileJob, NEW f \in Field,
           NEW v \in Value \cup {Empty}, SaveField(h, op, f, v),
           profile' = profile, writer' = writer, chat' \in Chat, Follows(chat')
    PROVE  DialogueInv'
<1>1. PICK base \in Bases :
          Prepare(h, [op |-> op, at |-> "call", base |-> base, payload |-> Merged(base, f, v),
                      stray |-> FALSE])
  BY DEF SaveField
<1> DEFINE job == [op |-> op, at |-> "call", base |-> base, payload |-> Merged(base, f, v),
                   stray |-> FALSE]
<1>2. base \in Profile
  BY MarkFacts DEF Bases, DialogueInv, DialogueTypeOK, Chat
<1>3. OneFieldOf(base, Merged(base, f, v))
  BY <1>2, MergedFacts
<1>4. job \in Job /\ JobOK(job)
  BY <1>2, <1>3 DEF Job, JobOK, ProfileJob, OneFieldOf
<1> QED BY <1>1, <1>4, PrepareKeeps

LEMMA PrepareStep ==
    ASSUME DialogueInv, NEW h \in Update,
           \/ Start(h) \/ OpenSettings(h) \/ Confirm(h) \/ UploadAlone(h) \/ DeleteMe(h)
           \/ \E f \in Asked : \E v \in Answer(f) : ApplyValue(h, f, v)
           \/ \E v \in Value : TypeEditedSkills(h, v) \/ MergeResume(h, v)
    PROVE  DialogueInv'
<1>1. /\ chat \in Chat /\ Follows(chat) /\ chat.strayed \in BOOLEAN /\ chat.answers \in Profile
      /\ profile \in Profile \cup {Absent}
  BY DEF DialogueInv, DialogueTypeOK, AnswersInv, Chat
<1>2. ASSUME NEW job \in Job, JobOK(job), Prepare(h, job), UNCHANGED <<profile, chat, writer>>
      PROVE  DialogueInv'
  BY <1>1, <1>2, PrepareKeeps
<1>3. ASSUME NEW op \in {"start", "settings", "merge"}, Prepare(h, Plain(op, "settle")),
             UNCHANGED <<profile, chat, writer>>
      PROVE  DialogueInv'
  BY <1>2, <1>3, PlainFacts
<1>4. CASE Start(h)
  <2>1. CASE profile = Absent
    BY <1>3, <1>4, <2>1 DEF Start
  <2>2. CASE profile # Absent
    <3> DEFINE new == [chat EXCEPT !.shown = "exists"]
    <3>1. chat' = new /\ UNCHANGED <<profile, jobs, writer>>
      BY <1>4, <2>2 DEF Start
    <3>2. /\ new \in Chat /\ new.state = chat.state /\ new.shown = "exists"
          /\ new.strayed = chat.strayed /\ new.answers = chat.answers
      BY <1>1 DEF Chat
    <3>3. Follows(new)
      BY <1>1, <3>2, ReachedMark DEF Follows, Mark
    <3> QED BY <3>1, <3>2, <3>3, SayKeeps DEF Say
  <2> QED BY <2>1, <2>2
<1>5. CASE OpenSettings(h)
  BY <1>3, <1>5 DEF OpenSettings
<1>6. CASE Confirm(h)
  <2>1. PICK b \in BOOLEAN : b = Strays("confirm")
    BY <1>1 DEF Strays
  <2> DEFINE job == [op |-> "all", at |-> "call", base |-> profile, payload |-> chat.answers,
                     stray |-> b]
  <2>2. Prepare(h, job)
    BY <1>6, <2>1, Zenon DEF Confirm
  <2>3. ~b => Reached("confirm", chat.answers)
    BY <1>1, <2>1 DEF Strays, Follows
  <2>4. job \in Job /\ JobOK(job)
    BY <1>1, <2>3 DEF Job, JobOK, ProfileJob
  <2> QED BY <1>2, <1>6, <2>2, <2>4 DEF Confirm
<1>7. CASE UploadAlone(h)
  BY <1>3, <1>7 DEF UploadAlone
<1>8. CASE DeleteMe(h)
  <2> DEFINE job == [Plain("delete", "call") EXCEPT !.payload = Absent]
  <2>1. job \in Job /\ JobOK(job)
    BY <1>1 DEF Plain, Job, JobOK, ProfileJob
  <2> QED BY <1>2, <1>8, <2>1 DEF DeleteMe
<1>9. CASE \E f \in Asked : \E v \in Answer(f) : ApplyValue(h, f, v)
  <2>1. PICK f \in Asked : \E v \in Answer(f) : ApplyValue(h, f, v)
    BY <1>9
  <2>2. PICK v \in Answer(f) : ApplyValue(h, f, v)
    BY <2>1
  <2> QED BY <1>1, <2>2, AnswerFacts, MarkFacts, SavedField DEF ApplyValue, ProfileJob
<1>10. CASE \E v \in Value : TypeEditedSkills(h, v)
  BY <1>1, <1>10, MarkFacts, SavedField DEF TypeEditedSkills, ProfileJob
<1>11. CASE \E v \in Value : MergeResume(h, v)
  <2>1. PICK v \in Value : MergeResume(h, v)
    BY <1>11
  <2>2. CASE profile["skills"] = v
    BY <1>3, <2>1, <2>2 DEF MergeResume
  <2>3. CASE profile["skills"] # v
    <3> DEFINE job == [op |-> "merge", at |-> "call", base |-> profile,
                       payload |-> Merged(profile, "skills", v), stray |-> FALSE]
    <3>1. Prepare(h, job) /\ profile \in Profile
      BY <1>1, <2>1, <2>3 DEF MergeResume
    <3>2. OneFieldOf(profile, Merged(profile, "skills", v))
      BY <3>1, MergedFacts, MarkFacts
    <3>3. job \in Job /\ JobOK(job)
      BY <3>1, <3>2 DEF Job, JobOK, ProfileJob, OneFieldOf
    <3> QED BY <1>2, <2>1, <3>1, <3>3 DEF MergeResume
  <2> QED BY <2>2, <2>3
<1> QED BY <1>4, <1>5, <1>6, <1>7, <1>8, <1>9, <1>10, <1>11

\* A setting is an answer, too.
LEMMA SettingStep ==
    ASSUME DialogueInv, NEW h \in Update, NEW f \in Asked, NEW v \in Answer(f),
           NEW typed \in BOOLEAN, SelectSetting(h, f, v, typed)
    PROVE  DialogueInv'
<1> DEFINE given == [chat.answers EXCEPT ![f] = v]
           new == [chat EXCEPT !.answers[f] = v]
<1>1. chat \in Chat /\ Follows(chat) /\ chat.answers \in Profile
  BY DEF DialogueInv, DialogueTypeOK, AnswersInv, Chat
<1>2. f \in Field /\ v \in Value \cup {Empty} /\ (v # Empty \/ f = Last(Steps))
  BY AnswerFacts, MarkFacts
<1>3. given \in Profile /\ given[f] = v
  BY <1>1, <1>2 DEF Profile
<1>4. \A x : Reached(x, chat.answers) => Reached(x, given)
  <2> TAKE x
  <2> HAVE Reached(x, chat.answers)
  <2> HIDE DEF given
  <2>1. given = [chat.answers EXCEPT ![f] = given[f]]
    BY <1>3 DEF given
  <2> QED BY <1>1, <1>2, <1>3, <2>1, ReachedStays
<1>5. /\ new \in Chat /\ new.answers = given /\ new.state = chat.state
      /\ new.shown = chat.shown /\ new.strayed = chat.strayed
  BY <1>1, <1>3 DEF Chat
<1>6. Follows(new)
  BY <1>1, <1>4, <1>5 DEF Follows
<1>7. SaveField(h, "field", f, v) /\ chat' = new /\ profile' = profile /\ writer' = writer
  BY DEF SelectSetting
<1> HIDE DEF new
<1> QED BY <1>2, <1>5, <1>6, <1>7, SavedField DEF ProfileJob

-----------------------------------------------------------------------------

\* A handler that is over leaves the jobs of the others.
LEMMA JobOver ==
    ASSUME DialogueInv, NEW h \in Update, jobs' = [jobs EXCEPT ![h] = Idle]
    PROVE  jobs' \in [Update -> Job \cup {Idle}] /\ JobsInv'
<1>1. jobs \in [Update -> Job \cup {Idle}] /\ JobsInv
  BY DEF DialogueInv, DialogueTypeOK
<1>2. jobs' \in [Update -> Job \cup {Idle}] /\ \A k \in Update : jobs'[k] \in {Idle, jobs[k]}
  BY <1>1
<1> QED BY <1>1, <1>2 DEF JobsInv

LEMMA CallStep == ASSUME DialogueInv, NEW h \in Update, Call(h) PROVE DialogueInv'
<1>1. jobs \in [Update -> Job \cup {Idle}] /\ JobsInv
  BY DEF DialogueInv, DialogueTypeOK
<1>2. jobs[h] \in Job /\ JobOK(jobs[h])
  BY <1>1 DEF Call, JobsInv
<1> DEFINE job == [jobs[h] EXCEPT !.at = "settle"]
<1>3. job \in Job /\ JobOK(job)
  BY <1>2 DEF Job, JobOK, ProfileJob
<1>4. jobs' = [jobs EXCEPT ![h] = job] /\ profile' = jobs[h].payload /\ writer' = "bot"
      /\ chat' = chat
  BY DEF Call
<1> HIDE DEF job
<1>5. jobs' \in [Update -> Job \cup {Idle}] /\ \A k \in Update : jobs'[k] \in {job, jobs[k]}
  BY <1>1, <1>3, <1>4
<1>6. profile' \in Profile \cup {Absent}
  BY <1>2, <1>4 DEF Job
<1>7. DialogueTypeOK'
  BY <1>4, <1>5, <1>6 DEF DialogueInv, DialogueTypeOK
<1>8. JobsInv'
  BY <1>1, <1>3, <1>5 DEF JobsInv
<1> QED BY <1>4, <1>7, <1>8 DEF DialogueInv, AnswersInv

\* Where the dialogue is after a handler is over.
LEMMA SettledFacts ==
    ASSUME DialogueInv, NEW job \in Job PROVE Settled(job) \in Chat /\ Follows(Settled(job))
<1>1. chat \in Chat /\ Follows(chat) /\ chat.answers \in Profile
  BY DEF DialogueInv, DialogueTypeOK, AnswersInv, Chat
<1>2. job.payload \in Profile \cup {Absent}
  BY DEF Job
<1>3. CASE job.op = "start"
  BY <1>3, NewFacts DEF Settled
<1>4. CASE job.op = "settings"
  <2>1. Cleared("settings") \in Chat /\ Cleared("settings").state = "none"
        /\ Cleared("settings").shown = "settings"
    BY ClearedFacts
  <2> DEFINE new == [Cleared("settings") EXCEPT !.flow = "settings", !.cached = job.payload]
  <2>2. new \in Chat /\ new.state = "none" /\ new.shown = "settings"
    BY <1>2, <2>1 DEF Chat
  <2>3. Follows(new)
    BY <2>2, FreshFollows DEF Mark
  <2> QED BY <1>4, <2>2, <2>3 DEF Settled
<1>5. CASE job.op = "all"
  <2>1. "resume" \in State /\ "resume" \in Mark \ {"skills", "confirm"}
    BY DEF State, Mark
  <2>2. Follows(GoTo("resume")) /\ GoTo("resume") \in Chat
    BY <1>1, <2>1, GoToFacts, GoToFollows, ReachedMark
  <2> DEFINE new == [GoTo("resume") EXCEPT !.cached = job.payload]
  <2>3. /\ new \in Chat
        /\ new.state = GoTo("resume").state /\ new.shown = GoTo("resume").shown
        /\ new.strayed = GoTo("resume").strayed /\ new.answers = GoTo("resume").answers
    BY <1>2, <2>2 DEF Chat
  <2>4. Follows(new)
    BY <2>2, <2>3 DEF Follows
  <2> QED BY <1>5, <2>3, <2>4 DEF Settled
<1>6. CASE job.op \in {"field", "typed"}
  <2> DEFINE field == [InSettings EXCEPT !.cached = job.payload]
             typed == [InSettings EXCEPT !.cached = job.payload, !.state = "none"]
  <2>1. /\ field \in Chat /\ field.state = chat.state /\ field.shown = "settings"
        /\ field.strayed = chat.strayed /\ field.answers = chat.answers
    BY <1>1, <1>2 DEF InSettings, Chat
  <2>2. typed \in Chat /\ typed.state = "none" /\ typed.shown = "settings"
    BY <1>1, <1>2 DEF InSettings, Chat, State
  <2>3. Follows(field)
    BY <1>1, <2>1, ReachedMark DEF Follows, Mark
  <2>4. Follows(typed)
    BY <2>2, FreshFollows DEF Mark
  <2> QED BY <1>6, <2>1, <2>2, <2>3, <2>4 DEF Settled
<1>7. CASE job.op \in {"merge", "delete"}
  <2>1. Settled(job) = Cleared("none")
    BY <1>7 DEF Settled
  <2>2. /\ Cleared("none") \in Chat /\ Cleared("none").state = "none"
        /\ Cleared("none").shown = "none"
    BY ClearedFacts DEF State
  <2> QED BY <2>1, <2>2, FreshFollows DEF Mark
<1> QED BY <1>3, <1>4, <1>5, <1>6, <1>7 DEF Job

LEMMA SettleStep == ASSUME DialogueInv, NEW h \in Update, Settle(h) PROVE DialogueInv'
<1>1. jobs[h] \in Job
  BY DEF Settle, DialogueInv, DialogueTypeOK
<1>2. chat' \in Chat /\ Follows(chat')
  BY <1>1, SettledFacts DEF Settle
<1>3. jobs' \in [Update -> Job \cup {Idle}] /\ JobsInv'
  BY JobOver DEF Settle
<1> QED BY <1>2, <1>3 DEF Settle, DialogueInv, DialogueTypeOK, AnswersInv

LEMMA CallFailsStep == ASSUME DialogueInv, NEW h \in Update, CallFails(h) PROVE DialogueInv'
<1>1. chat \in Chat /\ Follows(chat) /\ jobs[h] \in Job
  BY DEF CallFails, DialogueInv, DialogueTypeOK, AnswersInv
<1> DEFINE typed == [chat EXCEPT !.state = "none"]
<1>2. /\ typed \in Chat /\ typed.state = "none" /\ typed.shown = chat.shown
      /\ typed.strayed = chat.strayed /\ typed.answers = chat.answers
  BY <1>1 DEF Chat, State
<1>3. Follows(typed)
  BY <1>1, <1>2, ReachedMark DEF Follows, Mark
<1>4. /\ Cleared("none") \in Chat /\ Cleared("none").state = "none"
      /\ Cleared("none").shown = "none"
  BY ClearedFacts DEF State
<1>5. Follows(Cleared("none"))
  BY <1>4, FreshFollows DEF Mark
<1>6. chat' \in {chat, typed, Cleared("none")}
  BY DEF CallFails
<1>7. chat' \in Chat /\ Follows(chat')
  BY <1>1, <1>2, <1>3, <1>4, <1>5, <1>6
<1>8. jobs' \in [Update -> Job \cup {Idle}] /\ JobsInv'
  BY JobOver DEF CallFails
<1> QED BY <1>7, <1>8 DEF CallFails, DialogueInv, DialogueTypeOK, AnswersInv

LEMMA CrashStep == ASSUME DialogueInv, Crash PROVE DialogueInv'
<1>1. /\ Cleared("none") \in Chat /\ Cleared("none").state = "none"
      /\ Cleared("none").shown = "none"
  BY ClearedFacts DEF State
<1>2. chat' \in Chat /\ Follows(chat')
  BY <1>1, FreshFollows DEF Crash, DialogueInv, DialogueTypeOK, AnswersInv, Mark
<1>3. jobs' \in [Update -> Job \cup {Idle}] /\ JobsInv'
  BY DEF Crash, JobsInv
<1> QED BY <1>2, <1>3 DEF Crash, DialogueInv, DialogueTypeOK, AnswersInv

LEMMA WebEditStep ==
    ASSUME DialogueInv, WebEdit PROVE DialogueInv' /\ profile' \in Profile \cup {Absent}
<1>1. profile' \in Profile \cup {Absent}
  <2>1. CASE profile' = Absent
    BY <2>1
  <2>2. ASSUME NEW f \in Edited, NEW v \in Value \cup {Empty},
               profile' = [(IF profile = Absent THEN Nothing ELSE profile) EXCEPT ![f] = v]
        PROVE  profile' \in Profile
    <3> DEFINE base == IF profile = Absent THEN Nothing ELSE profile
    <3>1. base \in Profile /\ f \in Field
      BY MarkFacts, DialogueAssumption DEF DialogueInv, DialogueTypeOK
    <3>2. profile' = [base EXCEPT ![f] = v]
      BY <2>2
    <3> HIDE DEF base
    <3> QED BY <3>1, <3>2 DEF Profile
  <2> QED BY <2>1, <2>2 DEF WebEdit
<1>2. writer' = "web" /\ UNCHANGED <<chat, jobs>>
  BY DEF WebEdit
<1> QED BY <1>1, <1>2 DEF DialogueInv, DialogueTypeOK, AnswersInv, JobsInv

LEMMA DialogueStart == ASSUME DialogueInit PROVE DialogueInv
<1>1. /\ Cleared("none") \in Chat /\ Cleared("none").state = "none"
      /\ Cleared("none").shown = "none"
  BY ClearedFacts DEF State
<1>2. Follows(chat) /\ chat \in Chat
  BY <1>1, FreshFollows DEF DialogueInit, Mark
<1>3. jobs \in [Update -> Job \cup {Idle}] /\ JobsInv
  BY DEF DialogueInit, JobsInv
<1> QED BY <1>2, <1>3, MarkFacts DEF DialogueInit, DialogueInv, DialogueTypeOK, AnswersInv

LEMMA AskStep == ASSUME DialogueInv, Ask PROVE DialogueInv' /\ UNCHANGED <<profile, writer>>
<1>1. CASE \E f \in Asked, typed \in BOOLEAN : \E v \in Answer(f) : Select(f, v, typed)
  <2>1. PICK f \in Asked, typed \in BOOLEAN : \E v \in Answer(f) : Select(f, v, typed)
    BY <1>1
  <2> QED BY <2>1, SelectStep DEF Select, Say
<1>2. CASE \E f \in Asked, typed \in BOOLEAN : \E v \in Answer(f) :
              \E h \in Update : SelectSetting(h, f, v, typed)
  <2>1. PICK f \in Asked, typed \in BOOLEAN : \E v \in Answer(f) :
              \E h \in Update : SelectSetting(h, f, v, typed)
    BY <1>2
  <2> QED BY <2>1, SettingStep DEF SelectSetting
<1>3. CASE \E v \in Value : TypeSkills(v) \/ AddSkill(v)
  BY <1>3, SkillsStep DEF TypeSkills, AddSkill, Say
<1>4. CASE \/ EditSkills \/ ChooseSkillsField \/ SkipResume \/ AcceptResume \/ ResumeCommand
           \/ ResumeOnboarding \/ RestartOnboarding \/ StartAgain \/ Leave \/ Return
  <2>1. \E new : Say(new)
    BY <1>4 DEF EditSkills, ChooseSkillsField, SkipResume, AcceptResume, ResumeCommand,
                ResumeOnboarding, RestartOnboarding, StartAgain, Leave, Return
  <2> QED BY <1>4, <2>1, MoveStep DEF Say
<1>5. CASE \E h \in Update :
              \/ Start(h) \/ OpenSettings(h) \/ Confirm(h) \/ UploadAlone(h) \/ DeleteMe(h)
              \/ \E f \in Asked : \E v \in Answer(f) : ApplyValue(h, f, v)
              \/ \E v \in Value : TypeEditedSkills(h, v) \/ MergeResume(h, v)
  <2>1. PICK h \in Update :
              \/ Start(h) \/ OpenSettings(h) \/ Confirm(h) \/ UploadAlone(h) \/ DeleteMe(h)
              \/ \E f \in Asked : \E v \in Answer(f) : ApplyValue(h, f, v)
              \/ \E v \in Value : TypeEditedSkills(h, v) \/ MergeResume(h, v)
    BY <1>5
  <2>2. UNCHANGED <<profile, writer>>
    BY <2>1 DEF Start, OpenSettings, Confirm, UploadAlone, DeleteMe, ApplyValue,
                TypeEditedSkills, MergeResume
  <2> QED BY <2>1, <2>2, PrepareStep
<1> QED BY <1>1, <1>2, <1>3, <1>4, <1>5 DEF Ask

LEMMA DialogueStays == ASSUME DialogueInv, [DialogueNext]_dialogueVars PROVE DialogueInv'
<1>1. CASE UNCHANGED dialogueVars
  BY <1>1 DEF dialogueVars, DialogueInv, DialogueTypeOK, AnswersInv, JobsInv
<1>2. CASE Ask
  BY <1>2, AskStep
<1>3. CASE Work
  BY <1>3, CallStep, CallFailsStep, SettleStep DEF Work
<1>4. CASE Crash \/ WebEdit
  BY <1>4, CrashStep, WebEditStep
<1> QED BY <1>1, <1>2, <1>3, <1>4 DEF DialogueNext

\* What a handler saves is what was promised, or excused.
LEMMA CallPromised == ASSUME DialogueInv, NEW h \in Update, Call(h) PROVE Edits!EditedByBot
<1> DEFINE job == jobs[h]
<1>1. job \in Job /\ JobOK(job) /\ job.at = "call" /\ profile' = job.payload /\ writer' = "bot"
  BY DEF Call, DialogueInv, DialogueTypeOK, JobsInv
<1>2. job.op \notin {"start", "settings"}
  BY <1>1 DEF JobOK
<1>3. CASE job.op = "delete"
  BY <1>1, <1>3 DEF JobOK, Edits!EditedByBot, Edits!Removal
<1>4. CASE job.op # "delete" /\ (job.stray \/ (job.op # "all" /\ job.base # profile))
  <2>1. h \in Underway
    BY <1>1, <1>4 DEF Underway, Job, Idle
  <2>2. Excused
    BY <1>4, <2>1 DEF Excused
  <2>3. profile' \in Profile
    BY <1>1, <1>2, <1>4 DEF JobOK, OneFieldOf, ProfileJob, Job
  <2> QED BY <1>1, <2>2, <2>3 DEF Edits!EditedByBot, Edits!Profile, Profile
<1>5. CASE job.op = "all" /\ ~job.stray
  <2>1. job.payload \in Profile /\ Reached("confirm", job.payload)
    BY <1>1, <1>5 DEF JobOK
  <2>2. \A f \in (Asked \ {Last(Steps)}) \cup {"skills"} : job.payload[f] # Empty
    <3> TAKE f \in (Asked \ {Last(Steps)}) \cup {"skills"}
    <3>1. CASE f = "skills"
      BY <2>1, <3>1 DEF Reached
    <3>2. CASE f # "skills"
      <4>1. PICK i \in 1..Counted : f = Steps[i]
        BY <3>2, StepFacts
      <4>2. i \in 1..Counted - 1
        BY <3>2, <4>1, StepFacts
      <4> QED BY <2>1, <4>1, <4>2 DEF Reached, Given
    <3> QED BY <3>1, <3>2
  <2> QED BY <1>1, <2>1, <2>2 DEF Edits!EditedByBot, Edits!Questionnaire, Edits!Complete,
                                  Edits!Profile, Profile
<1>6. CASE job.op \in ProfileJob /\ job.base = profile
  <2>1. OneFieldOf(profile, profile')
    BY <1>1, <1>6 DEF JobOK
  <2> QED BY <1>1, <2>1, MarkFacts DEF OneFieldOf, Edits!EditedByBot, Edits!OneField
<1> QED BY <1>1, <1>2, <1>3, <1>4, <1>5, <1>6 DEF Job, ProfileJob

\* For any fields, number of steps, updates handled side by side, answers out of turn,
\* failures and restarts: the bot replaces a profile only by a questionnaire that is
\* complete and otherwise changes one field of what is stored, or deletes it, unless it
\* saves what it had not made from the stored profile or a stray button was pressed.
THEOREM DialogueKeepsItsPromise == DialogueSpec => EditsAsPromised
<1>1. DialogueInit => Edits!Init
  BY DialogueStart DEF DialogueInv, DialogueTypeOK, DialogueInit, Edits!Init, Edits!Profile,
                       Profile, Excused, Underway, Idle
<1>2. ASSUME DialogueInv, [DialogueNext]_dialogueVars PROVE [Edits!Next]_Edits!vars
  <2>1. Excused' \in BOOLEAN
    BY DEF Excused
  <2>2. CASE UNCHANGED <<profile, writer>>
    BY <2>1, <2>2 DEF Edits!Next
  <2>3. CASE \E h \in Update : Call(h)
    BY <1>2, <2>1, <2>3, CallPromised DEF Edits!Next
  <2>4. CASE WebEdit
    <3>1. Edits!EditedElsewhere
      BY <1>2, <2>4, WebEditStep DEF WebEdit, Edits!EditedElsewhere, Edits!Profile, Profile
    <3> QED BY <2>1, <3>1 DEF Edits!Next
  <2>5. CASE Ask
    BY <1>2, <2>2, <2>5, AskStep
  <2>6. CASE \E h \in Update : CallFails(h) \/ Settle(h)
    BY <2>2, <2>6 DEF CallFails, Settle
  <2>7. CASE Crash \/ UNCHANGED dialogueVars
    BY <2>2, <2>7 DEF Crash, dialogueVars
  <2> QED BY <1>2, <2>3, <2>4, <2>5, <2>6, <2>7 DEF DialogueNext, Work
<1>3. DialogueInit => DialogueInv
  BY DialogueStart
<1>4. DialogueInv /\ [DialogueNext]_dialogueVars => DialogueInv'
  BY DialogueStays
<1> QED BY <1>1, <1>2, <1>3, <1>4, PTL DEF DialogueSpec, EditsAsPromised, Edits!Spec
=============================================================================
