-------------------------------- MODULE MCBot --------------------------------
(***************************************************************************)
(* Instances for TLC of what the bot shows: BotDialogue, SearchButtons,    *)
(* MarketNews, and the MarketTrends it asks the API for.  They share no    *)
(* state, so each part runs while the others are at rest: the dialogue     *)
(* with one update handled after the other, the dialogue with two at once, *)
(* the buttons, the news, and the trends with two reloads at once or with  *)
(* a request.  MaxUpdates, MaxOverlapping and MaxPresses bound the updates *)
(* of a behaviour, and MaxEdits those of the web application.              *)
(***************************************************************************)
EXTENDS BotDialogue, SearchButtons, MarketNews, MarketTrends, TLC

CONSTANTS MaxUpdates, MaxOverlapping, MaxPresses, MaxEdits, g1, g2

VARIABLES part, updates, edits

TwoSteps == <<"role", "domain">>

chatVars == <<dialogueVars, buttonVars, newsVars, updates, edits>>
mcVars == <<chatVars, trendVars, part>>

-----------------------------------------------------------------------------
(* Three raw files.  All dates and salaries are there.                     *)

Advert(n, segment, at) == [id |-> n, seg |-> segment, at |-> at, salary |-> TRUE]

Facts == [ kind     |-> "minio_backfill_completed",
           declared |-> "historical_publication_facts",
           dates    |-> "passed",
           source   |-> [ registered |-> TRUE, use |-> "historical_collection",
                          status |-> "supported", report |-> TRUE ] ]

\* History with a vacancy twice; with a segment that is too small; and the market of today
\* from a file that calls the identifier otherwise, with a vacancy twice.
RawFiles ==
    { [ payload |-> Facts, named |-> TRUE,
        rows |-> <<Advert(1, g1, 1), Advert(2, g1, 2), Advert(2, g1, 1)>> ],
      [ payload |-> Facts, named |-> TRUE,
        rows |-> <<Advert(1, g1, 1), Advert(2, g1, 2), Advert(3, g2, 2)>> ],
      [ payload |-> NoPayload, named |-> FALSE,
        rows |-> <<Advert(1, g2, 1), Advert(1, g2, 2)>> ] }

BothSegments == {g1, g2}
OneSegment   == {g1}

Queries == { [skill |-> FALSE, segments |-> {g1, g2}, weeks |-> 2],
             [skill |-> TRUE, segments |-> {g1}, weeks |-> 1] }

-----------------------------------------------------------------------------
MCInit ==
    /\ NewsInit /\ TrendsInit /\ edits = 0
    /\ DialogueInit /\ ButtonsInit
    /\ \/ part = "alone" /\ updates = MaxUpdates
       \/ part = "overlap" /\ updates = MaxOverlapping
       \/ part = "buttons" /\ updates = MaxPresses
       \/ part \in {"news", "reloads", "trends"} /\ updates = 0
    /\ part # "overlap" => profile = Absent
    /\ part # "buttons" => plan = {} /\ redis = FALSE

Count == updates > 0 /\ updates' = updates - 1

DialogueStep ==
    \/ (part = "overlap" \/ \A h \in Update : jobs[h] = Idle) /\ Ask /\ Count /\ UNCHANGED edits
    \/ (Work \/ Crash) /\ UNCHANGED <<updates, edits>>
    \/ WebEdit /\ edits < MaxEdits /\ edits' = edits + 1 /\ UNCHANGED updates

ButtonsStep ==
    \/ /\ Count
       /\ \/ \E u \in Person, result \in (SUBSET Vacancy) \ {{}} : Search(u, result)
          \/ \E u \in Person, t \in Token : PressToken(u, t)
          \/ \E u \in Person, v \in Vacancy : PressLegacySave(u, v) \/ PressLegacyOutcome(u, v)
    \/ /\ UNCHANGED updates
       /\ \/ \E u \in Person : Save(u) \/ NoPlanYet(u) \/ CreatePlan(u) \/ EndPress(u)
          \/ \E u \in Person : u \in plan /\ DeletePlan(u)
          \/ Tick \/ RestartBot

\* Two reloads, while the pipeline rests between its runs, of which each has history; or
\* one, and a request
ReloadsStep ==
    /\ TrendsNext /\ UNCHANGED ask
    /\ \A r \in PipeRun : runs'[r] # Unstarted => runs'[r].given.payload # NoPayload
    /\ \/ \A r \in PipeRun : StageOf(r) \notin {"started", "snapshot", "described"}
       \/ UNCHANGED <<week, copying>>

RequestStep == TrendsNext /\ \E q \in Reloader : copying'[q] = Resting

ChatNext ==
    /\ \/ part \in {"alone", "overlap"} /\ DialogueStep /\ UNCHANGED <<buttonVars, newsVars>>
       \/ part = "buttons" /\ ButtonsStep /\ UNCHANGED <<dialogueVars, newsVars, edits>>
       \/ part = "news" /\ NewsNext /\ UNCHANGED <<dialogueVars, buttonVars, updates, edits>>
    /\ UNCHANGED trendVars

MCNext ==
    /\ UNCHANGED part
    /\ \/ ChatNext
       \/ /\ UNCHANGED chatVars
          /\ \/ part = "reloads" /\ ReloadsStep
             \/ part = "trends" /\ RequestStep

MCSpec == MCInit /\ [][MCNext]_mcVars

\* The requests for a trend alone
MCTrendsSpec == MCInit /\ part = "trends" /\ [][MCNext]_mcVars

Symmetry == Permutations(Update) \cup Permutations(Token) \cup Permutations(Reloader)
=============================================================================
