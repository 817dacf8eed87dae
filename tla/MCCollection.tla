------------------------------ MODULE MCCollection ------------------------------
(***************************************************************************)
(* Instances of BackfillDays, BackfillShards, RawRefresh, ProcessedMirror  *)
(* and SiteScrape for TLC.  They share no state, so each part runs while   *)
(* the others are at rest.                                                 *)
(***************************************************************************)
EXTENDS BackfillDays, BackfillShards, RawRefresh, ProcessedMirror, SiteScrape, TLC

CONSTANTS v1, v2, v3, v4, v5, r1, r2, r3

VARIABLE part

\* The second page of the first search repeats a vacancy: the site's listing moved on.
Pages ==
    << << 0 :> {v1, v2} @@ 1 :> {v2, v3}, 0 :> {v1} @@ 1 :> {v4} >>,
       << 0 :> {v4, v1} @@ 1 :> {}, 0 :> {} @@ 1 :> {} >> >>

\* r3 is a value of the one dimension that the configuration does not name.
Values   == << {r1, r2} >>
Postings ==
    { [id |-> 1, at |-> t, has |-> <<r>>] : t \in {0, 1}, r \in {r1, r2} }
    \cup { [id |-> 1, at |-> 3, has |-> <<r1>>], [id |-> 1, at |-> 1, has |-> <<r3>>],
           [id |-> 2, at |-> 1, has |-> <<r1>>] }

\* Two searches of the site share a vacancy.
Adverts == << <<v1, v2, v3, v4, v5>>, <<v1, v4>> >>

collectionVars == <<backfillVars, shardVars, rawVars, mirrorVars, scrapeVars, part>>

ShardsAtRest == source = {} /\ job = "blocked" /\ shards = Blocked(Planned)

ScrapeAtRest ==
    /\ mode = "html" /\ limit = 1 /\ at = "failed" /\ shard = 1 /\ page = 0
    /\ links = <<>> /\ rows = <<>> /\ unloaded = {}

MCInit ==
    /\ DaysInit /\ RawInit /\ MirrorInit
    /\ \/ part \in {"days", "raw", "mirror"} /\ ShardsAtRest /\ ScrapeAtRest
       \/ part = "shards" /\ ShardsInit /\ ScrapeAtRest
       \/ part = "scrape" /\ ShardsAtRest /\ ScrapeInit

MCNext ==
    /\ UNCHANGED part
    /\ \/ part = "days" /\ DaysNext /\ UNCHANGED <<shardVars, rawVars, mirrorVars, scrapeVars>>
       \/ part = "shards" /\ ShardsNext
          /\ UNCHANGED <<backfillVars, rawVars, mirrorVars, scrapeVars>>
       \/ part = "raw" /\ RawNext
          /\ UNCHANGED <<backfillVars, shardVars, mirrorVars, scrapeVars>>
       \/ part = "mirror" /\ MirrorNext
          /\ UNCHANGED <<backfillVars, shardVars, rawVars, scrapeVars>>
       \/ part = "scrape" /\ ScrapeNext
          /\ UNCHANGED <<backfillVars, shardVars, rawVars, mirrorVars>>

\* The fairness of SiteScrape
ScrapeGoesOn ==
    part = "scrape" /\ ScrapeStep /\ UNCHANGED <<backfillVars, shardVars, rawVars, mirrorVars, part>>

MCSpec == MCInit /\ [][MCNext]_collectionVars /\ WF_collectionVars(ScrapeGoesOn)
=============================================================================
