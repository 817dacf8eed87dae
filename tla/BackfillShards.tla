----------------------------- MODULE BackfillShards -----------------------------
(***************************************************************************)
(* The shards of a historical backfill and the gate of the result          *)
(* (historical_backfill_control.py, historical_quality.py).  The source    *)
(* shows no more than a cap of what a search finds, so a shard that finds  *)
(* as much is split: its window in halves, and one too short for that by   *)
(* the values of a dimension nobody has fixed yet.                         *)
(***************************************************************************)
EXTENDS Integers, FiniteSets

CONSTANTS
    Horizon,         \* the window asked for is 0..Horizon - 1
    DayLength, MinWindow,        \* a day; min_time_window_minutes
    Dimension,       \* numbers in the order in which they are split (role, experience...)
    SplitValues,     \* the values configured for each: those that a split searches
    AnyValue,        \* a dimension that is not fixed
    Posting,         \* records [id, at, has]: what the source may hold of the window
    MaxFound         \* max_found_per_shard

ASSUME BackfillShardsAssumption ==
    /\ Dimension \subseteq Nat /\ DayLength \in Nat \ {0} /\ MinWindow \in Nat \ {0}
    /\ Horizon \in Nat /\ Horizon % DayLength = 0 /\ MaxFound \in Nat \ {0}
    /\ IsFiniteSet(Posting) /\ \A p \in Posting : p.at \in 0..Horizon - 1
    /\ \A n \in Dimension : AnyValue \notin SplitValues[n]

VARIABLES
    source,          \* the postings the source holds
    shards,          \* all shards: records; their parents are told apart by window and dimensions
    job              \* "planned" or "blocked"

shardVars == <<source, shards, job>>

Status == {"planned", "split", "accepted", "accepted_empty", "blocked_source",
           "blocked_over_cap", "blocked_empty", "blocked_source_capability"}
Blocking == {"blocked_source", "blocked_over_cap", "blocked_empty", "blocked_source_capability"}
Accepted == {"accepted", "accepted_empty"}

Shard == [from : 0..Horizon, to : 0..Horizon,
          fixed : [Dimension -> (UNION {SplitValues[n] : n \in Dimension}) \cup {AnyValue}],
          status : Status]

ShardsTypeOK == source \subseteq Posting /\ shards \subseteq Shard /\ job \in {"planned", "blocked"}

NewShard(from, to, fixed) == [from |-> from, to |-> to, fixed |-> fixed, status |-> "planned"]

\* iter_day_windows: one shard a day
Planned ==
    { NewShard(n * DayLength, (n + 1) * DayLength, [m \in Dimension |-> AnyValue]) :
        n \in 0..(Horizon \div DayLength - 1) }

\* block_job_for_source_capability: without a proof of what the source can do
Blocked(planned) == { [shard EXCEPT !.status = "blocked_source_capability"] : shard \in planned }

ShardsInit ==
    /\ source \in SUBSET Posting
    /\ \/ job = "planned" /\ shards = Planned
       \/ job = "blocked" /\ shards = Blocked(Planned)

-----------------------------------------------------------------------------
(* Splitting                                                               *)

\* _split_by_time: the middle is cut to whole seconds.
Halves(shard) ==
    LET middle == (shard.from + shard.to) \div 2 IN
    IF shard.to - shard.from <= MinWindow THEN {}
    ELSE { NewShard(shard.from, middle, shard.fixed), NewShard(middle, shard.to, shard.fixed) }

Splittable(shard) == {n \in Dimension : shard.fixed[n] = AnyValue /\ SplitValues[n] # {}}

First(dimensions) == {n \in dimensions : \A m \in dimensions : n <= m}

\* _clone_with_dimension, for the first dimension that is left
ByDimension(shard) ==
    UNION { { NewShard(shard.from, shard.to, [shard.fixed EXCEPT ![n] = v]) : v \in SplitValues[n] } :
              n \in First(Splittable(shard)) }

Children(shard) == IF Halves(shard) # {} THEN Halves(shard) ELSE ByDimension(shard)

-----------------------------------------------------------------------------
(* Observations                                                            *)

Matches(posting, shard) ==
    /\ shard.from <= posting.at /\ posting.at < shard.to
    /\ \A n \in Dimension : shard.fixed[n] \in {AnyValue, posting.has[n]}

Found(shard) == Cardinality({p \in source : Matches(p, shard)})

Becomes(shard, status) == (shards \ {shard}) \cup {[shard EXCEPT !.status = status]}

\* apply_shard_observations.  A worker observes a shard that is planned, or again one
\* that is blocked: those that are split or accepted are done with.
Observe(shard) ==
    /\ job = "planned" /\ shard.status \in {"planned"} \cup Blocking
    /\ \/ shards' = Becomes(shard, "blocked_source")         \* 403, 429 or a captcha
       \/ /\ Found(shard) >= MaxFound /\ Children(shard) # {}
          /\ shards' = Becomes(shard, "split") \cup Children(shard)
       \/ /\ Found(shard) >= MaxFound /\ Children(shard) = {}
          /\ shards' = Becomes(shard, "blocked_over_cap")
       \/ Found(shard) = 0 /\ shards' = Becomes(shard, "accepted_empty")
       \/ /\ Found(shard) < MaxFound             \* nothing came, and nothing proves it empty
          /\ shards' = Becomes(shard, "blocked_empty")
       \/ /\ Found(shard) \in 1..(MaxFound - 1)
          /\ shards' = Becomes(shard, "accepted")
    /\ UNCHANGED <<source, job>>

ShardsNext == \E shard \in shards : Observe(shard)

ShardsSpec == ShardsInit /\ [][ShardsNext]_shardVars

-----------------------------------------------------------------------------
(* The gate: evaluate_historical_candidate over the shards                 *)

\* Mistake: a shard over the cap is as good as collected.
BlocksUnlessOverCap(shard) == shard.status \in Blocking \ {"blocked_over_cap"}
Blocks(shard) == shard.status \in Blocking

\* evaluate_shard_completeness.  A shard that is planned does not count against it.
IsComplete ==
    /\ \E shard \in shards : shard.status \in Accepted
    /\ \A shard \in shards : ~Blocks(shard)

GateAccepts == job # "blocked" /\ IsComplete

-----------------------------------------------------------------------------
(* Properties                                                              *)

Collecting(posting) == {shard \in shards : shard.status = "accepted" /\ Matches(posting, shard)}
IsCollected(posting)  == Collecting(posting) # {}

\* Posting lost by a split: it has a value that the dimension's split does not search.
IsOutOfReach(posting) ==
    \E n \in Dimension : SplitValues[n] # {} /\ posting.has[n] \notin SplitValues[n]

\* No posting is collected twice; and what the gate accepts holds every posting of the
\* window, except where a shard is still planned, or a split by dimension was needed and
\* the posting has none of the values configured.
AcceptedIsWhole ==
    /\ \A p \in source : Cardinality(Collecting(p)) <= 1
    /\ GateAccepts =>
         \A p \in source :
            \/ IsCollected(p) \/ IsOutOfReach(p)
            \/ \E shard \in shards : shard.status = "planned" /\ Matches(p, shard)
=============================================================================
