----------------------------- MODULE MCDataRuns -----------------------------
(***************************************************************************)
(* Instances of DataRuns, DataRunTx and VacancySearch for TLC.  Each part  *)
(* runs while the others are at rest: "registry" is the requests about     *)
(* runs; "indexers" is calls of the indexer that overlap, and one after    *)
(* them; "search" is one call after another, with loads, troubles and a    *)
(* search.                                                                 *)
(***************************************************************************)
EXTENDS DataRunTx, VacancySearch, TLC

CONSTANTS r1, r2, r3, m1, m2, m3, d1, d2, v1, v2, v3

VARIABLE part

\* Runs that write one path each, data/processed/runs/<run>/dataset_meta.json,
\* as the pipeline does, through three of the states.
PathOf == (r1 :> m1) @@ (r2 :> m2) @@ (r3 :> m3)

OwnPathPost ==
    { p \in [ run : Run, state : {"indexing", "published", "failed"},
              meta : Meta, error : BOOLEAN ] :
        p.meta = PathOf[p.run] /\ (p.error => p.state = "failed") }

\* A vacancy that only the one has, one that both have, and one that only the other has.
Offers == (d1 :> {v1, v2}) @@ (d2 :> {v2, v3})

SessionSymmetry == { p @@ q : p \in Permutations(Session), q \in Permutations(Server) }

mcVars == <<txVars, searchingVars, part>>

Underway == {n \in Indexing : Running(n)}

\* The last call begins when the others are over.
Overlapping ==
    /\ \E n \in Indexing : IndexingNext(n)
    /\ troubles' = troubles
    /\ At(MaxIndexings) = "none" /\ At(MaxIndexings)' # "none" => Underway = {}

\* Loads come while they matter, and one search is followed to its answer.
OneAfterAnother ==
    /\ query.at # "answered" /\ (query.at # "quiet" => ~query.excused)
    /\ SearchingNext
    /\ query'.at = "status" => records # <<>>
    /\ At(MaxIndexings)' = "none" /\ Cardinality(Underway') <= 1
    /\ frames' # frames => query.at # "quiet" \/ \E n \in Indexing : At(n) \in {"frame", "label"}

MCInit ==
    /\ TxInit /\ SearchingInit
    /\ part \in {"registry", "indexers", "search"}
    /\ part = "registry" => \A s, t \in Server : frames[s] = frames[t]

MCNext ==
    /\ UNCHANGED part
    /\ \/ part = "registry" /\ TxNext /\ UNCHANGED searchingVars
       \/ part = "indexers" /\ Overlapping /\ UNCHANGED txVars
       \/ part = "search" /\ OneAfterAnother /\ UNCHANGED txVars

MCSpec == MCInit /\ [][MCNext]_mcVars
=============================================================================
