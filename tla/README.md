# Skillra in TLA+

Skillra is a job-market navigator.  A pipeline collects vacancies from hh.ru,
cleans them and computes market tables; an API (FastAPI, PostgreSQL, Redis,
Meilisearch) serves them; a Telegram bot and a web client show them; a worker
sends weekly digests.  This directory models the parts of it that keep state
and race with each other, checks them with TLC on small instances, and proves
what matters most of them, for every size, with TLAPS.

Paths below are relative to `src/`; `api/` stands for
`apps/skillra_api/src/skillra_api/`.

## The system's parts

| Part | State | Operations | What is hard | What makes it correct | Here |
| --- | --- | --- | --- | --- | --- |
| weekly subscriptions (`api/routers/subscriptions.py`) | tables `weekly_subscriptions`, `digest_history` | upsert, delete, claim, ack-sent, ack-failed, mark-sent | leases without row locks, repeated and late acknowledgements, local dates | one delivery per local date, a lock recorded once, no due user hidden, giving up is final | modelled |
| digest worker (`apps/digest_worker/`) | the claimed batch, in memory | poll, preview, send, acknowledge | crashes, ambiguous sends, a batch slower than its leases | what is recorded was sent; duplicates explained and bounded; every lease ends | modelled |
| API client of bot and worker (`services/api_client.py`) | none | a request with retries | an executed request is repeated | with the server: what is repeated does no harm | partly: the worker's calls |
| dataset registry (`api/services/data_runs.py`, `api/routers/admin.py`) | tables `data_runs`, `active_datasets` | report a run's state, activate a run | updates of one run overlap; run and pointer are two rows | no run moves back; the pointer names a published run with its path | modelled |
| data store (`api/datastore.py`) | frames, metadata, paths, meta cache; one lock | reload, snapshot, restore, getters, cached values | loop, threads and a non-reentrant lock | what is served is one run; stale values only after an overlap | partly |
| reload endpoint, replica subscriber (`api/routers/admin.py`, `api/main.py`) | a snapshot and a plan per call; the Redis channel | reload with rollback; reload on a message | concurrent reloads, failing steps, lost messages, a subscriber that ends | only published runs are served; a replica left behind has an explanation | partly |
| Redis cache of meta values (`api/services/meta_cache.py`) | keys with a lifetime | get, set, delete on reload | filled by any process at any time | - | an environment of `DataStore` |
| vacancy indexer (`api/services/vacancy_indexer.py`) | tables `vacancy_snapshots`, `indexer_runs`, the index and its staging indexes | rebuild and swap; incremental sync | two stores, leftovers of a dead call, a run read before an await | a recorded success is whole; table and index of one run unless a reload failed | modelled |
| vacancy search (`api/routers/search.py`) | none | the state of the index, hits | three reads with awaits between | what is called ready is of the run named | partly |
| users, career plans, API keys (`api/routers/users.py`, `api/deps/auth.py`) | profile, plan, actions, outcome events, keys, a resume in a row and a bucket | CRUD, generate, save, rotate, upload | read-modify-write without locks; two stores | duplicates and wrong dates only after a race; one working key; row and bucket agree; the advice leads on | partly |
| organizations (`api/routers/organizations.py`) | members, invites with counts, cohorts | invite, accept, transfer, revoke | accepting at the last use, two transfers | one active owner, enrolled means member, uses counted | modelled |
| billing (`api/services/billing.py`, `commercial.py`) | the account, the events | webhook, entitlements | repeated, late and overlapping events | the newest event decides, unless raced | modelled |
| market trends (`scripts/run_pipeline.py`, `api/services/market_snapshot_store.py`, `api/routers/market.py`) | weekly files, `market_snapshots` | write, copy, tell | a file written before the gates, reloads that overlap | told under a run that earned it, of the week it names | partly |
| telegram bot (`apps/telegram_bot/`) | FSM, callback contexts, the news key | questionnaire, settings, buttons, broadcast | updates of one chat side by side, buttons that outlive the process | one field at a time; a button keeps its word; news once a day | partly |
| web client (`apps/skillra_web/`) | query cache, forms, mutations | choose a user, save, upload | answers that come after the user has changed | a form saved for its own user; fresh data is current | partly |
| hh.ru parser (`parser/`) | the rows collected | pages, links, refusals | page sizes, limits, repeated vacancies | nothing twice, nothing missed below the limit, an end | partly |
| pipeline scripts (`infra/pipeline_runner.sh`, `scripts/hh_daily_refresh.py`, `scripts/raw_hh_gate.py`, ...) | raw files, run directories, the link `latest`, a lock | collect, validate, process, publish, roll back | failures after publication, files rewritten under readers | a failed run is not left active; what is processed was validated | partly |
| historical backfill (`scripts/*backfill*`, `src/skillra_pda/ingest/`) | ledger of days, shards, the bucket, state of the publisher | resume, split, gate, publish | crashes between files, caps of the source, `--direct-index` | every day once and whole; what the gate accepts is whole; published means processed | partly |
| object storage sync and restore (`scripts/s3_*.py`) | objects, pointer with digests | sync, restore | objects replaced one by one | a restore is of one pointer | partly |
| persona, market and digest rendering; analytics core | none | computations over frames | numbers and text | - | not modelled |
| share tokens, storage, product events; health, metrics, rate limits; deployment | Redis keys, S3 objects, limiter state | thin wrappers, read-only reports, configuration | - | - | not modelled |

How they interact.  Users act through the bot and the web client, which call
the API.  The worker claims due subscriptions from the API, fetches a digest
preview from it (which reads the data store), sends it through Telegram, and
acknowledges.  The pipeline collects raw vacancies, copies them to object storage,
processes them, and reports the progress of a run to the registry; the report
`published` also moves the pointer; then it calls `reload-data`, which loads the
files of the pointer's run into the data store of the process that got the
request, indexes the vacancies, copies the weekly snapshots, and publishes a
message on which the subscriber task of every API process (the sender's too)
reloads.  Start-up loads the pointer's run.  The scheduler then announces new
data on another channel, and the bot tells the subscribers.

## Modules

| Module | Models | Variables |
| --- | --- | --- |
| `DigestSchedule` | `_is_subscription_due`, `_candidate_weekdays` | none: operators on ticks, zones and rows |
| `SubscriptionLease` | every handler of `subscriptions.py` as one step, called by arbitrary clients | `row`, `nextId`, `history` are the tables; `now`; `grants`: the claim responses (history) |
| `SubscriptionTx` | the same handlers as transactions that load rows, compute, and commit changed columns | `open`: the open transactions |
| `DigestDelivery` | worker, retrying client, network and Telegram, over `SubscriptionLease` | `pc`, `hand`, `job`, `tries`: the worker; `net`: requests not yet executed; `sent`: what Telegram delivered |
| `DataRuns` | the writing handlers of the registry, each as one step | `data_runs`, `active` |
| `DataRunTx` | the same as transactions with PostgreSQL's row locks | `tx` |
| `DataStore` | one API process: event loop, lock, reload threads, `reload-data`, the subscriber, meta and digest requests | `served`, `meta_cache`, `lock`, `loop`; `pc`, `frame`, `snap`, `plan`: locals of the tasks; `events`, `active`, `latest` outside |
| `Publication` | `pipeline_runner.sh` and `publish_hh_backfill_to_app.py` as clients of `DataRuns` and of `reload-data`; the replicas with start-up and subscriber; the channel, the table, the index | `pc`, `prev`, `backfill`: the clients; `reload`; `served`, `sub`, `subPlan`, `inbox`: the replicas; `latest`, `table`, `index` |
| `BackfillPublish` | the publisher of the backfill from inside: markers, cache, raw files, processing, `--direct-index`, reload, status | `completed`, `marked`, `cache`, `raw`, `script`, `processed`, `link`, `pointer`, `entries`, `documents` |
| `VacancySearch` | the indexer call by call, for single vacancies, the records of it, and the search | `frames`, `records`, `stored`, `searched`, `staging`, `indexings`, `query` |
| `Requests` | sessions, and what a commit writes | `Session`, `NoTx` |
| `Careers`, `CareerTx` | profile, plan, actions, outcomes and the next best action; the same as transactions | `user`, `subscribed`, `entitled`, `marketReady`; `planTx` |
| `Commercial` | billing events and entitlements, as transactions | `account`, `ledger`, `billing`, `contents` |
| `UserObjects` | API keys and the resume | `keys`, `keyTx`; `resume`, `bucket`, `upload` |
| `Organizations`, `OrganizationTx` | members, cohorts and invites; the same as transactions | `db`, `expired`; `open` |
| `ProfileEdits` | what the bot promises about a profile (abstract) | `profile`, `writer`, `excused` |
| `BotDialogue` | questionnaire, settings and resume of one chat, with updates handled side by side | `profile`, `chat`, `jobs` |
| `SearchButtons` | buttons of search results and saved vacancies | `contexts`, `cache`, `plan`, `saved`, `pressed`, `clock`, `redis` |
| `MarketNews` | the broadcast listener of every bot process | `listener`, `notified`, `told` |
| `MarketTrends` | weekly snapshots, gates, their copy and the endpoints that read it | `runs`, `file`, `store`, `copying`, `snapshots`, `ask`, `week`, `latestRun` |
| `WebForms` | profile, plan and subscription pages over React Query | `page`, `chosen`, `form`, `rows`, `queries`, `calls` |
| `DayLedger` | what a backfill of days promises of its bucket (abstract) | `stored`, `skipped`, `completed`, `announced`, `quarantined` |
| `BackfillDays` | `hh_backfill_to_minio.py` with its files, crashes and retries | the files, `stored`, `run` |
| `BackfillShards` | shards that split, and the gate | `source`, `shards`, `job` |
| `RawRefresh` | the raw files of a day on their way to the bucket and the pipeline | `files`, `objects`, `pointer`, `process`, `processed` |
| `ProcessedMirror` | sync and restore of the processed files | `link`, `bucket`, `syncs`, `disk`, `restore` |
| `SiteScrape` | the loops over searches, pages and vacancies of both sources | `mode`, `limit`, `at`, `shard`, `page`, `links`, `rows` |
| `MC...` | instances for TLC.  Where one holds several components, `part` says which of them runs; the others rest, as they share no state | |
| `SubscriptionLease_proofs` | theorems about `DigestSchedule`, `SubscriptionLease`, `SubscriptionTx` | |
| `DigestDelivery_proofs` | theorems about `DigestDelivery` | |
| `DataRunTx_proofs` | theorems about `DataRuns`, `DataRunTx`, `VacancySearch` | |
| `DataStore_proofs` | theorems about `DataStore`, `MarketTrends` | |
| `Publication_proofs` | theorems about `Publication`, `BackfillPublish` | |
| `Accounts_proofs` | theorems about `Organizations`, `OrganizationTx`, `Commercial`, `UserObjects`, `Careers`, `CareerTx` | |
| `Clients_proofs` | theorems about `MarketNews`, `SearchButtons`, `BotDialogue`, `WebForms` | |
| `Collection_proofs` | theorems about `RawRefresh`, `BackfillShards`, `ProcessedMirror`, `BackfillDays`, `SiteScrape` | |

There is one action per handler, call or critical section of the code, named
after it; a comment names the function where the name does not.  Variables whose
comment says *history* are not in the program: they remember what a property
needs to tell an excuse from a mistake.

Abstract and detailed levels:

- `SubscriptionLease` is the abstract specification of the weekly digests:
  `DigestDelivery` implements it (`LeaseSpec`), and a commit in `SubscriptionTx` on
  unchanged rows is a step of it (`IsLeaseStep`).
- `DataRuns` is the abstract specification of the registry: `DataRunTx` implements
  it when the updates of one run come one after the other (`RegistrySpec`).
  `Publication` extends `DataRuns` with clients, each run with its own, which is
  that condition.
- `ProfileEdits` is what the bot promises, and `BotDialogue` implements it
  (`EditsAsPromised`), with the excuse written into the abstract state.
- `DayLedger` is what a backfill promises of its bucket, and `BackfillDays`
  implements it (`LedgerIsKept`), with any call failing and a crash anywhere.
- `Careers`, `Organizations` and the single-step handlers of `SubscriptionLease`
  and `DataRuns` are what a reader of the code has in mind; the `...Tx` modules are
  what a database with several connections makes of it.

An operator commented `Mistake:` is a plausible bug beside the definition it
changes; no specification uses it.  Each property is known to be violated when
one of them takes the place of its neighbour.

### Abstractions

- Time is counted in ticks; a day has `DayLen` of them, a week `WeekLen` days.
  A zone is a fixed offset in ticks, at most a day either way.
- A row keeps the columns the handlers decide on.  Product events, metrics and
  log lines are left out; where they may raise, the step may fail.
- A frame, a file or an index is named by the run it was computed from; where the
  property is about single vacancies (`VacancySearch`, `BackfillDays`,
  `BackfillShards`, `SiteScrape`) they are members of a small set.
- A version of a row or file is a number.  Checksums become: equal or not.
- A fault is a lost call or answer, a script or file access that fails, a killed
  process or a lost message.  A lost answer is also what a timeout looks like.
- Texts, digests, market numbers and scores are left out.

## Runs

Each run checks a component, or several that share no state: `part` then says
which of them moves, so the states of a run are the sum, not the product, of
theirs.

| Run | Instance | Shows |
| --- | --- | --- |
| `lease_safety` | 1 user, 2 rows in sequence, 3 locks, a day of 2 ticks and a week of 4 days, 9 ticks; the web client with 2 users, calls and changes of the other side together at most 2 | with late, repeated and crossing acknowledgements, edits, pauses and unsubscribes: one recorded delivery per local date and lock (`OneRecordPerLocalDay`), the SQL prefilter hides nobody who is due (`PrefilterKeepsDue`), giving up is final (`GivingUpIsFinal`); a form that is saved is its user's own and fresh data is the row, apart from the cases named there (`FormsAreSound`) |
| `lease_history_attempt` | the same, 3 ticks | **violation**: `digest_history.attempt` is always 1 |
| `delivery_safety` | 2 workers, 1 user, 3 locks, 1 retry per call, 2 faults anywhere, 5 ticks | only sent digests are recorded (`RecordedWasSent`), a duplicate has one of three explanations (`DuplicateOnlyIfExplained`), at most `MaxAttempt` messages per recorded one (`DuplicatesBounded`); the composition implements `SubscriptionLease` (`LeaseSpec`) |
| `delivery_progress` | 1 worker, 2 users, 2 locks, 1 fault | under fairness every lease ends unless there was a fault (`LeaseIsReleased`), a due row does not stay claimable for ever (`DueIsClaimed`) |
| `tx_overlap` | 1 user, 2 rows, 2 locks, 2 open transactions, 3 ticks | columns merge: a leased row is counted, a recorded delivery is remembered (`NoUpdateIsLost`); a commit on unchanged rows is a step of `SubscriptionLease` (`IsLeaseStep`) |
| `registry_clients` | 3 runs with paths of their own, 3 sessions, one client per run; the indexer with 2 servers, 2 datasets that share one of 3 vacancies, 3 calls, 1 trouble | the pointer shows a published run with its path (`ActiveMirrorsRun`), the transactions implement `DataRuns` (`RegistrySpec`); a recorded success is whole, and a search calls ready only what is of the run it names (`SearchIsSound`) |
| `datastore_serving` | 1 request, 1 reload, the subscriber, 2 runs, 1 message, 1 change or failing step | what is served is one run (`ServedIsOneRun`), a stale cached value needs a request that overlapped a reload (`StaleOnlyIfOverlapped`), every request and reload is answered unless a getter waits for itself (`AnsweredUnlessStuck`) |
| `publication` | 2 runs, each a runner's or a backfill's, 2 replicas, 1 fault anywhere; the backfill publisher with 2 days, 2 starts, 5 sets of options | no replica serves the directory of a run that was not published (`ServedWasPublished`), a failed run is not left active without an excuse (`FailedRunIsNotActive`), a replica left behind has an explanation (`StaleOnlyIfExplained`), table and index differ only after a failed reload (`SearchSplitOnlyIfFailed`); what the publisher calls published was processed and is labelled as its source was (`PublishIsSound`) |
| `accounts` | 2 actions, 1 skill, 1 vacancy, 3 events of 2 subscriptions, 3 users, 2 cohorts, 1 invite, 2 sessions | what goes wrong with a plan, the billing account, keys and resume, or members and invites needs an overlap that is written down (`...UnlessRaced`); doing what the next best action says leads to another stage (`AdviceAdvances`) |
| `bot` | 2 of 3 answers, 2 updates side by side; 2 users, 2 tokens, 3 presses; 2 bots, 2 subscribers, 2 news; 2 weeks, 2 runs, 3 raw files, 2 reloads | the dialogue implements `ProfileEdits` (`EditsAsPromised`), buttons keep their word (`ButtonsKeepTheirWord`), nobody is told twice a day (`NewsOnceADay`), trends are told under a run that earned them (`TrendsAreSound`) |
| `skill_demand` | the trends of `bot` | **violation**: the skill trend is lost on the way through the table |
| `collection` | 2 days, 4 vacancies, 2 shards, 2 failures; 2 raw runs; 2 processed runs, 2 files, 2 syncs, a restore; 5 adverts, 2 searches, limits 1, 2, 3, 4, 9 | the backfill implements `DayLedger` (`LedgerIsKept`); accepted shards hold the window (`AcceptedIsWhole`); raw and processed files arrive as they were validated (`RawIsWhole`, `MirrorIsWhole`); a scrape finds what is listed, once (`CollectedIsWhole`), and ends when the site stops refusing (`EndsOnceAnswered`) |

### Bounds, and why they are enough

- *Clock.*  Nine ticks with a day of two and a week of four days cross four
  midnights and one week.  A week of four days is the shortest one in which the
  prefilter's three weekdays are not all of them.  The settings are on both sides
  of UTC, the far zone a whole day behind, with the last and the first weekday.
- *Locks* bound the claims: with `MaxAttempt` = 2 a third claim is either refused
  (the row is given up) or follows a recorded delivery or a new row, so three
  show every kind of successor.
- *One user* is enough for the safety of a lease, since the handlers touch one
  row each and a claim treats rows independently; a batch of two users is in
  `delivery_progress`, where the second waits for the first.
- *Faults.*  One fault is not enough for a duplicate after a lost
  acknowledgement and a crash; two are, and the third would repeat one of them.
- *Two transactions* suffice for a lost update; three sessions in the registry
  let two runs and an activation race for the pointer.  `MaxWrites` = 3 and
  `MaxOrgWrites` = 2 count the commits beside which a transaction may be open: one
  it has not seen, its own, and one that finds the result.
- *Indexer.*  Three calls are a dead one, one that finds its leftovers, and a
  third beside or after it.  Where three calls overlap there is no trouble and no
  load; the proof has none of these limits.
- *Data store.*  `MaxChanges` counts together the changes of the pointer and of
  `latest` and the failing steps of reloads: in one behaviour either the pipeline
  moves once or one step fails, while requests, reloads and messages go on.
- *Publication.*  Two runs are a previous one and its successor, or a runner and a
  backfill at once; a replica that executes a reload and one that hears of it are
  different; a fault can hit any call, file, step, message or process.
- *Bot.*  Four updates are a questionnaire of two answers with an edit beside it;
  two buttons' lifetimes (`TTL` = 1, `MaxTime` = 2) are one that is good, one that
  is due, one that is over.
- *Collection.*  Two days and two shards have a first and a last; two failures
  are one that is retried and one that gives up.  The limits of the scraper are
  below, at and above a page, below and above all that is listed.
- *Symmetry* is used over interchangeable model values and never in a run with a
  liveness property.
- Deadlock checking is off where the clock, the locks, the runs or the calls may
  be used up, which is each run's bound and not the program's.

### Fairness

- `DigestDelivery`: weak fairness of each worker's steps (one coroutine that
  always has its next step), of the API's execution of each kind of request a
  worker sent, and of a restart after a crash (`restart: unless-stopped` in the
  compose file).  Nothing makes users act, makes time pass, or makes faults stop
  other than their bound.
- `DataStore`: strong fairness of each request and reload that has begun, and of
  the subscriber.  asyncio runs ready callbacks in the order they became ready,
  so a coroutine whose await is over gets the loop; and a task waiting for the
  lock finds it free for the whole of the database and index accesses between
  two loads, so it is not overtaken for ever.  Nobody has to send a request.
- `SiteScrape`: weak fairness of the one loop, which has nothing to wait for but
  the answers of the site; the site may refuse as often as the bound allows.

## What the violations show

1. `ack_subscription_sent` resets `attempt` before it copies it into the history
   row: every row says 1 (`api/routers/subscriptions.py:423`, `:431`), while the
   schema promises the attempt of the send.
2. The weekly snapshots keep the skills of a segment as a list; the copy in
   `market_snapshots` does not give it back, so the skill-demand endpoint answers
   with no data as soon as the table is filled.

The excuses in the other properties are behaviours of the code, too.  Without
them TLC shows:

- two claims that overlap between SELECT and COMMIT lease one row
  (`api/routers/subscriptions.py:331`), so two workers may send one digest twice;
- two overlapping updates of one run are validated against the same loaded row
  (`api/services/data_runs.py:167`): `published` and `failed` are both accepted, and
  the pointer stays on a failed run;
- a meta request that took its frame before a reload stores its value after the
  reload has cleared the cache (`api/datastore.py:266`);
- a getter that finds no frame asks `status()` for its error message while it
  holds the lock that `status()` takes (`api/datastore.py:273`), and the event loop
  stops; it needs a reload that loads nothing between `is_ready` and the getter;
- without the refresh lock, a rollback returns to a run that another runner has
  left meanwhile, and the replicas serve the other one: the proof of
  `StaleOnlyIfExplained` needs the lock, and TLC finds the counterexample with
  three runs and none;
- two pointer writes that overlap leave the run of one publication with the path of
  the other, if the runs share a path or one of them has none, as a backfill's.

Seen while modelling, and not stated as a property:

- a snapshot of the week is written before the quality gate, so the rows of a run
  that failed there are in the trends; a week counts as a period as soon as one
  of its days was published;
- a week whose rows have no salary gives a trend point that JSON cannot express;
- `--direct-index` is undone by the reload when another run is active; a reload is
  refused while a backfill's run is active, as it has no path; a day published with
  fewer options is skipped the next time, without `--force`; a run processed with
  `--allow-quarantined-source` is labelled forensic only for marks of its prefix;
- the health report takes "in progress" for good as long as an older run succeeded;
- pages after an empty page of the source are not fetched.

## What a stale replica may be explained by

`StaleOnlyIfExplained` says when a replica may serve another run than the active
one although everything is quiet and the client succeeded.  Each disjunct is a way
the code really leaves a replica behind, and none of them is repaired before the
next reload or restart:

- it missed a message (`behind`): Redis lost it, the subscriber had ended
  (`api/main.py:148`), or the replica had loaded but not yet subscribed
  (`api/main.py:255`, `:272`);
- a reload of its own failed in the indexer and put back what it had seen when it
  began, over a newer run (`behind`; `api/routers/admin.py:552`);
- the pointer was unusable, missing or unreadable, and it fell back to `latest`;
- it had loaded a run whose client then failed and rolled the pointer back, which
  reloads nobody (`infra/pipeline_runner.sh:277`);
- the pointer has no `dataset_meta_path`: the backfill does not send one
  (`scripts/publish_hh_backfill_to_app.py:1056`), so no replica can load its run
  through the pointer.

## What is proved

The theorems hold for every value of the constants that satisfies the named
assumptions, which say that marks are no values (`NoLock` is no lock, `NoRun` no
run, ...), that inputs have the fields the code reads, and that counts are
natural numbers.  TLC evaluates each of them in a run.  Those with content:

- `LeaseAssumption`: zones are at most a day from UTC;
- `PublicationAssumption`: each run has a path, and what the clients send is what
  the registry accepts;
- `BackfillShardsAssumption`: the window of the backfill is whole days, and no
  value of a dimension to split by is "any";
- `DialogueAssumption`: the steps of the questionnaire are different fields, and
  none is named like another state of the dialogue;
- `SiteScrapeAssumption`: pages and limits are not empty, and each search has a
  list that stays as it is during the run.

Hypotheses beyond the assumptions, all of them in the theorems' statements:

- `OneClient` (`DataRunTx`): the updates of one run come one after the other, as
  `pipeline_runner.sh` and the publisher send them, each waiting for the answer;
- the posts of `PointerMirrorsRun` and `OneClientImplementsRegistry`: a report
  other than `published` has no path and no error text, and `published` has its run's
  own path; this is what `pipeline_runner.sh` sends;
- `Refresh` (`FailedRunIsPutBack`, `StaleIsExplained`): the runners take
  `.refresh.lock`, as they do with `SKILLRA_REFRESH_HH=1`.

The theorems are in the module `<first column>_proofs`.

| Proofs | Theorem | Says |
| --- | --- | --- |
| `SubscriptionLease` | `TypeCorrect` | The variables of SubscriptionLease keep their types, and digest_history stays finite. |
| `SubscriptionLease` | `LeaseIsSafe` | The invariant of the lease: ids and locks are given out once, a held lock is unrecorded, and a lease is granted on a later local date than everything recorded for its row. |
| `SubscriptionLease` | `OncePerLocalDay` (`OneRecordPerLocalDay`) | No row ever gets two deliveries recorded on one local date, and no lock is recorded twice, for every number of users and locks and every setting of the limits. |
| `SubscriptionLease` | `PrefilterComplete` (`PrefilterKeepsDue`) | The weekday prefilter never hides a due subscription, for every length of day and week and every zone at most a day away from UTC. |
| `SubscriptionLease` | `GivenUpForGood` (`GivingUpIsFinal`) | A row that spent its attempts and lost its lease is claimed by nobody again, whatever settings are saved: only unsubscribing gives new attempts. |
| `SubscriptionLease` | `AttemptsAreNumbered` | For any clients: a row spends at most MaxAttempt claims on one recorded delivery, each under a number of its own (the invariant AttemptsInv). |
| `SubscriptionLease` | `MergedColumnsAgree` (`NoUpdateIsLost`) | For any number of overlapping transactions: the columns an UPDATE merges still agree - a held lock is counted within the limit and was granted for this row, and a recorded delivery is remembered by its row. |
| `SubscriptionLease` | `SerialRequestsAreLeaseSteps` (`IsLeaseStep`) | Refinement, step by step: a transaction that commits while the rows it read are as it read them does what SubscriptionLease does in one step. |
| `DigestDelivery` | `DeliveryImplementsLease` (`LeaseSpec`) | Refinement: for any number of workers, repetitions and faults, the workers and their network take only the steps SubscriptionLease allows its clients. |
| `DigestDelivery` | `OnlySentIsRecorded` (`RecordedWasSent`) | digest_history shows only digests that Telegram delivered under the very claim the acknowledgement names. |
| `DigestDelivery` | `DuplicatesAreExplained` (`DuplicateOnlyIfExplained`) | A second digest from one row means that the first send was ambiguous, that its lease had run out, or that it is another local date, for any number of workers and faults and every setting of the limits. |
| `DigestDelivery` | `DeliveryTypes` | Every variable of the workers, the network and the table keeps its type. |
| `DigestDelivery` | `DeliveredOncePerLocalDay` (`OneRecordPerLocalDay`) | Through the refinement, the composition records at most one digest of a row on one local date. |
| `DigestDelivery` | `DuplicatesAreBounded` (`DuplicatesBounded`) | Between two recorded deliveries of a row at most MaxAttempt digests are sent, for any number of workers, lost calls and crashes: an injection of the digests into the numbers of the attempts. |
| `DataRunTx` | `RegistryIsConsistent` | One handler at a time, for all runs, paths and payloads: the pointer names a published run and carries its path, and finished_at marks exactly the ended runs (the conjunction RegistryInv). |
| `DataRunTx` | `RegistryAdvances` | One handler at a time, no run moves back and terminal states are final. |
| `DataRunTx` | `OneClientIsSafe` | For any number of overlapping transactions with one client per run, what each update loaded is still stored when it commits and the pointer names a published run. |
| `DataRunTx` | `OneClientAdvances` | Under the same condition the overlapping transactions never move a run back or out of a terminal state. |
| `DataRunTx` | `PointerMirrorsRun` (`ActiveMirrorsRun`) | For runs with paths of their own and one client per run: the pointer always shows a published run with that run's own path, between any two commits. |
| `DataRunTx` | `OneClientImplementsRegistry` (`RegistrySpec`) | Refinement: under these conditions any number of overlapping transactions implements the registry whose handlers are single steps. |
| `DataRunTx` | `SearchStaysSound` (`SearchIsSound`) | For any number of processes, datasets, indexer calls that overlap, loads, failures and crashes: once the newest record is a success the table and the index hold that run's vacancies and no others, and a search that calls the index ready shows vacancies of the run it names, apart from the overlaps the property names. |
| `DataStore` | `DataStoreTypes` | Every variable of the API process keeps its type. |
| `DataStore` | `ServedRunIsOne` (`ServedIsOneRun`) | For any number of requests and concurrent reloads: loads and rollbacks never mix the files of two runs, unless read through the configured paths. |
| `DataStore` | `StaleNeedsOverlap` (`StaleOnlyIfOverlapped`) | For any number of requests and reloads: a cached meta value of another run was computed by a request that overlapped the last reload or rollback. |
| `DataStore` | `TrendsStaySound` (`TrendsAreSound`) | For any number of weeks, runs, segments, reloads that overlap and requests: after a reload that was alone the table has every row of its files, each row is from a run of its week, a trend is told only under a run that earned it and labelled with it unless a reload came between, and the readiness report agrees with the API. |
| `Publication` | `OnlyPublishedIsServed` (`ServedWasPublished`) | For any number of replicas, concurrent clients and faults: no replica serves a run directory whose run was not published. Inductive: what is served, planned or kept as a snapshot is published. |
| `Publication` | `FailedRunIsPutBack` (`FailedRunIsNotActive`) | When runners take the refresh lock: a run that failed after its publication is not left active, unless nothing came before it or its calls were lost; for any number of runners, backfills and faults. |
| `Publication` | `SearchSplitIsExplained` (`SearchSplitOnlyIfFailed`) | For any number of overlapping reloads, cut off anywhere: when nothing is under way the vacancy table and the search index hold one run, or a reload has failed. |
| `Publication` | `PublicationUsesRegistry` | The clients of the publication take only the registry's steps, so the registry's theorems hold of the pointer the replicas follow (PointerIsConsistent). |
| `Publication` | `BackfillPublishesSoundly` (`PublishIsSound`) | For any number of days, options and calls of the backfill publisher, cut short or raced anywhere: what state.json or the pointer calls published was processed under the type it is labelled with, marked days are read only with the flag, and the search is whole and of the run unless an interruption or a race is written down. |
| `Publication` | `StaleIsExplained` (`StaleOnlyIfExplained`) | When the runners take the refresh lock, for any number of runners, backfills, replicas and faults: once all is quiet, a replica serves the run of the client that succeeded, or has missed a message, was put back, uses the configured paths or took the run of a client that failed. |
| `Accounts` | `OrganizationNeedsRace` (`OrganizationIsSoundUnlessRaced`) | For any number of users, cohorts, invites and overlapping requests: a wrong owner, enrolment or count of an invite comes from two requests that wrote one row. |
| `Accounts` | `OwnerNeedsRace` | For any number of users, invites and overlapping requests: the organization has its one, active owner, unless two requests wrote the membership of one user at once. |
| `Accounts` | `EnrolmentNeedsRace` | A user who is active in a cohort is a member, unless two requests on this user overlapped. |
| `Accounts` | `UsesNeedRace` | An invite counts every acceptance, unless two of them overlapped, and the count never passes its limit. |
| `Accounts` | `OrganizationIsSafe` | One handler at a time, the invariant OrgInv of members, enrolments and invites. |
| `Accounts` | `OneKeyUnlessRaced` | For any number of keys and overlapping requests: at most one key of a user works, unless two creations or revocations overlapped. |
| `Accounts` | `RevocationIsFinal` | A revoked key never works again, whatever requests overlap. |
| `Accounts` | `ResumeIsAccounted` | The row of a resume and the objects of the bucket agree, apart from what a request works on or left behind when it died. |
| `Accounts` | `ObjectsNeedRace` (`ObjectsAreSoundUnlessRaced`) | Both together: what the run checks of the keys and the resume of a user. |
| `Accounts` | `BillingNeedsRace` (`BillingIsSoundUnlessRaced`) | For any events, repeated and reordered at will: the account follows the newest event of its subscription, and premium features come from an event that grants them, unless two were handled at once. |
| `Accounts` | `EventsApplyOnce` | An event changes the account at most once, even when two requests handle it at once. |
| `Accounts` | `PlanNeedsRace` (`PlanIsSoundUnlessRaced`) | For any number of overlapping requests about one plan: an open action is dated as completed, a vacancy is saved twice or a skill has two open actions only where a request wrote over, or beside, what it had not seen of another, or the user typed it in. |
| `Accounts` | `AdviceLeadsOn` (`AdviceAdvances`) | For any actions, skills and vacancies: whoever does what the next best action says is advised something later, unless the skills he has to learn are noted with saved vacancies. |
| `Clients` | `NewsIsToldOnce` (`NewsOnceADay`) | For any number of bots, subscribers and news: in a day nobody is told twice unless two processes found the key missing at once, and who was not told once a broadcast is over was left out by a failure. |
| `Clients` | `ButtonsKeepTheirPromise` (`ButtonsKeepTheirWord`) | For any number of users, tokens, presses and restarts: a vacancy is saved only by a user it was shown to, in time, and a token is refused only when it is too old or Redis is away. |
| `Clients` | `FormsKeepToTheirUser` (`FormsAreSound`) | For any number of users, calls in flight and orders of answers: a form that is saved is its user's own, and data that counts as fresh is the row, apart from the cases the property names. |
| `Clients` | `DialogueKeepsItsPromise` (`EditsAsPromised`) | Refinement: for any questionnaire, settings, stray buttons, updates side by side and restarts, the bot's dialogue implements ProfileEdits - what is saved is what the user was asked and answered, apart from the overlaps written there. |
| `Collection` | `RawStaysWhole` (`RawIsWhole`) | For any number of daily runs, syncs, failures and crashes: unless two processes overlapped, the files a finished run processed are the ones its gate validated, and a bucket whose pointer names a run holds that run's files. |
| `Collection` | `AcceptedStaysWhole` (`AcceptedIsWhole`) | For any depth of splitting and any failures: the shards that are collected when the gate accepts cover the window without overlap, and none was cut at the source's limit. |
| `Collection` | `MirrorStaysWhole` (`MirrorIsWhole`) | For any number of runs, syncs that overlap, crashes and restores: once no sync is under way and the last was verified the pointer leads to that run's files, and a restore that ended took the files of one run. |
| `Collection` | `BackfillKeepsLedger` (`LedgerIsKept`) | Refinement, step by step: the resumable collection of days, with any call failing and any crash, implements DayLedger, in which a day is collected once and whole. |
| `Collection` | `ScrapeIsWhole` (`CollectedIsWhole`) | For any searches, page sizes and limits, and whatever fails: a scrape that is done has nothing twice and no more than its limit, and below the limit all that its searches list and that could be loaded, though the pages of the API shrink as the limit comes near. |

### The arguments

- *Once a day.*  `OneRecordPerLocalDay` is not inductive: an acknowledgement is
  as good as the lease it ends.  `LeaseInv` adds what an outstanding lease knows:
  its lock was drawn once and is on one row, ids are given out once, nothing is
  stamped with a time to come, and a lease was granted on a later local date than
  everything recorded for its row before.  `IsDue` and the monotony of local dates
  establish the last part; the acknowledgement turns it into the property.
- *Prefilter.*  A zone at most a day from UTC moves the local date by at most one,
  and weekdays of neighbouring dates are neighbours modulo the week.
- *Attempts* (`AttemptsInv`).  The claims of a row since its last recorded delivery
  have different numbers from 1 to `MaxAttempt`, and the row remembers the highest.
  Each digest sent belongs to one claim, so sending is an injection into
  `1..MaxAttempt`: that is `DuplicatesAreBounded`.
- *Transactions on leases* (`TxInv`).  What a transaction has loaded was a row of the
  table, what it commits was made from it by its handler, and the columns it does
  not write are as they are now: so the merged row is one a handler could have
  left.
- *Registry.*  With one client per run, the row a transaction loaded is stored
  until it commits, so merging its columns writes exactly the row the single-step
  handler would; a pointer once loaded exists for ever, so a merge never inserts a
  second one.  With paths of their own, what a commit writes beside another's is
  its own pointer as a whole.
- *Indexer and search* (`SearchInv`).  A call that is alone and not disturbed has
  the table, the staging index and the record as its program counter says
  (`RecordInv`, and `PairInv` for two of them); the newest record that succeeded is
  of such a call, or names the overlap (`NewestInv`); a search that was not
  disturbed has what it read (`QueryInv`).
- *One run served.*  A load has the lock from its first file to its last, so what
  it has read so far is of its plan, and what a snapshot holds was complete when
  it was taken (`LoadInv`).
- *Stale cache.*  While the lock is free, every request in flight that holds a
  frame of another run was there at the last clearing; a value enters the cache
  only from such a frame (`StaleInv` of `DataStore_proofs`).
- *Trends* (`TrendsInv`).  Files and copies have rows of their week by runs that
  got that far; a copy that has been alone since it began has the table to itself,
  so what it has upserted is there; an answer that was not overtaken is of the run
  it trusted.
- *Only published runs are served.*  Plans and snapshots outlive the pointer they
  were made from, so `ServedInv` says of them, too, that their runs are published;
  a published run stays published, which is the registry's theorem.
- *A failed run is put back* (`FailInv`).  A runner's run is not published before
  the call that says so; when only the failure report is left, the excuse holds or
  the pointer names another run; and the run a rollback returns to is over and, if
  it failed, excused, because the lock keeps runners apart.
- *Table and index* (`SplitInv`).  While they differ some request has failed, is
  about to swap the index of the table's run in, or will find at its count that
  it is too late; a client calls once, so a failed request is not forgotten.
- *Stale replicas* (`StaleInv` of `Publication_proofs`).  Only a runner has a path,
  so what a replica loads by the pointer is a runner's (`PathsInv`); beside a
  runner that publishes only a backfill moves the pointer (`MovedInv`, from the
  lock); and once a client has announced its run, each replica serves it, is
  about to, or has one of the explanations (`SettledInv`).
- *Publisher of the backfill* (`PublishInv`).  What the files say of the newest run
  agrees unless the last call was cut short (`FilesInv`); the markers a call has
  read are there and allow what it does (`MarkersInv`); each step of the script
  knows what the steps before it left (`ScriptInv`), unless something raced.
- *Accounts.*  In each module an open transaction knows what it has read and made
  (`TxInv`, `PlanInv`), and whoever commits beside it is written down in `raced`;
  with nobody there, what it read is what is stored.
- *Clients.*  The news key is set before anybody is told, and a process that tells
  has found it missing (`NewsInv`); a context and a cached page were shown to the
  user they belong to (`ButtonsInv`); a call in flight carries the user it was made
  for, and a form knows whom it was filled for (`FormsInv`).
- *Dialogue* (`DialogueInv`).  Whoever is at a step or a confirmation has answered
  what comes before it, unless a button of an earlier message was pressed
  (`AnswersInv`); and what a handler is about to save differs in one field from
  the profile it was made from, or has all that was asked for (`JobsInv`).  While
  no other write comes between, the profile it was made from is the stored one.
- *Advice.*  Needs only the types as invariant.  `StageIs` says when the advice is
  beyond a stage; whoever follows the advice brings about the condition of its
  stage and keeps those of the stages before.
- *Collection.*  `RawInv`: a process that is alone works on one run from the gate
  on.  `ShardsInv`: each vacancy within reach matches exactly one live shard, which
  splitting keeps.  `MirrorInv`: a pointer leads to what its sync put there, unless
  another sync has begun since.  `DaysInv`: a day that is completed was stored from
  all its shards, and the next day to do is the first that is not.  `ScrapeInv`:
  below the limit a search of HTML has every page before the present one; one of
  the API has as many vacancies as the pages asked for would hold in the present
  size, and since the size only shrinks, so do the gaps it could have.

### Only model-checked

- The liveness properties (`LeaseIsReleased`, `DueIsClaimed`,
  `AnsweredUnlessStuck`, `EndsOnceAnswered`): fairness and ENABLED are beyond the
  prover.

No module uses a RECURSIVE operator.

## What is not modelled

Daylight saving; reads that change nothing (lists, reports, metrics); the
lifetime of the values in Redis; `watch_reload`, which runs only without a
database; the seeding of an empty vacancy table at start-up; the manual index
endpoint; the scheduler's retries; the contents of frames, texts and numbers; the
parts the first table marks as not modelled.

## Plan

What is left, in the order of its use:

1. Proofs: all safety and action properties that the runs check are proved; what is
   left is to state the refinements of `Careers` and `Organizations` by their
   transactions, as it is done for the leases and the registry.
2. The bot's subscription and search dialogues, the organizations' pages of the
   web client, and the bootstrap of an empty installation.
3. The meta values in Redis with their lifetime, and share tokens.
