# EasyObs in TLA+

EasyObs is an observability platform for AI agents: a FastAPI process that ingests
OTLP traces, evaluates them with rules and LLM judges, replays golden questions
against an agent, and raises alarms. This directory holds TLA+ modules of its core
logic, the TLC runs that check them on small instances, and TLAPS proofs for instances
of any size. Paths below are relative to `src/easyobs/` of the repository.

Contents: [system](#the-system) · [modules](#modules) · [conventions](#conventions) ·
[the runs](#the-runs) · [what is proved](#what-is-proved) ·
[disagreements](#where-code-and-text-disagree) · [not modelled](#not-modelled) ·
[plan](#plan)

## The system

One asyncio event loop per process. Every `async with self._sf() as s: ... commit()`
is one transaction of its own, and every `await` hands the loop to somebody else, so
an operation of several transactions interleaves with everything at each of them.
The database is SQLite by default (WAL, 30 s busy timeout, foreign keys not
enforced); several API processes may share it. Only rows and files survive a
restart: tasks, flags, the circuit breaker and subscriber queues are memory.

| component (main source) | state it keeps | operations | interacts with | what is hard, and what must hold |
|---|---|---|---|---|
| Golden regression worker (`eval/services/golden_regression.py`) | `eval_run` row, `eval_golden_run_trace` map, `_tasks`, `_cancel_flags` | start, worker phases invoke / collect / evaluate, cancel, trace correlation | golden sets (lock), agent (HTTP), ingest hook, evaluation run | cancellation at any await, gather failing while siblings run on, stragglers against late traces, restart. No evaluation before everything settled; the shown summary is the real one; a run ends |
| Evaluation run (`eval/services/runs.py`, `cost.py`, `judge_models.py`) | `eval_run`, `eval_result`, `eval_cost_daily` | estimate, guard, execute, persist, finalise, roll-up | judge panel, improvements, profiles | overlapping runs against one budget, exceptions at every step of a subject, retries of the ledger. Nobody dropped, books agree, budget kept |
| Golden sets (`eval/services/goldensets.py`) | `eval_golden_set`, `_item`, `_revision` | add, review, delete, ensure and lock revision | regression start, synthesizer, upload | overlapping starts, curation during a start. Used revisions are closed, items stay where they were bound |
| Synthesizer and progress (`eval/services/synthesizer.py`, `progress.py`) | job rows, tasks, bounded queues and a replay buffer | start, generate, cancel, subscribe | golden sets, judge providers, SSE clients | cancellation between commit and publication, dropped events, replay while publishing. What is told is true, in order, and the stream ends |
| Alarms (`alarms/evaluator.py`, `services.py`, `dispatcher.py`) | `alarm_rule`, `alarm_channel`, `alarm_event` | sweep, on-demand evaluation, fan-out, edits | queries over traces and results, seven kinds of channels | sweeps and requests that overlap, restarts between opening and telling, dedup window. One firing event, told once, resolved in the end |
| Trace ingest (`services/trace_ingest.py`, `adapters/blob_hybrid.py`, `catalog_sqlite.py`, `eval/auto_rule.py`) | batch files, archive, `trace_index`, breaker counters | ingest, upsert, archive, hooks | OTLP exporters, auto-rule runs, regression correlation | parallel exports of one trace, retries, partial failure, an archive that fails. What is acknowledged is readable; retries never inflate |
| Storage (`services/app_settings.py`, `http_app.py`, `cli.py`, the blob stores) | settings file, catalogs, directories and buckets | save settings, boot, migrate, reset | ingest, queries | settings saved under a running server, commands that rewrite its files, kills in the middle of a table. Rows find their spans |
| Directory (`services/directory.py`, `tokens.py`, `api/security.py`, `api/deps.py`) | users, organizations, memberships, services, assignments, tokens | sign-up, sign-in, membership, assignment, tokens, scope of a query | every router | two first sign-ups at once, rights revoked between check and act. Only the entitled change rows; queries see what was granted |
| Queries (`services/trace_query*.py`, `analytics*.py`, `query_engine.py`) | none | lists, overviews, sessions, users, spans | catalog and files, or SQL over Parquet | two engines answer the same routes. They agree |
| Judge panel (`eval/judge/`) | none | provider calls, retries, consensus, combination | evaluation run | panels that fail in part, five policies, eight vendors |
| Rules (`eval/rules/`) | none | 33 built-in rules, metric catalogue | evaluation run | thresholds, empty inputs, rankings |
| Improvements and trust (`eval/services/improvements.py`, `improvement_catalog.py`, `trust.py`) | none (their results are stored as rows) | proposals, coefficients of agreement | evaluation run, golden sets | tables that must fit each other, missing labels |

`PROJECT.json` lists the components in full, and the hazards at their lines.

## Modules

| module | models | used by |
|---|---|---|
| `RunLifecycle` | abstract: what an `eval_run` row promises to whoever polls it | implemented by the next two |
| `GoldenRegression` | one regression run, from launch to final status | `GoldenRegressionProofs` |
| `EvalRun` | runs of one profile and the ledger they share | `MCEvalRun`, `EvalRunProofs` |
| `GoldenSets` | one golden set, curation, and starts that pin a revision | `MCGoldenSets`, `MCAlgorithms`, `AlgorithmsProofs` |
| `ProgressBroker`, `SynthJobs` | the broker, and one job that publishes to it and fills a set | composed: `SynthJobs` extends the broker; `SynthJobsProofs` |
| `AlarmEvaluator` | one rule, its channels and events | `MCAlarmEvaluator`, `AlarmEvaluatorProofs` |
| `TraceIngest` | exports, hybrid store, catalog, auto-rule hooks | `MCTraceIngest`, `TraceIngestProofs` |
| `Storage` | settings, boots, files, and the two commands | `MCStorage`, `StorageProofs` |
| `Directory` | users, memberships, services, tokens, requests | `MCDirectory`, `DirectoryProofs` |
| `Queries`, `JudgePanel`, `RuleEngine`, `TrustMetrics`, `Improvements` | pure functions of their input | `MCAlgorithms`; of the first two, `AlgorithmsProofs` |

`MC<Module>` holds what only TLC needs (symmetry, values of function constants, bounded
inputs). The `...Proofs` modules hold theorems.

## Conventions

* An action is what a coroutine does up to its next await: one transaction, one
  external call. Where a session loads a row and commits it again and somebody may
  change the row in between, load and commit are two actions. Where nobody else
  writes that row, or nothing depends on the order, they are one, and the module says
  so.
* SQLAlchemy flushes before a query, so a change followed by a query in the same session
  holds SQLite's write lock from that query to the commit; `GoldenSets!CommitLock`
  depends on it.
* Exceptions and restarts are actions bounded by `MaxFaults` and `MaxCrashes`.
* A pure part is an operator from its input to its result. Its "reference" is a second,
  independent account of the same data: the other engine, another measure, the same
  input made worse. Where places in a list matter and its order does not (a panel, the
  rules of a profile), a list is a function of its places, and what is left of it keeps
  them.
* `Name_Suffix` next to a definition is a variant with a plausible bug; it is no
  part of any specification. Each checked property is refuted when one is put in the
  place of the original.
* Constants that bound a run are marked `bound:`; the proofs hold for every value.
* Deadlock is checked where loops go on for ever (alarms) and off where the instance
  legitimately stops (a run that ended, requests used up).

## The runs

### Regression (`GoldenRegression`)

`status`, `summary`, `invoke`, `inner` are rows; `pc` is where the worker awaits;
`child` where each gathered call does; `flag` and `cancelReq` are the two ways a
cancellation travels (the `asyncio.Event` and the `CancelledError` thrown by
`task.cancel()`); `launch` is the launcher between commit and `create_task`; `client`
the cancel endpoint between its read and its act; `landing` the ingest hook between its
read and its write. Worker phases map to actions one by one.

Two items, one call at a time, two cancel requests, one raising call, one restart. Two
items are enough for one to run on while the other has failed, to be collected before
and after the deadline, and to differ in their outcome; one slot makes an item wait for
the semaphore.

* `SettledBeforeEvaluation`, `EvaluatedStayCollected`, `SummaryFromInner`: what is
  evaluated and shown is what was collected.
* `NoCallAfterEnd`, `CancelReachesWorker`, `FaultRecorded`: failures and cancellations
  arrive and leave nothing running.
* `KeepsLifecycle`: the row implements `RunLifecycle`.
* `RegressionEnds`: a run whose worker has begun ends, and as `cancelled` if it was
  told to in time. Its premises exclude what the code does not survive: a cancellation
  that lands in the handler that is writing the final status, or a second failure while
  the first is recorded.

Fairness: the event loop resumes ready tasks, database calls return, an agent call ends
by its HTTP timeout (`agent_invoke.py`), the clock reaches the deadline, the ingest hook
finishes a trace it has begun. Nobody is assumed to start, cancel or send a trace. The
collect loop's sleep is part of `Poll`.

### Runs, RunsPaced, RunsOverlap (`EvalRun`)

Per run: the guard's decision (`wants`, `estimate`, `note`, `specs`), the loop position
`at`, the local counters, the row, the result rows, the attempts at the ledger. Dollars
are small integers. A judge panel is a choice of verdict and cost; only calls that
answered cost. `SubjectRaises` is the `except` of the loop at any of its steps,
`SetupRaises` and `EndRaises` are the calls no `except` covers, `RecordLocked` the retry
of the ledger.

* `Runs` (2 overlapping runs of 2 and 1 subjects, 1 model that may be toggled,
  downgrade, 1 fault, 1 restart): `FiguresAddUp`, `OnlyAdmittedPay`, `BooksAgree`,
  `KeepsLifecycle`. A run of two subjects lets the first be counted when the second
  raises; two runs are what the ledger can be shared by.
* `RunsPaced` (`PacedSpec`: 3 judged runs, up to 2 at a time, of 2 and 1 subjects in a
  project and of 1 outside any project; block, 1 fault, fairness; no model is enabled
  while a run is under way): `WithinLimits`, `RunEnds`. The budget (1) is less than what
  the first run may spend (2), so that a run is admitted or refused depending on what the
  others have billed by then. Together the runs overrun the month by at most the cap of
  one run for each run but one that may be under way at a time (`Overlap`).
* `RunsOverlap` (expected violation of `WithinMonthlyBudget`): two runs pass the guard
  on the same figure.

Fairness: a run that has begun is resumed, every call answers or times out. Nobody has
to begin a run.

### Synth (`SynthJobs` over `ProgressBroker`)

One job, its launcher, worker and cancel endpoint, the set it fills, and a listener
whose queue (1) is shorter than the replay buffer (2), so that events are dropped while
the buffer is replayed. Two cancel requests, the set deleted at any time, one raising
call, one restart. The await that closes a session after its commit is a state of its
own, because the worker publishes behind it and a cancellation can land there.

* `ToldIsTrue`: after a terminal event the row does not change.
* `StreamInOrder`: no event twice, none skipped unless the queue overflowed.
* `JobAddsUp`: the count shown, the candidates in the set, and none after the end.
* `StreamsEnd`: an open stream of a job that was not cancelled ends.

Fairness: tasks are resumed, calls return, streams are read. Starting, cancelling,
watching and leaving are nobody's duty.

### Alarms, AlarmsShared (`AlarmEvaluator`)

`local` holds what an evaluation has read: the channels, the signal, the active event,
the age `lag` of its `now`. Times are ages, counted up to where all are alike
(`OldAge`). The signal is `ok`, `violating` or `none` (too few samples).

* `Alarms` (one loop, 2 channels, dedup window 1, 3 changes of the signal, an edit, a
  fault, a restart): `SingleFiring`, `CountersMatch`, `EveryChannelTried`,
  `DedupSpacing`. Three changes let a rule fire, resolve and fire again inside and after
  the window; two channels let one fail and the other not.
* `AlarmsShared` (a loop and a request, a fault, a restart, fairness): two events may
  open for one violation; `ToldTruly` (each is announced once, and resolved only when
  it is) and `FollowsSignal` (a lasting violation or recovery shows in the end) still
  hold.

Fairness: loops sweep again and again, an evaluation that began is resumed, time
passes. Nobody has to send a request.

### Ingest (`TraceIngest`)

Exports of spans, the hybrid blob store (local file, then S3 behind a circuit breaker),
the catalog's upsert as a load and a commit of the changed columns, and the hooks that
start automatic rule runs. A file is named by its export, trace and attempt. `quiet`
and `remaining` count time to the breaker's cool-down.

Two parallel exports that share a trace, one resend (`resends` counts those of all
exports), threshold 2, 3 archive faults, 1
fault, 1 restart. Three archive faults open the breaker, let it close and open it once
more. `AcknowledgedLands`, `RowIsReadable`, `RowsWiden`, `GapsOnlyAfterFailure`,
`LatestIsEvaluated`. `RowsWiden` leaves out exactly the commits whose loaded row was out
of date: there the code does lose the wider value.

### GoldensPinned, and the golden set in Algorithms (`GoldenSets`)

Items with their status and `revision_id` (`binding`), the revisions, and starts of
regression runs. A start loads the set, reads the newest revision (`ReadLatest`), opens
one if that is locked (`InsertRevision`, which the unique constraint on
`(set_id, revision_no)` may refuse), reads and counts (`ReadRevision`), locks and binds
in one transaction (`CommitLock`) and selects the run's items (`SelectItems`). People
and workers add, review and delete items meanwhile and may delete the set.

* In `Algorithms` (3 starts, 2 items, one review): `RevisionsClose`, `SnapshotStays`.
  Three starts are needed for one to open a second revision while another still holds
  the first and a third races for the same number.
* `GoldensPinned` (expected violation of `InputsArePinned`): an item added after the
  lock is invoked.

### Directory (`Directory`)

Users sign up and in, select an organization and send requests. A request reads its
caller's rights (super admin, membership) in sessions of their own before the one that
acts; `req[q].pc` is where it is, `was` the rights its caller has had since it began.
Updating a member takes two transactions; asking for a membership and replacing
assignments are a load and a later commit (`CommitMembership`, `CommitAssignment`). The
other handlers also load a row and commit it an await later, but write a column whatever
it holds, or find the row gone and fail: each comes to the same as one action at its
commit, or at its load where it writes nothing. Two users, two
organizations, one service, one token, four requests with two under way at once: enough
for the rights of a caller to be granted and revoked between check and act, by the
other request or by the second of two racing first sign-ups.

`BootstrapStays` (there is always an admin who can approve), `OnlyTheEntitled` (rows
change only by requests whose caller was entitled at some moment of the request; a
user's own request only makes a row pending that was missing or rejected at some moment
of it),
`ScopeWasGranted` (a query lists only services its caller was granted).

### Storage (`Storage`)

A server with the settings saved in `app_settings.json` and an environment, which it
reads at boot (`Effective`); batch files that are created, then filled, then named by a
row; `migrate-parquet` file by file and `reset-data` directory by directory. Two boots,
one save, two commands, one kill or failure, two traces.

The settings have a provider and a path or host for the catalog, which need not fit each
other; the environment has a `database_url`, which may name a Postgres. The run has a save
without a host, and an environment with a Postgres under settings nobody touched.

`SpansKept` (every row finds its spans), `SettingsApply` (as far as no cloud is named, the
restart banner is up when a restart would move what the settings choose, and where it
would move nothing it is up exactly in the cases of `Unheeded`), `MigrationRepairs` (a migration that ends well has
replaced what a killed one left). `SpansKept` excepts what the code does lose: a file the
migration met in the making (`raced`), and rows of another catalog after a reset.

### Algorithms (`Queries`, `JudgePanel`, `RuleEngine`, `TrustMetrics`, `Improvements`)

A behaviour is one of the golden set, or takes one input of a pure part (`input`), on
which the invariants are evaluated.

* `EnginesAgree`: spans of two or three traces with the orders of starts, status and
  attributes, under seven kinds of range, with an archive that is unused, complete or has
  lost a trace, and pages of one row and of four. A catalog read is of two rows (`Cap`,
  1000 in the code), so that three traces exceed it; an overview goes back one tick
  (`Day`, 24 hours), a list ten (`Default`, 720 hours), a top list has one line (`TopLines`, 8
  and `TopServices`, 10). Rows with equal keys come in any order, so an answer is one of a
  set (`First`). The file engine and the SQL engine answer overviews, sessions, users,
  lists and spans alike where the range cuts no trace and its open ends leave out no span
  (`Fits`), and where the read rows are all that the range has (`Kept`), as many as are in
  the store, or not filtered. If there are more, an overview counts no more than the SQL
  engine's. Lists of spans are compared if all fit on the page.
* `JudgesAreFair`: panels of up to three judges. One is of any of the eight providers
  and may time out, reply empty, with text, a list or a cut object, or lack a setting;
  five policies, a golden item matched by trace or by query. Raising a judge's or a
  rule's score never lowers what is said of a trace, and a judge that failed counts as
  if it had not been asked. Scores are hundredths (`One`), a judge is asked twice
  (`Retries`).
* `FindingsAgree`: what two or three judges and a person said of up to three items (the
  coefficients do not exceed 1, an alpha of 1 means agreement, Fleiss's kappa and the
  nominal alpha measure the same disagreement, and the order of results is irrelevant),
  rankings of up to four documents against up to three expected ones
  (recall, precision, MRR, hit rate, nDCG and MAP are mutually consistent), measurements
  around budgets of 2 and 3 with up to two spans (a worse measurement never improves a
  rule), and findings of every evaluator and cause under every pack (a result that does
  not pass gets proposals, of its pack, worst first, one for each failing evaluator, and
  every remedy the tables name exists).

`TrustMetrics` and `Improvements` were also evaluated on some hundred random inputs and
gave what the Python code gives.

## What is proved

With tlapm, for every set of items, clients, runs, models, users, channels, exports,
traces and every value of the bounds, from the `ASSUME`s of the modules: sets that are
counted are finite, amounts and bounds are natural numbers, spans have a trace and a
start. All safety properties of the runs that pass are theorems but `FindingsAgree`.

| module | theorems | about |
|---|---|---|
| `GoldenRegressionProofs` | `TypeCorrect`, `EvaluationWaits`, `EvaluatedKept`, `SummaryFaithful`, `CallsEnd`, `CancelDelivered`, `Semaphore` | the safety properties of `Regression`, and the limit on concurrent calls |
| | `PhasesFollow`, `CountsFit`, `ImplementsLifecycle` | `KeepsLifecycle` of `Regression` |
| `EvalRunProofs` | `TypeCorrect`, `SubjectsAccounted`, `PassRateSound`, `FiguresSound`, `FreeWithoutJudges` | `FiguresAddUp` and `OnlyAdmittedPay` of `Runs` |
| | `RowsFollow`, `ImplementsLifecycle` | `KeepsLifecycle` of `Runs` |
| | `LedgerAgrees` | `BooksAgree` of `Runs` |
| | `LimitsHold` | `WithinLimits` of `RunsPaced`, for any overlap |
| `AlgorithmsProofs` | `TypeCorrect`, `RevisionsAreClosed`, `SnapshotsStay` | `RevisionsClose` and `SnapshotStays` of `Algorithms` |
| | `EnginesAlwaysAgree`, `EnginesAgreeThroughout` | `EnginesAgree` of `Algorithms`, and the same of any store and request |
| | `JudgesAlwaysFair`, `FairThroughout` | `JudgesAreFair` of `Algorithms`, and the same of any panel, rules and golden items |
| `SynthJobsProofs` | `TypeCorrect`, `ToldTruth`, `StreamsDeliverInOrder`, `JobsAddUp`, `WithinTarget` | `ToldIsTrue`, `StreamInOrder`, `JobAddsUp` of `Synth`, and the target |
| `AlarmEvaluatorProofs` | `TypeCorrect`, `NoticesAreTrue`, `NoticesReachEveryone` | `ToldTruly` of `AlarmsShared`, `EveryChannelTried` of `Alarms` |
| | `OneFiringEvent`, `WindowIsKept`, `DeliveriesAreCounted` | `SingleFiring`, `DedupSpacing`, `CountersMatch` of `Alarms`, for a loop that is alone |
| | `DeliveriesAreNotInvented` | the counters of an event that any number of evaluators deliver |
| `TraceIngestProofs` | `TypeCorrect`, `AcknowledgedIsStored`, `RowsAreReadable`, `LatestBatchIsEvaluated`, `GapsComeFromFailures`, `RowsOnlyWiden` | the properties of `Ingest` |
| `DirectoryProofs` | `TypeCorrect`, `SomebodyCanApprove`, `ScopesWereGranted`, `OnlyEntitledAct` | the properties of `Directory` |
| `StorageProofs` | `TypeCorrect`, `RowsFindSpans`, `BannerIsTrue`, `MigrationsRepair` | the properties of `Storage` |

**GoldenRegression.** None of the properties is inductive: they talk about a status row
while what keeps them true is where the worker and its children stand. `IInv` ties the
two together: the launcher and the worker never both own the start (`LaunchInv`), a
raised flag travels with a cancellation (`CancelInv`), before and after the gather no
call runs unless the gather failed (`CallsInv`), the row's status follows from the
worker's await (`StatusInv`), the subjects handed on are collected (`SubjectsInv`),
nothing waits once the collection has ended (`SettledInv`), the copied summary is that of
the finished evaluation (`SummaryInv`). The semaphore needs one more fact: acquiring
adds one holder where there were fewer than the limit.

**RunLifecycle.** The abstract state is the status, the two counts and whether somebody
still owns the row. The mapping reads ownership off the launcher and the worker
(`Owned`), or off the caller's position. A step of the implementation either leaves all
three alone or is one of `Submit`, `Advance`, `Complete`, `Abort`, `Release`; for
that the proofs need that the phase follows the position (`PhaseInv`, `OpenInv`) and
that the counts never exceed the size of the run (`CountInv`). The cancel endpoint, the
gathered calls, the ledger and the restart all stutter or release.

**EvalRun.** Runs are independent but for the ledger, so the invariant is stated for one
run: its position fits its size (`PositionInv`), every subject before it has a result or
is counted as failed (`AccountInv`), evaluated plus errors fit the position (`CountInv`),
the completed row holds the counters (`RowInv`), and cost or judges imply an admitted
judge lane (`PayInv`). A frame lemma (`OtherRun`) shows that a step of one run keeps
those of the others, another (`OwnStep`) that it keeps its own; cardinalities grow by one
at most (`OneMore`, `ResultCount`).

The books compare sums over runs. That a sum over a finite set exists and unfolds is
proved by a least counterexample over its subsets (`SumsUnique`, `SumsExist`,
`SumUnfolds`), from which follows that a sum moves by what one summand moves
(`SumStep`). The invariant `BookInv` bounds each ledger entry by what each run has
surely billed and may have billed; a step bills its own project and nobody else's
(`RunBills`). The limits need the guard's arithmetic (`LimitInv`): an admitted run was
estimated at no less than its models may cost (`AdmittedInv`) and has spent no more than
that for the subjects it has gone through (`SpentInv`). `CommitInv` adds to the ledger
what the admitted runs that have not billed yet were estimated at, their reserves, and
bounds the sum by the budget plus `Overlap - 1` caps: the last run admitted saw the
ledger but not the reserves of the others under way, of which there are at most
`Overlap - 1`, each with a reserve below the cap (`OthersReserve`, `SumBounded`). A
billing turns a reserve into spend and adds nothing (`CommittedFalls`), a crash releases
reserves. `LimitsHold` assumes `CallCost <= Price`, calls no dearer than estimated, and
`PacedSpec`, in which no model is enabled while a run is under way. The code ensures
neither: it resolves the models again after the guard (`runs.py:457`), so a model enabled
in between is paid for without having been estimated. What the theorem shows is how much
of an overrun the overlap of runs alone can cause; that the monthly budget itself holds
is claimed of no specification here.

**GoldenSets.** That at most the newest revision is open is not inductive: a start inserts
a number it chose several awaits earlier. `StartInv` says what it still knows by then:
every revision below that number exists and is locked, which lasts because revisions are
only added and locked (`Grows`, the frame fact of `StartKeeps`). If the insert succeeds
the number is the next one, so all earlier revisions are locked.

**Queries.** `EnginesAlwaysAgree` is about any finite set of spans, any request and any
limits, with the premises `Queries!OverviewsAgree` and `ListsAgree` name (see
`EnginesAgree` above). One engine first takes the newest rows of the catalog, of these the
traces that start in the range, and then all their spans; the other one the spans in the
range. That both see the same spans is `RangeIsWhole` and `SpansOfRange`; that the ends the
SQL engine fills in leave out none is `SameSpans`. Rows and groups differ as records in
the two engines (the SQL engine groups, the other one summarises), so what a page shows is
compared: showing tells rows apart and keeps the key they are sorted by, hence it may
be done before the page is cut (`FirstShown`), and both engines have the same to show
(`SameLines`, `GroupsAgree`). Sessions and users compare groups of spans with groups of
rows (`OneGroup`): the least of the least starts is the least start, and counts add up
because the traces of a group are disjoint. Where an induction over the number of rows
would be used, a least counterexample over the subsets takes its place (`Smallest`). That
an answer exists for every limit is left to TLC.

**JudgePanel.** `JudgesAlwaysFair` compares a subject with one in which a judge or a rule
thinks better of the trace. A reply counts only where its judge is set up (`Listens`), and
a better one keeps which attempt is the first that answered (`RaisedJudge`); so the
judges that answered are the same, and each says no less (`NoWorse`). The consensus is
then taken policy by policy (`AggregateRises`): sums keep the order (`TotalMonotone`,
proved over subsets, as there is a function that the fold computes), division by a
positive number does, and where all weights are zero all are one (`WeightsAre`). More than half
can have only one verdict, for two sets of them would meet, and as many have at least a
better one (`CountsMove`, `MajorityRises`). That a
failed judge does not count holds because the outcome depends on the panel through those
that answered alone. The premises (`IsSubject`): a reply's score is an integer or missing, a
rule's score lies within 0 and 1, its weight is not negative. A judge's weight may be
anything; the code clips it.

For both, a second theorem shows that what the run takes as input satisfies the premises,
which makes the invariant of the run a theorem too.

**SynthJobs.** The broker is proved first, for whoever publishes: what an open stream
still has to send lies between what it sent last and what was published last, ascends,
and has no gap unless its queue overflowed (`StreamInv`), since the replay was copied when
the queue was opened. Of the job, `ToldInv` says where the worker may be once a terminal
event is out, and `FiguresInv` relates its counter, the row, the set and the target at each
of its awaits. `generated` is one ahead of `shown` from the insert of a candidate to the
commit of the count, also when the worker is cancelled in between.

**AlarmEvaluator.** For any number of loops and requests: an evaluation that tells
`firing` is the only one of its event (`OpenerInv`), because only who opened it tells,
and the channels it has left have not been told (`NoticeInv`); an untold event is paid
for by a fault or a restart (`UntoldInv`; its set contains that of `EveryChannelTried`,
as only who tells `firing` may still remove an event from it). One firing event, the
dedup window and counters that match hold for a loop that is alone (`Alone`: one loop, no
request); a second evaluator may open a second event. `AloneInv` says that what the loop
found is still the one firing event when it opens or closes; for the window, that the
ages, which go on while it decides, keep ahead of its `now`. `CounterInv` says that
counters it has read are still those of the row when it writes them. Several evaluators may lose one of
two increments, and `DeliveriesAreNotInvented` is what remains: `RoomInv` keeps what is
counted, and what was read to be written, within the deliveries nobody has in hand,
which grow with every write and never shrink.

**TraceIngest.** A row is sound if its batch is on disk and its figures stay within what
the exports carry of the trace (`Sound`). A request relies on three things it did
earlier: the traces it has done have landed (`WorkInv`), its file is on disk (`FileInv`),
and the row it loaded, however old, was sound (`RowInv`), so that the mix of columns two
racing commits leave is sound too. The breaker needs that the cool-down began with the last failure
(`BreakerInv`). The bound on `resends` bounds the attempts that name files
(`SendInv`). The proof found that the assumption on spans, as it had been written, said less than it
was meant to: its conjunction bound too weakly. It now says that every span has
a trace and a start.

**Directory.** A request draws conclusions from its caller's rights in one session and
acts in another. `RightsInv` says that whatever it has concluded by now, its caller was
granted at some moment of the request (`was`); `PathInv` that what it plans stays within
its organization, and that no super admin's request is about to commit over the row
that keeps the platform governable. `SignUpInv` ties the two racing first sign-ups to the rows:
whoever is not first finds somebody. An action property then follows from one lemma for
each kind of row, what changes it and who may (`ActsRightfully`).

**Storage.** Where a trace's spans are depends on how far its export, a migration and a
reset have come: `ExportInv`, `SourceInv` and `TableInv` say what there is of the trace
at each of their steps, `CommandInv` that a reset has the data to itself and takes rows
before files. `RowInv` is `SpansKept` with the two exceptions it names. `BannerIsTrue` is
a comparison of two functions, `Dirty` and `Effective`, by whether the settings choose a
catalog (`Chooses`).

Only model-checked: everything temporal under fairness (`RegressionEnds`, `RunEnds`,
`StreamsEnd`, `FollowsSignal`, `FaultRecorded`), which this prover cannot treat;
`FindingsAgree`, whose sequences are filtered, sorted and folded, which would need
induction over data that no installed prover can do; and the two violations, which are
counterexamples.

## Where code and text disagree

Shown by a run:

1. `README.md:37` of the repository says cost guards prevent overruns of the monthly
   limit; overlapping runs are admitted on the same spend (`RunsOverlap`).
2. `golden_regression.py:130` says the lock pins immutable inputs; the items are
   selected later from the live set, whatever their revision (`GoldensPinned`).

Met while modelling, without a run of their own:

*Runs and regressions*

* `golden_regression.py:103` says a run can be cancelled by id after a restart; its
  flag is set and nobody reads it.
* A regression run's evaluation creates a second `eval_run` row (`inner`), which the
  docstring at `golden_regression.py:451` says it avoids. Items that timed out never
  reach the run's verdict counts (module docstring, line 11).
* The cap per run bounds the estimate, not what the run spends (`runs.py:530`);
  `apps/web/public/docs/en/eval-profiles.html:73` reads as if it did. `WithinLimits`
  therefore assumes calls no dearer than estimated.
* `failed_count` counts a subject twice that failed to be judged and then raised
  (`runs.py:640`, `1034`). An exception outside the subject loop leaves the row
  `running` for good.
* A run hands the rules `extra["golden"]` with the payload one level down
  (`runs.py:424`); the rules read `expected_doc_ids` at the top level
  (`builtin.py:291`), so retrieval rules stay unset in a run.

*Synthesizer*

* A job cancelled before its task's first step, or while it is being marked running,
  keeps its status; its handler publishes no terminal event, so listeners wait.
* A cancellation after the commit of `done` turns a finished job into a cancelled one.

*Alarms and ingest*

* `dispatcher.py:7-9` says that after a failed delivery the next tick will "produce a
  follow-up firing event if the system is still in violation". There is none: the sweep
  finds the event firing and stays silent, as `evaluator.py:8` says, so a channel that
  failed is not told again. `SingleFiring` and `EveryChannelTried` state what the code
  does.
* A restart between opening an alarm event and its fan-out loses the announcement; a
  rule that is disabled while firing keeps a firing event. `AlarmEventRow` is described
  as append-only, yet `close_firing` changes it.
* Two evaluators that deliver the same event overwrite each other's counters
  (`alarms/services.py:578`): a stale write of the attempts can leave more failures than
  attempts, where `dispatcher.py:10` has the console show one as a share of the other.
* The quality signals look for runs with status `succeeded` (`evaluator.py:471`), which
  `RunStatus` does not have.
* The archive fallback of `HybridBlobStore.read_batch_lines` cannot find a file: the two
  stores choose different names.
* `apps/web/public/docs/en/tracing.html:38` calls the count of a trace total; it is the
  maximum over its batches.

*Golden sets*

* A second lock of an unchanged set opens a revision that counts all items and binds
  none; two overlapping locks overwrite the count of a locked revision; `delete_item`
  removes items of a locked revision.

*Directory*

* Two first sign-ups at once both become super admin. Removing a membership keeps the
  member's service assignments. Overlapping replacements of one user's assignments give
  the union of both.
* `request_access` is for users "without an approved membership" (`auth.py:426`), and
  `request_membership` refuses an approved row. It commits what it loaded, though: a
  rejected member who asks again while an admin approves him turns the approved row into
  a pending one, with the role he asked for. `OnlyTheEntitled` therefore looks at what
  the row was at some moment of the request, not at what the commit overwrites.

*Storage*

* The settings page sends masked and empty secrets back, which its comment
  (`apps/web/app/workspace/settings/page.tsx:1335`) calls a no-op. The restart banner
  never clears for a cloud provider, since the running one is always reported as local,
  nor for settings whose catalog is not used (`Unheeded`): untouched ones, or SQLite without
  a path, under a Postgres `EASYOBS_DATABASE_URL`, and Postgres without a host, which
  `http_app.py:100` ignores while `api/routers/settings.py:166` compares providers; a restart
  moves nothing there. A path cleared after an explicit one does not raise it. An
  environment that names a cloud overrides a saved "local".
* `migrate-parquet --delete-source` leaves catalog rows that name the deleted file, and
  may delete a file that is being written. `reset-data` looks at the environment's paths
  only. One torn Parquet table makes every DuckDB query raise.

*Queries*

* The two engines see different traces of the same request where `Queries!OverviewsAgree`
  and `ListsAgree` have a premise. The file engine filters the 1000 newest rows of the
  catalog (`analytics.py:60`, 290, 421, 525; `trace_query.py:83`), so that a range in the
  past may come out empty; the SQL engine reads all. With only an end given, an overview of
  the SQL engine begins `window_hours` before it (`analytics_duckdb.py:93`) and its lists
  720 hours before now, while the file engine goes back without limit; without an end, the
  SQL engine leaves out spans of the future. The overview's route always has a window
  (`api/routers/analytics.py:22`), so it never reads the archive, however old its range.
* Beyond the limit of a page of spans, the file engine shows those of the newest traces in
  the order of their files (`analytics.py:567-574`), the SQL engine the newest spans
  (`query_engine.py:366-367`).
* The SQL engine counts LLM calls over the eight most used models only.
* The SQL engine takes the largest status by its spelling (UNSET over OK over ERROR),
  latencies per span, never counts unset, and does not scope its top lists; session
  errors are spans in one engine and traces in the other.

*Judges, rules, improvements, trust*

* The weight of a rule is taken as it is (`profiles.py:43`, where 0 becomes 1), while
  that of a judge is clipped at 0 (`consensus.py:70`). A negative one would let a higher
  score of the rule lower the trace; the proof of `JudgesAlwaysFair` needs it excluded.
* An empty reply is a score of 0 with some providers and an error with others.
  `coerce_score` reads 1 as 1.0 and 2 as 0.02. Scores are said to be in [0, 1], yet MAP
  with repeated documents and unclipped similarities exceed 1. nDCG's ideal ranking is
  taken over the retrieved documents.
* Seventeen rules are missing from `_FINDING_TO_CATEGORY` (`improvements.py:171`), which
  `improvement_catalog.py:1027` says `FINDING_TO_DETAIL` mirrors: their findings are filed under
  `prompt_clarity` while their remedy belongs to another category, so packs drop them
  (a failing `rule.tool.success_rate` proposes a model change under
  `easyobs_efficiency`).
* The ordinal alpha depends on the order of the rows: ranks follow the alphabet,
  marginals the order of appearance (`trust.py:184`). `OrderFree` therefore leaves it
  out. Results are those of all runs of the set, whatever their revision.

## Not modelled

* Text and layout: prompts, templates of agent requests, Parquet columns, OTLP fields,
  pricing, labels, the expression language of custom rules, the upload parser.
* Percentiles, time series and the order of rows of a query.
* Rows whose operations are one transaction each and that nothing else depends on:
  profiles, schedules, human labels, judge prompts, the status of an improvement, the
  daily trust rows, alarm pins.
* The routers' validation and mapping of exceptions (`api/routers/evaluations.py`,
  `alarms.py`); the calls they make are actions of the modules, and the checks of the
  caller's rights are in `Directory`.
* Demo data, logging, deployment, the web console and the agent SDK, which reach the
  system through the modelled calls.
* Several processes are covered where rows are all they share (`EvalRun`,
  `AlarmEvaluator`, `TraceIngest`'s catalog); the breaker, the synthesizer and the
  regression worker belong to one process.

## Plan

1. Proofs: the rest of the pure parts (one rule, the retrieval measures).
2. Composition of `GoldenSets`, `GoldenRegression` and `EvalRun`: a start pins, the
   worker invokes, the run scores. `GoldenRegression` has a short `Exec*` version of
   `EvalRun` today.
3. `JudgePanel`'s outcome in place of the choice of verdict in `EvalRun`.
