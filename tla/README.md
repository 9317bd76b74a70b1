# Verification of AI-PPTX-Gen

TLA+ models of the parts of AI-PPTX-Gen in which several goroutines, requests, a
store and crashes meet; TLC runs on small instances of them; and theorems about
them, for every value of the constants, that TLAPS checks. Paths below are
relative to the repository.

Run everything in this directory: `tlc -workers 2 -config <run>.cfg <module>` for a
run of the table in section 3 (module and file are in `PROJECT.json`), `tlapm
<module>Proofs.tla` for the proofs.

## 1. The system

A Go server turns a topic into an outline and an outline into SVG slides, with
calls to LLM providers. Users have a daily quota of slides. Generation runs in
the request (the older API) or as an asynchronous job that the browser polls. All
data is in a store: a JSON file held in memory and rewritten after each change,
or an SQL database.

| component | state | operations | what is hard | what makes it correct |
|---|---|---|---|---|
| job manager, `internal/jobs/manager.go` | the records in the store; the cache `jobs` / `payloads`; the channel `queue` (256) | enqueue, worker/execute, recoverOpenJobs, reaper, Get, Payload, three patches | none of the read-modify-writes of the store holds a lock; recovery runs at the start, on every job request and every 2 minutes, beside the workers; crashes | no accepted job is forgotten, loses its parameters or waits for ever; the store agrees with what clients were told |
| slide pool, `internal/service/generation/service.go`, sized by `internal/domain/concurrency.go` | two unbuffered channels, the result slice, a count of failures | dispatch, generate, collect, close | cancellation at any point, the order in which channels are closed | each slide once; none lost; the call returns; failures show |
| daily quota, `internal/store/{rules,json_store,sql_methods}.go`, used by `internal/httpapi/{handlers,job_handlers}.go` | a row per user and day: slides used, slides reserved | reserve, commit, release | a reservation outlives its request inside a job's payload; commit and release can both happen; the request's context; crashes | charged slides stay within the limit; every reservation is settled, once |
| job results, `PatchSVGSlide(s)` of `manager.go`, `runSVGJob`, `syncParentSVGJob` | `ResultJSON` of a record and of the cached job | merge one slide, replace all slides | the job, its children and single requests read, merge and write back without a lock | nobody changes slides it was not asked for; the cache follows the store; status and charge fit the slides |
| accounts, groups, sessions, `internal/httpapi/{auth_handlers,admin_users,admin_settings_handlers,middleware}.go` over both stores | users, groups, sessions, system settings | set-up, register, login, authenticate, create, update, delete | check-then-act across handlers and, with SQL, across statements | an administrator remains; groups and users that are named exist |
| store life cycle, `internal/httpapi/store_manager.go`, `internal/store/{migration,config}.go` | the active store, the config file | configure, switch (export, import, save, replace), start | requests that hold the old store; two objects on one file; crashes between steps | what was acknowledged is answered, now and after a restart |
| SQL migrations, `internal/store/{sql_store,migrations}.go` | schema, `schema_version`, default rows | migrate at every opening | statements without a transaction, two openings at a time, crashes | a store that is ready is complete; starts end |
| agent workflow, `internal/agent/workflow.go`, `internal/service/agent/runner.go`, set by `internal/httpapi/admin_{prompts,agent,providers}.go` | one row of prompts, roles and workflow; providers | normalise, run; save one part of the row | conditions, failing steps, read-modify-write of the row | runs fail only for a reason; what was found is used; the workflow survives other saves |
| LLM clients, prompts and parsing, SVG repair, PPTX export, uploads, server wiring | none, or single records | | text and I/O | left to unit tests |

How they meet: `handleCreateSVGJob` reserves slides and enqueues a job whose
payload carries the reservation; a worker of the manager runs `runSVGJob`, which
uses the slide pool, commits or releases the reservation, and (for a child job)
patches its parent's result through the manager; the manager then saves the
finished record. Manager and quota share the store, and both change when a
process restarts. A switch of the store replaces it under all of them; accounts, settings and
workflow are rows of it that administrators change while requests and jobs read them.

The hazards, each at its line, with the properties that would catch it, are in
`PROJECT.json`.

## 2. The modules

### JobManager (`MCJobManager`, `JobManagerProofs`)

The manager of `manager.go`. One action is the code between two points where
another goroutine can get in, that is one call of the store or one critical
section of `Manager.mu`; so `enqueue` is three actions on its straight path and
`execute` six, and Get and Payload read the cache under the lock, the store after it, and fill
the cache in a third. A record is abstracted to its status and to whether it has its
payload, a cached job to its status.

| variable | code |
|---|---|
| `store`, `disk` | the `generation_jobs` records the store answers with, and those a restart finds. They differ after a failed save of the JSON store, which has replaced the record in memory (`json_store.go:767-779`); the next save that succeeds writes everything |
| `mem`, `payloads`, `queue` | `Manager.jobs`, the keys of `Manager.payloads`, `Manager.queue` |
| `enq[j]` | how far the one `enqueue` of job j is |
| `wk[w]`, `rc[r]`, `cl[c]` | the locals of each worker, of each goroutine in `recoverOpenJobs`, and of each that serves a Get or a patch (`runSVGJob`'s patch of a parent included) |
| `published` | has `NewManager` returned, so that `Server.jobs` is set |
| `stray`, `expired` | history: ids whose recovery found the queue full or which a Get cached while open; ids the reaper deleted |

`SaveOutcomes` says what a save may do: `ok`, `lost` (SQL: an error, the old record
stays), `applied` (JSON: an error, but the memory has changed). `Crash` empties
everything but `disk`. `WorkerPanic` is the nil dereference of `Server.jobs` in a
runner that is faster than `NewManager`; `RunnerNeedsServer = FALSE` models a
runner without it. The three patches are one operation, because they differ only in
the result they write, which is SVGResult's.

Abstractions: ids are fresh, so a job is enqueued once; clocks are not modelled, so
the reaper may find any running job too old and any finished one expired
(`MayStall`, `MayExpire`); a tick of the reaper may be interleaved with other
goroutines between two jobs, which allows more than the code does; the store
object `SetStore` passes is the same one; reads of the store do not fail (a
failed read makes `Get`, a patch and recovery return without a change; in
`loadForExecute` it drops the id).

### SlideMap, SlidePool (`SlidePoolProofs`)

`SlidePool` is `GenerateSlideSVGs`: producer, workers, closer, collector, context. A
send and the receive it meets on an unbuffered channel are one action. The number
of workers is computed by `ResolveSlideConcurrency`, translated from
`internal/domain/concurrency.go`. `SlideMap` is what callers are promised, without
goroutines: slides are attempted in any order, each at most once, and the call
returns when all were attempted or the context is cancelled, with an error when
every slide failed. `Map == INSTANCE SlideMap` maps the variables of the same names.
The guard of each goroutine's step has a name (`Can...`), with which its action starts.

### QuotaLedger (`MCQuotaLedger`, `QuotaLedgerProofs`)

The usage row of one user on one day, and everybody who reserves, commits or
releases slides on it: synchronous requests (`handleGenerateSVG`,
`handleGenerateOneSVG`), job requests (`handleCreateSVGJob`) and the executions of
jobs (`runSVGJob`). The manager is abstracted to what it does to the ledger: an
open record may be executed, by several workers in turn or, with `Reopens`, at
once, and `Reopens` lets a finished record become open again, which JobManager's
recovery and reaper do.

`data` is what the store answers from and `disk` what a restart finds. A write has
an outcome: `ok`; `lost` (SQL: rolled back, or the context is done); `unanswered`
(SQL: the row changed, the answer did not arrive); `unsaved` (JSON: memory changed,
the file not). `rq` and `run` are the locals of requests and executions, `gone` the
requests whose client disconnected. `owing` and `extra`, in the row, are history:
the requests whose reservation is in the row, and the slides of reservations that
were committed or released when they were not in it any more. `highest` is the
highest limit there was, `abandoned` the requests that died or lost their client.

Abstractions: an administrator's change of a limit is `SetLimit` whether it is the
user's or the group's; the number of slides made is any number up to those
reserved, including none for a synchronous request; an outline has no slide id
twice. `RunWork` has three ways on: to the commit, to the release, and, when a SQL read of the
payload fails, to the end without either, because `runSVGJob` installs its deferred release only
after it has the payload (`job_handlers.go:288-295`; the payload is in the cache unless another
execution of the job has finished).

### SVGResult (`MCSVGResult`, `SVGResultProofs`)

The record of one SVG job, with the slides of its result, and everybody who writes it. `Runs`
are the executions of the job by workers: the first, and those to which recovery or the reaper lead.
`Others` are whoever else writes it; each is, by its first step, a child job that makes some
slides again and replaces the parent's slides by its own (`syncParentSVGJob`), a request for one
slide (`handleGenerateOneSVG` with `PatchSVGSlide`), or a goroutine in `recoverOpenJobs`, which lists
the record, saves it as queued, skips or fills the cache, and sends. All of them read,
work, save and cache in actions of their own; the reaper, which requeues a stalled job under
`Manager.mu`, is one action (`ReapStalled`). An SVG is who made it. `mergeExistingSlides`,
`upsertSlide`, `countSlideResultsByIDs`, the judgement of a patched result and the merge of a
patch are functions translated from the code.

| variable | code |
|---|---|
| `record`, `cached` | status and `ResultJSON` in the store, and in `Manager.jobs` |
| `work[w]` | the locals of a writer: what it was asked for, the slides sent along, made and charged, the record it has read |
| `sent` | how often the job's id is in the queue |
| `apart` | history: since the last save that nobody crossed, two writers were between save and cache at a time, or a save failed (a worker or recovery caches what it did not save; a JSON store keeps in memory what it reports as failed) |

It starts with the job saved, cached and queued; how an enqueue gets there is JobManager's.

### Accounts (`MCAccounts`, `AccountsProofs`)

The handlers of accounts, groups and settings over the two kinds of store. A method of
the JSON store is one action; a method of the SQL store is one action for each
statement; a handler that calls the store several times is several actions on both.
`req[r]` is where a request is and what it holds. `raced` is history: the kinds of
requests that have overlapped (two of administrators, two set-ups, a deletion with
anything else). The properties say that without the overlap nothing goes wrong, and
which store needs which exception.

### StoreLifecycle (`MCStoreLifecycle`, `StoreLifecycleProofs`)

`StoreManager` and the start of the server. A store is opened as an object (`objs`): a
JSON object has its data in memory and writes all of them, an SQL one works on the
database; `disk` is what the files and databases have. Data are versions by kind; a
switch exports kind after kind, imports them by the rules of `ImportSnapshot` (create
what is not there, or save over what is), saves the config file and replaces the
store, all under the manager's lock, while requests that got the store before
(`held`) still write to it. `latest` is what was last acknowledged, `excused` the kinds of which a
write was lost for one of the causes that `NothingElseLost` names. An import is what the store imported into makes of it:
a SQL store reports success for fields it never writes, the default concurrency limit of
the settings and `SupportsTools` and `Proxy` of the roles (`Unstored`, which are kinds of their own
here).

### SchemaMigration (`MCSchemaMigration`, `SchemaMigrationProofs`)

`migrate` over the list `sqlMigrations`, which is translated statement by statement, and
`ensureDefaults`. One action is one statement; it can fail with or without its effect,
the process can die between any two, and several openings (servers, tests of a
configuration, candidates of a switch) work on one database. Meanwhile administrators of a server that
is ready make another group the default, move and rename users, and delete the built-in group
when it is neither the default nor anybody's; a later start makes it anew. It starts from an empty
database, from one of any version, or from a first-version database without
`schema_version` that may lack columns.

### AgentWorkflow (`MCAgentWorkflow`, `AgentWorkflowProofs`)

Administrators save roles, prompts or the workflow, each by reading the row, changing
its part and writing all of it back (in an SQL store with two statements), and change
providers; a run of the agent reads the row once, normalises the workflow and goes
through its steps, looking up each step's provider at that moment; a run that cannot read the
row ends there (`SettingsUnread`). A text is the set of
sources it is about. `excused` is history: a save wrote a workflow that it had failed
to read, or read before another save. The workflows that may be sent are any set of
sequences of steps (`WorkflowsAssumption`). The loop of `NormalizeWorkflow` is the recursive
function `Keep`, about which one can prove something.

## 3. The runs

| run | instance | what it shows |
|---|---|---|
| `jobs_crash` (JobManagerCrash) | 2 jobs, 1 worker, 1 recoverer, queue of 1, list limit 1, failing JSON saves, 1 crash | `PayloadKept`, `NoJobStranded`, `KnownJobsPersisted` |
| `jobs_race` (JobManagerRace) | 1 job, 2 workers, the boot recoverer, 1 client, reaper, failing SQL saves | `PayloadKept`, `NoJobStranded` |
| `jobs_live` (JobManagerLive) | 2 jobs, 1 worker, queue of 3, 1 crash, fairness | `PollingEnds`, `OpenJobsResume` |
| `jobs_boot` (JobManagerBoot) | as `jobs_live`, 1 job, with the real runner | violates `OpenJobsResume` |
| `quota` (QuotaLedger) | 1 synchronous request of 2 slides, 1 job of 1, limits 2 and 3, 2 runners, 2 executions, both stores, failures, 1 crash | `LedgerOK`, `NothingPhantom` |
| `quota_live` (QuotaLedgerLive) | the same with 1 runner and without failures, fairness | `JobsSettle`, `RequestsSettle` |
| `slidepool` (SlidePool) | 4 slides, 3 workers, cancellation at any time, fairness | `OneAttempt`, `NoneLost`, `FailedIsCounted`, `ImplementsMap` |
| `svgresult` (SVGResult) | an outline of 2 slides and one with an id twice, 2 executions, 2 others (child, request for a slide or recovery), of these four any three at work, the reaper | `OthersKept`, `CacheFollowsStore`, `SucceededShows`, `ChargedAsReserved` |
| `accounts` (Accounts) | 2 users, 2 groups, 2 requests at a time, any number in turn, both stores | `AdminRemains`, `SetupOnlyWhenEmpty`, `GroupsResolve`, `SessionsHaveUsers`, `RegistrationAsSaved` |
| `storelifecycle` (StoreLifecycle) | 1 file, 1 database, 1 request, 2 administrators, 3 objects, 2 writes, 1 crash | `NothingElseLost`, `RestartFindsStore`, `OneInitial` |
| `migration` (SchemaMigration) | 2 openings, 1 older user, 2 failures or deaths, fairness | `VersionHonest`, `ReadyIsComplete`, `GroupsThere`, `StartsEnd` |
| `agent` (AgentWorkflow) | 2 administrators, 3 requests, 1 provider, 3 workflows beside the default, 1 run, both stores | `FailuresExplained`, `NotesReachOutline`, `WorkflowPreserved` |

`jobs_crash`, `quota`, `slidepool`, `svgresult`, `accounts` and `storelifecycle` also
check their module's `TypeOK`. The quota, `svgresult`, `storelifecycle` and `agent` runs
switch the deadlock check off: requests, executions, writes or objects are bounded, and
when they are used up nothing is left to do. In the others the model never stops
(recovery, requests and starts go on; `SlidePool` has the explicit step `Finished`), so
that TLC's deadlock check looks for everyone waiting on each other.

Why these bounds are enough. The manager treats jobs independently except for
the queue's capacity and the list limit, and both bite with two jobs: a queue of 1 is
full when the second job comes, a list limit of 1 hides the second record. The
races on one job need two parties that write (two workers, or a worker and a
recovery or a patch), which `jobs_race` has. A crash is followed by a complete
recovery; a second one adds only a restart from a state of the same kind, and the
theorems hold for any number. In the ledger the smallest conflict is two
reservations of which one fits, one reservation settled twice at the expense of
another, and one execution repeated. Four slides on three workers give a worker a
second slide while others are busy.

In a result the smallest conflict is one slide somebody was asked for and one he was
not, with two writers that cross and a third that looks: the constraint `ThreeWriters` lets any
three of two executions and two others get to work, so that each pair of kinds meets (two
patches, a child and a patch, a recovery and an execution) and a recovered job is executed a
second time beside the first. (All four together, 45 million states, were checked once and
take a quarter of an hour.) Accounts need two users (the last administrator and another), two groups (the
built-in one and one that can go) and two requests, because every exception is an
overlap of two; when a deletion and administrators have both overlapped on an SQL
store, nothing is promised any more, and the constraint `Telling` stops there. A
switch needs two places of different kinds; three objects are the first store, a
candidate, and one that is on the first's file again; two administrators race to
configure or switch. Its kinds of data are one for each way of import (`users` created
when absent, `settings` saved over, `usages` saved over when present), one a SQL store never
writes (`concurrency`), and one that is not carried (`jobs`); two writes in all (constraint `FewWrites`) make one that is
carried and one that is late. Two openings
and two failures let one die, the other overtake it, and fail as well.
Workflows have an outline step that is disabled, one that is conditional, none, steps
of unknown kinds, and a search behind the summary.

### Fairness

`JobManager!FairSpec`: a goroutine that can run does (weak fairness of an enqueue
that is past its persist, of each worker and each recoverer). A run ends because every
LLM call has a ten-minute timeout (`internal/llm/client.go:18`); recovery starts
again because of the reaper's ticker. There is none for clients, for the reaper's
finding a job too old, for new enqueues or for crashes. `QuotaLedger!FairSpec`:
handlers and executions under way go on; nothing for the start of an execution (that an open
record is executed is `OpenJobsResume`, which does not hold of the real runner), for clients,
administrators, reopening or crashes. So `JobsSettle` is about executions that have started, and
`RequestsSettle` ends where a job's reservation is handed over to its open record. `SlidePool!FairSpec`: workers, producer, closer and caller go on;
nothing for the context. `SchemaMigration!FairSpec`: an opening under way executes its
next statement, and whoever starts the server starts it again after it died or was
refused; nothing for failures, deaths or administrators. The other modules state
safety only.

## 4. Statements that do not hold

`jobs_boot` shows that one statement of the repository does not hold of the code, and
`PROJECT.json` quotes it. `NewManager` starts the workers and recovers open jobs
before it returns, and `Server.jobs` is set when it has returned. A recovered job whose
runner gets to `s.jobs.Payload` first dereferences nil, and the panic in a worker
goroutine ends the process; the same can happen at every start.

These also fail. The properties are defined at the end of their modules, and a cfg with
the instance named gives the trace; the passing properties are stated around them.

| property | instance | what happens |
|---|---|---|
| `JobManager!LeftJobsProcessed` (`manager.go:379`) | as `jobs_live` with `QueueCap = 1` | a recovered job that does not fit in the queue is cached as queued all the same, and later recoveries skip what is cached as queued: it is stuck until the next restart. 256 places and up to 500 recovered records make this a matter of load. `NoJobStranded` excepts such ids (`stray`) |
| `JobManager!FinishedIsPersisted` (`manager_test.go:49`) | 1 job, 1 worker, no failure | recovery writes back the record it listed; when the worker has finished the job in between, the store says queued while clients are told succeeded, until recovery has cached what it wrote; `CacheFollowsStore` speaks of the time when nobody is between a save and its cache |
| `QuotaLedger!DailyLimitHolds` (`rules.go:20`) | 1 job of 1 slide, limit 1, 1 crash | the commit and the save of the finished record are two writes; after a crash in between the job is executed and charged again. `LedgerOK` has the term `extra` |
| `QuotaLedger!EndedHoldNothing` (`handlers.go:206`) | 1 synchronous request, SQL | a client that disconnects cancels `r.Context()` and with it the deferred release; the slides stay reserved for the day. `RequestsSettle` excepts `abandoned` requests |
| `SlidePool!FailuresRepresented` (`service.go:184`) | 2 slides, 1 worker | a cancelled call can return nil with slides that have neither SVG nor error |
| `Accounts!LastAdminKept` (`admin_users.go:194`) | as `accounts`, with two administrators who delete or demote each other | the count is taken before the deletion, and a demotion takes none |

Further, what the history variables of the new modules stand for, and what was seen
while writing them:

- A switch to a store that was used before keeps its old users, groups and providers
  (`migration.go:42-71` creates only what is not there); sessions, uploads and jobs
  are not carried at all. A candidate on the file of the store in use is a second
  object, and each overwrites the other's changes. A switch to a SQL store resets the default
  concurrency limit, and the roles' `SupportsTools` and `Proxy`, which it has no statement for
  (`sql_methods.go:352-377`, `252-338`); so does, on a SQL store, every change of them. A start with the `-store` flags
  ignores the config file.
- `ensureJobs` is to "keep store pointer fresh for storage switches"
  (`job_handlers.go:55`), but reads the store in use and sets the manager's in two steps: a
  request that has read before a switch and sets after it puts the manager back on the
  old store until the next job request. And a store that is switched back to may have a
  job open that has ended while another was in use: the next recovery queues it again,
  and it is executed and charged once more. Both follow from reading; no module has the
  manager and several stores.
- A first-version database whose `users` table lacks `group_id` is refused for ever:
  the first version's index on that column comes before the second version's
  `ADD COLUMN` (`migrations.go:12` wants such databases upgraded). `StartsEnd` excepts
  it (`Groupless`).
- A slower opening may put `schema_version` back; the steps are then repeated, which is
  harmless (`VersionHonest`). `ensureDefaults` lists users without a name and then names
  them, and can overwrite a name given in between. It brings back the built-in group an
  administrator has deleted (`sql_store.go:115`), at every start.
- `handleAdminPrompts` drops the error of the read that is to preserve the workflow
  (`admin_prompts.go:46`), so that a failed read erases it. Nothing looks whether a
  provider that is deleted is still named.
- `joinNotes` drops the user's own notes when there are others and the summary
  failed. An outline step whose condition is not met makes the run fail, although
  `NormalizeWorkflow` makes sure there is one (`workflow.go:125`).
- An outline with an id twice can be charged more slides than were reserved.
- A job whose payload cannot be read any more ends without releasing its reservation
  (`job_handlers.go:288-295`): the slides stay reserved for the day.

Several passing properties except an overlap that does go wrong in the code, and then say only that
nothing else does: `NoJobStranded` stray ids; `AdminRemains`, `SetupOnlyWhenEmpty`, `SessionsHaveUsers` and,
on SQL, `GroupsResolve` and `RegistrationAsSaved` the overlaps in `raced`; `NothingElseLost` the causes in `excused`;
`WorkflowPreserved` an old or failed read; `RequestsSettle` and `JobsSettle` `abandoned` requests. In
`PROJECT.json` such a hazard has a note in the place of a property.

## 5. The proofs

All theorems hold for any number of jobs, workers, requests, slides, users and stores, any
capacity and any limits, under the named assumption of each module
(`JobManagerAssumption`, `SlidePoolAssumption`, ...), which only give the constants their
types and say that some sets are finite or disjoint; `SchemaMigration` also has
`LacksAssumption`, on the older databases it starts from, and `AgentWorkflow` has
`WorkflowsAssumption`. Hypotheses on constants beyond these are written in the theorem: some
hold only when the store does not fail (`~Failures`), or for databases that are not
`Groupless`, and say so.

*JobManagerProofs.* `TypeCorrect`: `TypeOK` is inductive as it stands; there is one
lemma per kind of goroutine, and `SendFacts` and `TakeFacts` say what a non-blocking
send and a receive do to the queue. `PayloadIsKept`: `PayloadKept` is not inductive,
because a goroutine writes back what it read some steps ago. `LocalStates`
strengthens it with what every goroutine carries: a worker past its load, a
recoverer's snapshot and a client's record have the payload; a worker that will
finish a job carries a finished status (else the cache would call open a job whose
payload it drops).

`KnownArePersisted`: `KnownJobsPersisted` is not inductive,
because a reference travels from an enqueue to the cache, the queue, a worker and
the snapshots of recoverers and clients. `ReferredArePersisted` says of all of them
that they refer to a stored record; `ReferencesKept` reduces a step to what it makes
refer to something new, and only the reaper deletes a record. `NoneIsStranded`:
`NoJobStranded` is strengthened by `RunningIsExecuted`, because the reaper puts a
running job back as queued even when the queue is full, which strands nothing only
as long as a worker is executing it; `PayloadKept` excludes the exits of
`loadForExecute` that would drop an open job.

*SlidePoolProofs.* `ClampBounds` bounds the size of the pool for every limit, which
gives `SomeWorker`, without which an empty pool would satisfy everything. `PoolInv`
adds to the checked invariants `ShutdownInOrder`: channels are closed from the
producer to the caller. `FailedIsCounted` needs the cardinality of the failed slides
after a write (`CountFailures`). `PoolImplementsMap`: `Collect`, `Cancel` and
`Return` map to the steps of `SlideMap`, everything else to a stutter; the step
for `Return` uses the invariant to show that all slides were attempted and that
both modules return the same.

`ErrorsAreExplained` and `CompleteWithoutCancellation` are the positive side of
`FailuresRepresented` in section 4: there is an error just when every slide failed, and a
call that nobody cancelled has an outcome for each. Why the call returns: `PoolNeverStuck`
(in every state before the return some `Can...` holds; by cases on how far the shutdown has
got) and `PoolStepsAreBounded` (each step of a goroutine decreases `StepsLeft`, at
most three for each slide, one for each worker and three more). Only the last inference, from
these two and fairness to the return, is TLC's.

*QuotaLedgerProofs.* `GuardsAgree`: the two stores' guards are equivalent.
`LedgerInv` is `TypeOK` with `LimitsSeen` and `FreshOweNothing` and, of both rows,
`Balanced`, the conjunction of the three balances of `LedgerOK` and `NothingPhantom`.
The three belong together: the bound on charges is kept by a reservation only
because what is owed is reserved or in `extra`, and taking a reservation off
(never below zero) keeps that only because nothing more than what is owed is
reserved. Each operation of the row has a lemma on its balances; a write then keeps
the invariant whatever its outcome, since the new `data` and `disk` are old or new
rows that are balanced. `LimitHoldsUnlessSettledTwice` follows: while `extra` is 0, the
daily limit holds.

`EverySettlementIsTheOnly` says when `extra` stays 0: as long as the ledger is `Undisturbed`
(no failure, no full queue, no reopened record, no crash) and `Calm` (with SQL, no client has
left), a reservation is in the row exactly until it is committed or released
(`Unsettled`). `SettledOnce` is the invariant: where each request and execution stands tells
whether its reservation is in the row and whether its job is open, and a job has at most one
execution (`JobInOrder`, `RunInOrder`). With the theorem before it,
`UndisturbedLedgerHolds`: the positive side of `DailyLimitHolds` and `EndedHoldNothing` in
section 4. Each of the conditions excludes something that does break it: a death between commit
and save, a client that leaves between the commit and the read after it, a full queue that
refuses a job which recovery has queued, a record that becomes open again, a failed write.

`OwedReservationsArePursued` and `OwedJobsStayOpen` are the safety core of `RequestsSettle` and
`JobsSettle`, and assume only that the store does not fail: a reservation in the row is in the hands
of its request or of an open job, or the request was abandoned; and no step closes the record
of a job whose request is over while its reservation is in the row. `Pursuit` adds that an execution beyond its commit or
release leaves nothing owed, also when another execution of the same job settled before it.

*SVGResultProofs.* The invariant adds `Fits`, what each writer has in its locals (a run
that ended well has made a slide, what a child hands to its parent is not empty, what is
charged was counted among what was asked for), and `Synced`: while `apart` is false at most
one writer is between save and cache, with the record it saved, and when there is none, a cache that
calls the job finished has the record of the store. It is inductive because who saves alone is
the only one that will cache, because recovery skips its cache only when the job is open there,
and because the reaper leaves it open. `CountBound` bounds what
`countSlideResultsByIDs` counts by an injection into the targets; `DeckType` and `PlaceOf`
say what the merging functions return. A step is reduced to one of four forms
(`QuietStep`, `SaveStep`, `CacheStep`, `RefusedStep`), but for `SkipStep` and the reaper's.
`OthersKept` rests on a second invariant, `AllTidy`: in
an outline without an id twice every result has each slide at most once (`Neat`), and what
a writer has made differs from what it has seen only in what it was asked for (`Tidy`).
`DeckOthers` and `PatchedOthers` say so of the merging functions, `NextTidy` of every step but the
reaper's, which saves what the cache has.

*AccountsProofs.* All six properties. `Fit` says what a request that has looked relies on at each
place of a handler (its asker is an administrator, the group it found exists), and
`Alone` that while `raced` names no overlap there is none; together they make what was found
true at the moment of the write. `IInv` is these with `TypeOK`, `AdminLeft`,
`GroupsResolve` and `SessionsHaveUsers`; the two action properties follow from it.

*StoreLifecycleProofs.* `OneLocker`: one manager is between its check and its end.
`Candidates`: what each manager has opened, and that a first configuration goes on only
while there is no store. `RestartFindsStore` and `OneInitial` follow. `NothingElseLost`
needs a second invariant, `Safe`: what was never written is nowhere (`ZeroData`); the store
in use has the last version of what is not excused in its memory and in its file
(`CurrentHas`); and what a switch has exported and imported so far of it is the last version
(`Carries`), so that the candidate has it when it is put in place, or when the next start
opens the config file (`CandidateHas`). `WrittenFacts` says what a write leaves alone in
other objects and, without a twin, in its own file.

*SchemaMigrationProofs.* `TablesWhole`: a table that is there has what its statement
creates, but for columns that a later step adds (`CREATE TABLE IF NOT EXISTS` does nothing
to an older table). `Migrated` and `Filled` say what an opening has done at each of its places;
a slower opening can put `schema_version` back, but the schema only grows (`Grows`), and of the
rows stays what an opening relies on (`Gains`), whatever other openings and administrators do. `PromisedStep` carries
`VersionHonest` over a step of migrations whose statements all had their effect;
`ReadyIsComplete` is the promise of the last version, which no later step adds to. Of the
concrete list the proof uses what `Put` says of it; that an older database lacks only what
later steps add is `LacksAssumption`. `GroupsThere` stands although a start sees to the
group, the settings and the members in three statements and an administrator may delete the group between
them: a deletion needs a server that is ready, and what the start of that server has filled in no other
start will put into the built-in group again (`Provided`).

The safety core of `StartsEnd` is that no start meets a database it has to refuse.
`AllSupported` says of the list that every column and index has what it needs created by then,
in its own or an earlier step; `NoneRefusable`, that whatever the openings have done to
the database, the database's own answer to the next statement of each is success or an error
that `migrate` tolerates; `RefusalsAreFailures`, that an opening is refused only in a step
in which a statement failed for another reason or the process died.
All three are for databases that are not `Groupless`, and `GrouplessNeverReady` shows
that this is needed: such a database stays at version 0 and no opening is ever ready.

*AgentWorkflowProofs.* `RequestsOK`: what a request would write back as the workflow is the
stored one, or it is marked as old. `RunOK`: when there is a summary, a step that
summarises lies behind the run, so that in a workflow that summarises last nothing is
seen or found any more. Neither needs to know what `NormalizeWorkflow` returns.

`FailuresExplained` does. `KeptIsFiltered` and `KeptAll` say what the loop keeps, by
induction over the positions of the workflow; the induction is the well-founded order of the
naturals used in set form (`Induction`), because the library's theorem takes an operator.
`NormalizeKeepsSteps` and `NormalizeIsIdempotent` follow, and that the result is in
`NormalForm`: steps that have a kind, with an enabled outline step among them. The second
invariant, `Safe`, says that what is stored is empty or in that form, and that a run has
behind it no step that ends it for certain (`FailuresCorrect`); and that a run executes
the stored steps (`RunsWhatIsStored`), although `ParseWorkflowJSON` and the runner both
normalise them again.

Model-checked only: liveness (`PollingEnds`, `OpenJobsResume`, `JobsSettle`,
`RequestsSettle`, `StartsEnd`, the return of the call that `ImplementsMap` includes), which
is out of TLAPS's reach; of the pool, the ledger and the migrations the safety facts that it
rests on are proved. All safety and action properties of the passing runs are proved.

## 6. What is left

Not modelled, and why. The LLM clients (four wire formats over HTTP), prompts, parsing of
outlines and repair of SVG, the PPTX export: text in, text out, without state; to the
models an LLM call is an outcome within its timeout. Uploads: one record per file, written
and deleted once. Routing, middleware but authentication, logging, web assets: wiring. The
unlocked reads of `Manager.store` beside `SetStore` and the unlocked clone in `Get` are data
races below the level of store calls: to the models a read of either is one step.
(`ensureJobs` tests and sets `Server.jobs` without a lock too, but `NewWithStoreManager`
has called it before there is a request.) A record that a late writer brings
back after the reaper deleted it: nothing promises otherwise.

Worth doing next: the manager across switches of the store, with `ensureJobs` in its two
steps, several stores with records of jobs, and a switch back (what is to be shown: a
request that no switch overlaps creates its job in the store in use, a job under way
comes to its end, and the manager ends up with the store in use as long as requests
come); and several users and days in `QuotaLedger`, which would bring the import of
usages into it.
