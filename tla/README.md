# Verification of metiqo

metiqo collects bookmaker odds and match results of League of Legends, links
them, settles selections and shows them in a browser application.  Four kinds
of process share one PostgreSQL database and nothing else: the workers
(`metiquo-worker serve`), the API (FastAPI), command-line collections, and the
migrations that run before them.  The correctness of the whole rests on what
those processes do to common rows, under advisory locks and row locks.  This
directory holds TLA+ models of that behaviour, the TLC configurations that
check them and TLAPS proofs.

Paths below are relative to the repository's root.

## How to run

    tlasany MCScriptQueue.tla
    tlc -workers 2 -config oracle_queue.cfg MCScriptQueue.tla
    tlapm ScriptQueueProofs.tla

`PROJECT.json` lists every run with its module and configuration, the lines of
code each definition models ("map"), the hazards, and for every property a
mutated definition under which TLC refutes it ("mutants").  The mutated forms
stand in the modules just above the definition they replace and are used by
nothing else.

## Inventory

| Component | State | Operations | Hard behaviour |
|---|---|---|---|
| Script queue and scheduler (`scheduler.py`, `jobs.py`, `scheduling.py`) | `script_schedules`, `script_runs`, `worker_status`; session advisory locks; per worker: list of runs of the tick, run under execution, stopping event | tick (recover, coalesce, list, dispatch), conclusion by outcome, heartbeat, stop, `serve_schedules` | crash between two transactions, two workers at a redeployment, loss of the lock's connection, stale list, deferral, coalescing of missed instants |
| Administration API (`admin.py`) | the same tables, `app_users`, `auth_sessions`, audit rows | edit a schedule with its revision, request a run, edit or revoke a user | administrators overtaking each other or a login; forms opened before somebody else's change |
| Authentication API (`auth.py`, `mail.py`) | `app_users`, `auth_challenges`, `auth_sessions`, `auth_rate_limits` | request a code, verify it, current session, logout, limits | one code tried by several requests, SMTP inside the transaction, suspension during a login |
| Source policies (`stake_policy.py`, `loltv_policy.py`) | durable budgets, spacing, blocks and refusal streaks | take a request, flush, refuse, clear | budget shared by threads; block overwritten by a late healthy page; counts lost by a crash |
| Stake collection (`stake_sync.py`, `stake_storage.py`) | collector state, events, selections, odds snapshots | cycle, retry of a page, idempotent publication | partial failure recorded as a success, deferral swallowed |
| LoLTV collection and publication (`loltv_sync.py`, `loltv_clock.py`, `loltv_publication.py`) | checkpoint, next live deadline, readings, matches, snapshots | cycle, checkpoint, live deadlines, publication | checkpoint and readings saved at different times; kill between the two |
| Oracle's Elixir ingestion and projection (`ingestion.py`, `oracle_match_sync.py`) | import runs, versions of yearly files, active version, projected rows | download, validate, activate, project | years selected by one import active together; failure after activation |
| LoL catalog (`catalog_sync.py`, `core/catalog.py`) | versioned catalog, logos | collect, coverage guard, activate | read before the network, used after it, while two other writers change it |
| Identity reconciliation (`reconciliation.py`, `fixture_identity.py`, `matching.py`) | links event–match, aliases, conflicts | link, confirm, revoke, import aliases | order of links, conflicts and revocations |
| Selection settlement (`selection_results.py`) | decisions of selections, observations | decide, correct, take back | corrections and disagreement of two sources, window counted from a moving date |
| API read models (`main.py`, `match_odds.py`, `core/odds.py`) | none | queries | choice of the odds displayed |
| Operational journal (`worker_logs.py`) | log rows | emit, prune | never raises, nobody reads it back |
| Browsers, probes, audits | none durable | page scripts | input and output only |
| Web frontend (`apps/web/src`) | polled data, session, visible page | poll, retry, visible update | answers of overlapping polls out of order |

Interactions: the scheduler calls a collector as a function and sees of it only
how it ends; a collector takes the lock of its source, which a command-line
collection takes too; the LoLTV collector leaves a deadline that the scheduler
reads at its next tick; the API writes the schedule rows the scheduler reads,
inserts runs it executes, and reads its heartbeats; logins read the accounts
administrators edit; publications of both bookmakers feed reconciliation, then
settlement.

What makes each correct, in short: a run is executed by one worker, ends once
and is not forgotten; an edit loses no change; one code opens one session of an
account that may have one; a budget is never exceeded; a crash neither loses
nor repeats a publication; the years of one import become active together; a link or a decision
is what the latest observations say.

## Modules

| Module | What it is |
|---|---|
| `ScriptQueue` | the queue of one source group: scheduler threads, locks, failures, administration of schedules |
| `JobLedger` | what the queue promises to a reader of `script_runs`: abstract, no workers, locks or dates |
| `ScriptQueueLedger` | the refinement mapping from `ScriptQueue` to `JobLedger` |
| `Accounts` | accounts, login codes, sessions and user administration |
| `SerialAccounts` | what the same requests do to the tables when each is served alone: abstract, no locks or transactions |
| `RequestLimits` | the request limits of the authentication API and the pruning of their buckets |
| `SerialLimits` | what the limits promise to a reader of the buckets: abstract, no statements, locks or order of the buckets |
| `LoltvPolicy` | the row the LoLTV cycle and the logo threads share: budgets, spacing, pause |
| `StakeCycle` | the cycles of the Stake collector, with its policy, its browser's decisions and its publication |
| `LoltvCollection` | the cycles of the LoLTV collector and the checkpoint from which they go on |
| `FixtureIdentity` | which match a fixture of the bookmaker is: the rules of `fixture_identity.py`, as operators |
| `Reconciliation` | the transactions that link events to matches and take links back; extends `FixtureIdentity` |
| `Settlement` | the results of the selections; extends `Reconciliation` |
| `MatchRecords` | teams, competitions and matches that LoLTV, Riot's catalog and the import command write |
| `OracleData` | the import of Oracle's Elixir and its projection on the matches; extends `MatchRecords` |
| `MCScriptQueue`, `MCAccounts`, `MCRequestLimits`, `MCSettlement`, `MCRecords` | symmetry sets and constants for TLC |
| `ScriptQueueProofs`, `AccountsProofs`, `RequestLimitsProofs`, `LoltvPolicyProofs`, `StakeCycleProofs`, `LoltvCollectionProofs`, `SettlementProofs`, `OracleDataProofs` | the theorems about each of them, with those about the modules they extend |

### ScriptQueue

A *source group* is the set of scripts that share a scheduler lock
(`SOURCE_SCHEDULER_LOCKS`).  The five groups have no row of these tables in
common, so one instance of the module is one group, and the runs instantiate it
as the groups of Oracle's Elixir (two scripts), Stake (deferrals), LoLTV (live
deadlines, blocks) and the catalog.

A worker is one process seen through its thread for that source; `pc` says
where the thread stands:

| `pc` | in the code |
|---|---|
| `down` | no process |
| `idle` | between two iterations of `source_loop` |
| `locked` | `_tick_source` holds the scheduler lock and has read `now` |
| `dispatch` | after the first transaction, or between two runs of its list |
| `started` | the run is marked running, the collector is called |
| `collecting` | the collector holds its source lock |
| `concluding` | the collector has returned or raised |

Every transaction is one action.  `Sweep` is the first one whole: orphans are
interrupted, each due schedule is coalesced into at most one run, its next date
computed from the tick's `now`, and the runs to dispatch are listed.  What the
code keeps in local variables and uses in a later transaction is state (`ids`,
`cur`, `tickNow`, `outcome`, `form`), because its staleness is the hazard.

Failures: a failed statement (`DatabaseFails`, with the one case in which the
exception is caught and written as a failure), a crash anywhere, SIGTERM
(`Stop`, noticed between two runs), and the loss of the connection that holds
the scheduler lock (`LoseLock`), which the thread does not see since its
transactions use other connections.  An advisory lock belongs to a session:
unlocking never frees somebody else's (`ReleaseLock`).

Administration: an administrator opens a form (GET), submits it (the next dates
are computed there) and commits it under the row lock (409 if the revision has
moved).  Writes of administrators are serialised by an advisory lock; the run
request looks for an active run under the schedule's row lock.

Abstracted: a cron expression is its period; dates are ticks of one clock; a
run's uuid is its rank among the runs of its script; a collector is the set of
its outcomes; audit rows and log rows are left out.

### JobLedger and the refinement

`JobLedger` has two variables: the statuses of the runs, and the set of runs
being executed, of at most one element.  A run left behind is declared
interrupted only when nothing is being executed.  `ImplementsLedger` maps the
rows of `ScriptQueue` to the first and the threads' `run_id` to the second.

### Accounts

A request of the API is a thread inside one transaction.  `req[r].phase` says
which row locks it holds; the locks are derived from it (`CodeFree`,
`UserFree`, `AddressFree`, `AdministrationFree`).  Nothing a request writes is
seen by the others before its commit, and `Abandon` is a rollback at any point:
a refusal, a failed statement or the death of the API.

| Actions | Route |
|---|---|
| `RequestCode`, `CodeSent`, `CommitCode`, `SmtpFails` | `POST /request-code`: the email is sent inside the transaction |
| `CompareCode`, `WrongCode`, `FindAccount`, `RefuseSuspended`, `OpenSession` | `POST /verify-code` |
| `Logout`, `CodeExpires` | logout; expiry by date or idleness, which readers treat as absence |
| `Admit`, `EditUser`, `CommitUser`, `Revoke` | `PATCH /users/{id}`, `POST /users/{id}/revoke-sessions` |

Two variables are history, for the properties only: `mailed` (codes the SMTP
server accepted) and `answers` (attempts that got an answer).  A session also
keeps the code that opened it and the role its response announced.

`SerialAccounts` has the three tables only, and one step for what a request commits:
`Receive`, `Mistake`, `Enter`, `Withdraw`, `Leave`, `Edit`, `Revoke`, each with the
conditions of its route.  `ImplementsSerial` takes the tables of `Accounts` for those:
the step of a request is its commit, and everything before it is a stutter.  One
condition of the code is missing there: an administrator whose session ends between
the check and the commit has the request served all the same.

### RequestLimits

`enforce_limits` commits before the route goes on, and the pruning of
`request_code` commits before `enforce_limits`: each is a transaction of its own,
which is why the limits are a module beside `Accounts` and not a part of it.  A
refused request changes nothing `Accounts` sees, an admitted one is its
`RequestCode` or `CompareCode`.

| `phase` | in the code |
|---|---|
| `pruning` | the `DELETE` of expired buckets, row after row in any order (`PruneRow`), then its commit (`PruneEnds`) |
| `insert` | before the `INSERT ... ON CONFLICT DO NOTHING` of the next bucket (`Insert`), or before the commit when none is left (`Answer`) |
| `select` | between the insertion and the `SELECT ... FOR UPDATE` (`Count`; `RowVanished` when the row was pruned in between) |

`own` holds the rows the transaction has written or locked, and so says which
locks it has.  Under READ COMMITTED a statement that has waited looks at the row
again: `PruneRow` evaluates its condition a second time.  `at` is the date the
request read on arrival; everything it writes is computed from it, however late.
A bucket stands for one scope, and the order of the numbers for the order of
`sorted(limits)`.  `admitted` is history: for each bucket, the date and the
commit of the requests that passed every limit.

`BurstBounded` has the age of the dates in it for a reason: a request may insert
a bucket that a younger one has just pruned, with an end in the past, and the
next request empties it.  A limit of one request by window is not affected
(`SpacingKept`).

`SerialLimits` has the clock, the buckets and their history: `Serve` counts a request
in all its buckets at once and admits it when each has room, `Prune` removes buckets
that are over, and both may carry a date up to `MaxLag` old, as the requests do.
`ImplementsSerial` takes these variables of `RequestLimits` for its own; a request is
served at `Answer` and prunes at `PruneEnds`, whatever the statements before them
waited for.

### LoltvPolicy

Every method of `LoltvPolicy` is one transaction under the lock of the row of
`collector_state`, with the clock read under it, so each is one step; between two
of them any other caller may change the row.  The callers are the LoLTV cycle,
one at a time thanks to its source lock, and the threads that fetch logos in the
catalog.  `row` holds the keys of `data` the policy reads, 0 for a missing one.

| `phase` | in the code |
|---|---|
| `off` | no cycle; a thread with no logo to fetch |
| `between` | the cycle is between two pages (`run`) |
| `waiting` | the loop of `before_request` with the delay it has drawn (`Send`, `GiveUp`) |
| `reading` | the request has left: `fetch`, `request` of the feed, a rendered page |
| `clicking` | `before_request` of an action in a rendered page, whose requests go on |

`Ask` is `check` followed by the entry of `before_request`, `Refused` is `block`,
`EndCycle` the end of `sync_loltv` with `healthy` when nothing went wrong.
`page_completed` follows what ends a read in the same step: the browser writes
it whatever happened, the other readers when they succeed (`PageMayEnd`).  A
closed browser raises in the page that uses it, but a page that was complete
returns and the cycle goes on to its next check (`CloseBrowser`).  `sent` and
`pause` are history: the dates of the requests, and the longest pause refusals
have asked for.  The clock does not go back.

`BudgetKept` allows twice the budget: windows are fixed and start with the first
request after the last one ended, so a full one may end where the next begins.

### StakeCycle

One cycle holds the source lock, so the module has one `cycle` at a time, its
row of `collector_state`, the events and their last snapshots.  A cycle starts
with `Begin` (lock, `flush`, `check`, `start_run`) and its `phase` says where it
stands:

| `phase` | in the code |
|---|---|
| `hub`, `listing` | `sync_stake` opens the hub of the game, then discovers the events page by page (`OpenHub`, `Discover`) |
| `events` | between two events, in the order of `known_events` (`OpenEvent`, `EventLate`, `Finished`) |
| `traversal` | the tabs of one event (`OpenTab`, `EventStopped`, `Close`) |
| `publication` | the captures agree; the transaction of `publish` is next (`Publish`, `PublishRejected`) |

Every navigation or click is `Acts`: the pending requests are flushed, the
checks of `before_action` and those made while the page loads are passed
(`Readable`), and the page issues a burst of requests that stays in memory
until the next flush.  A cycle ends by `Checkpoint` (budget spent or bound of
actions), `StopRequested`, `Refused` (`block`), `Interrupted` or `Finished`;
`EndsAs` is what `finish` records.  `Crash` leaves the run "running", which the
next `start_run` declares interrupted, and loses `pending`.

A date is what has come: the end of the window (`over`), of a block, and the start
of an event.  `last` ranks the snapshots by age.  `used` and `pause` are
history; `used` leaves out the requests a killed process had not flushed, which
the code cannot know.  One game is modelled; the markets and prices inside a
capture are left out, and a capture is the phase it showed.

### LoltvCollection

The site moves on by itself: a match has one state per moment that the pages
distinguish (`Phases`), and unless the source is `quiet` a page or a feed may be
one state late.  `mem` is what `Collector` holds, `saved` the checkpoint in the
row; a crash forgets the first.

| `at` | in the code |
|---|---|
| `idle` | no cycle |
| `choose` | the loop of `run`: live matches first, then the listing, then matches that are over |
| `listed` | a listing is published and not yet in the checkpoint (`ReadListing`, `NoteListing`) |
| `read` | a sheet is published and not yet in the checkpoint (`ReadDetail`, `NoteDetail`) |
| `feeds`, `fed` | the feeds of its maps, each published then noted (`ReadFeed`, `NoteFeed`, `EndDetail`) |

A page that fails is put off (`PageFails`, `SessionFails`, `FeedFails`), a
refusal or an exhausted budget ends the cycle with its state saved (`Refused`),
and `EndCycle` is the end of the work or of `loltv_cycle_seconds`.  Time only
makes what is later due: `Elapse(e, age)` passes the next reading, the age of a
sheet or the age of `completedGames` (`Ages`).  `tried` is history.

Abstracted: one listing stands for both roots and their pages, every map has a
feed, a sheet has no full statistics by itself, the window of days and the
rendering of live pages (off by default) are left out, and so is the row of the
run.  Once the source is quiet the deadline cuts no cycle short: there is little
left to read.

### FixtureIdentity, Reconciliation and Settlement

`FixtureIdentity` has no state.  `Proof` is `_participant_proof`, `Contextual` the
proof of one participant by the other, `Demonstrated` and `InContext` the two
sets of hypotheses of `resolve_fixture`, `Resolved` its decision.  Names are
those that normalisation leaves, and the provider, the game and the key of the
competition, equal throughout, are left out.

In `Reconciliation` every action is one transaction under `lock_identities`
which ends with `reconcile_in_session` (`Reconcile`), on the events the code
passes to it: one for a reading (`Remember`), all of them for a publication of
matches or a review of aliases (`PublishMatch`, `ImportAlias`, `RevokeAlias`).
`link` is the row of `bookmaker_match_links`, `last` the `last_match_id` of the
resolution and `proof` the last decision of the journal that linked the event.
Of an event without a link the model does not say whether it is pending,
ambiguous or in conflict; the recovery of a start date from an old snapshot adds
nothing, since an event keeps its start; an alias document has one record.

The names that identify a team are those of the batch: a name stands for one team
when no other team has it, and counts against a match when that team plays about
the date of the event, or when the names of other teams have no word in common with
it (`Designates`).  Without either, `resolve_fixture` does not see the team among its
candidates, and the name rules nothing out.  `LastReadingAgrees` is stated with
this `Designates`.

`Settlement` adds the readings of the two sources, what was quoted, and the rows
of results.  `Settle` is `settle_selections` whole: every selection that was ever
open is examined again.  `Validated` and `Signature` are what a snapshot proves,
`Anchor` the reading from which the correction window is counted, `Answers` and
`Chosen` the choice of a source, `Picks` and `Valid` what the labels were on.
`settled` says that nothing has changed since the last settlement, in place of an
assumption on when the next one comes.  A reading with a date comes with open
selections under its names.

### MatchRecords and OracleData

`Publish` is the publication of one LoLTV event, one transaction: the teams by
identifier, by name or created (`Ensured`), the competition, the match it is
linked to or takes over from another source (`MatchFor`), the order of the
teams, the score and the finished maps of the snapshot.  A collection of the
catalog is two actions, since what it reads before the network (`ReadCatalog`,
kept in `job`) is what it retains after it (`PublishCatalog`, under the coverage
guard `Covered`); `ImportCommand` is the other writer of `import_catalog`.

`OracleData` adds the import of a selection of years: all of them (`oracle-full`), the
latest one (`oracle-latest`), or those an operator asks for; one year alone comes with
the first of the others, since the source exports two files at least (`Selections`).
Its transaction is a step per selected year (`ImportYear` writes the file, `Commit`
moves the pointers of these years and leaves the other ones, `ImportFails` leaves the
files).  `exports` is history: what each import has received, the last one at work
(`Files`).  So the active years may come from several imports, and a reader may see
years of different days; `YearsComeTogether` says that each year is as one whole
import has left it, and that an import leaves all its years or none.  Then the
projection: `Owns` finds the match of a game among all those
known, by the statistics LoLTV has shown and then by date, and `Project` writes
the series that are whole.  `ProjectImport` follows an import and
`ProjectReadings` a LoLTV cycle.

Abstracted: names are normalised and without generic words (two scores of
similarity within the margin of ambiguity count as equal), the reconciliation a
publication ends with is in `Reconciliation`, the quarantine of other games, the
images, tiers and regions are left out, rows of an incomplete game are no game,
and the tolerance before the start of a series is zero.  No code writes an
identifier of Oracle's Elixir in a match, so the rule that would use it never
applies.  `ProjectReadings` may happen at any time, which is more than the code
does.  `stats` are the maps last seen finished; `shown` is history.

## Runs

| Run | Instance | What it shows |
|---|---|---|
| `oracle_queue` | two scripts on one lock, two workers, two faults, clock to 4 | `ClaimsAreExclusive`, `LiveRunNotInterrupted`, `OnePerCronInstant`, `ImplementsLedger`, `TypeOK` |
| `stake_deferral` | one script that defers, two workers, two faults, fair | `NeverStartsEarly`, `RunningRunEnds`, `DueScheduleIsServed` |
| `loltv_queue` | a continuous schedule with live deadlines and blocks, one worker that may die once, one administrator, fair | `QueuedRunIsTaken`, `LiveDeadlineIsServed` |
| `shared_schedule` | two workers, one lost lock connection, two administrators | `NoUnseenChange`, `AtMostOneActive` |
| `lost_lock_live_run` | the same with two scripts, fair | refutes `LiveRunNotInterrupted` (a finding, below) |
| `accounts` | two provisioned administrators and a newcomer, two requests, three codes, one attempt | `CodesAreSound`, `ActiveAdminRemains`, `SessionsAreCurrent`, `ImplementsSerial` |
| `limits` | two requests for a code, a bucket of one admission by tick and one of two by three ticks, fair | `LimitsAreKept`, `CallersNeverDeadlock`, `ImplementsSerial`, `EveryRequestEnds` |
| `loltv_policy` | the cycle and a logo thread, delays of 1 or 2, budget of 2 by 5 ticks, pauses of 1 or 2, clock for 7 ticks | `BudgetsKept`, `PausesKept`, `RequestsAreSpaced`, `StreakCountsServedPauses`, `TypeOK` |
| `stake_cycle` | two events of two tabs, six actions per cycle, a budget of seven, two faults or changes of the source, fair | `PublicationIsSound`, `RequestsAreAllowed`, `EveryEventIsServed` |
| `loltv_cycle` | one series of two maps, also in an archived capture, one fault, fair | `CheckpointIsSound`, `EndIsPublished` |
| `identity` | one event, three matches, an alias of a team and one of a competition, five changes, clock to 2 | `LinkNeverMoves`, `LinksAreJustified`, `ResultsAreConsistent`, `DecisionsAreProved` |
| `records` | two LoLTV matches and an older one, three readings, one collection or import of a catalog, two imports of an inventory of two years, then of three | `IdentitiesAreDistinct`, `TeamsNeverMove`, `ScoreFollowsTeams`, `ActiveDataIsWhole`, `GamesHaveOneMatch` |

Several of these are conjunctions of named parts, which their modules define one
by one just above:

| Property | Its parts |
|---|---|
| `CodesAreSound` | `AnswersAreBounded`, `SavedCodeWasMailed` |
| `SessionsAreCurrent` | `SuspendedHasNoSession`, `AnnouncedRoleIsCurrent` |
| `LimitsAreKept` | `SpacingKept`, `BurstBounded`, and the types of `RequestLimits` |
| `BudgetsKept` | `BudgetKept`, `BrowserBudgetKept` |
| `PublicationIsSound` | `SnapshotsAreWhole`, `PrematchIsBeforeStart`, `FailedRunPublishedNothing`, and the types of `StakeCycle` |
| `CheckpointIsSound` | `ChangedMatchIsDue`, `AcquiredIsPublished`, and the types of `LoltvCollection` |
| `LinksAreJustified` | `NoLinkOnRevokedAlias`, `LastReadingAgrees` |
| `ResultsAreConsistent` | `OnePickWins`, `RetractedWithLink`, and the types of `Settlement` |
| `IdentitiesAreDistinct` | `IdsNeverShareTeam`, `EventsNeverShareMatch` |
| `ActiveDataIsWhole` | `YearsComeTogether`, `ActiveFilesExist`, and the types of `OracleData` and `MatchRecords` |

The finding: the comment at `scheduler.py:83` says that the connection-level
lock makes it impossible to mistake a live run for an interrupted one.  The lock
lasts as long as an idle connection that nobody looks at until the end of the
tick.  If the server drops it while a collection is under way, the next tick of
another worker (or of another replica during a redeployment) marks the live run
interrupted.  The unique index still keeps one active run per script
(`shared_schedule`).  All the other properties of the queue are therefore stated and
checked for a lock that is not lost.

### Bounds

`MaxTime`, `MaxRuns`, `MaxRevision`, `MaxFaults`, `MaxLockLosses`, `CodeIds` and
`MaxSessions` are bounds of the models and are named as such at their
declaration.  They only cut behaviours off: none enters a definition that
models the code.  Two workers are what a redeployment makes of one service.
With a cron of period 2 and a clock to 4, a schedule is due at two instants, a
tick at the end coalesces them, and a run may be deferred, taken again, ended,
and followed by another.  Two faults let a worker die and its successor too.  A
second and third code identifier let one address replace a code while the other
one's is tried, and identifiers are used again once nothing refers to them.
One attempt is enough for two requests to try a code at once.
The administration of a schedule shared by two workers needs no more than one
instant: `shared_schedule` has two, so that the worker that lost its lock and the
other one tick at different dates.

`MaxLag` bounds how old the date of a request may get and stands for the
timeouts of statements and connections.  A lag of one tick is that of a whole
window of the shorter bucket: it is enough for a bucket to be pruned, emptied or
inserted in the past of another request.  The clock to 4 lets the two windows end
at the same instant, which the circular waits need.  It holds four admissions on the
longer bucket, so that `BurstBounded`, which speaks there of a fifth one, is met by the
run on the shorter bucket only (three admissions); for the longer one it rests on
`LimitsCorrect`.

In `LoltvPolicy` only the clock is bounded.  Seven ticks hold a window that ends
and a second one that fills, five requests that the spacing just lets through,
and refusals before, during and after a pause, the doubling and its end included.
The clock starts late enough for what has never happened, dated 0, to be past.

In `StakeCycle` a cycle of six actions reaches the end of one event and the
beginning of the other, so only the order of the events serves them both, and a
budget of seven is met by the second cycle of a window.  Two faults let an event
begin during its own traversal and a retry of it, or a refusal follow a
publication, or a crash follow a failed cycle.  `Announced` and `Starts`, which the
source decides, count among them.

In `LoltvCollection` two maps are what a first one that is over and a current one
need; one fault in each place shows what a crash or a failure between a
publication and the checkpoint leaves, and everything after it is without fault.

In `identity` the three matches are the one announced, its rematch (which its own
rescheduling may reach) and the next match of one of its teams, and the five
readings name a team by its alias, by a name nobody knows, without a date, and in
another competition.  Five changes hold a link, its contradiction or revocation,
and two sources with a correction; a clock to 2 with a window of 1 holds a window
that a correction starts again.

In `records` three readings hold a match that is taken over, its teams in the
other order and its rematch; one collection reads before, between or after them;
two imports, in either order, of an inventory of two years and of one of three with a
corrected file, each of all the years, of the latest with its companion, or of the
second one, asked for by hand: an import replaces some of the years of the other and
leaves the rest.  `MaxInputs` bounds the three sources together, so two imports come
with two readings, or with one and a collection.  Series of one game make a single
game a whole series.

`MaxRuns` stops manual requests, not scheduled ones.  When the clock stops, the
system still ticks, so deadlock is checked in every run.

### Fairness

`FairSpec` assumes what the scheduling of the code justifies: threads keep
running (a loop wakes at least every second), every call of a collector has a
timeout (`EndCollection`, `EndCli`), the service manager restarts a worker that
stopped (`restart: unless-stopped` in `compose.yaml` and `compose.prod.yaml`),
a submitted form is committed, and the clock goes on.  Crashes, stops, failed
writes and the administrators' wishes are never fair.  Starting a tick is fair
for the workers together, not for each: `pg_try_advisory_lock` queues nobody.
`QueuedRunIsTaken` counts the runs whose date is within the clock's bound.
`Accounts` has no liveness property and no fairness.  In `RequestLimits` the
statements of a request are strongly fair: PostgreSQL serves the queue of a row
lock in order, so a request that can go on again and again does.  `Fail` is fair
only for the members of a cycle of waiting transactions, one of which the
deadlock timeout rolls back: a pruning request and a counting one do reach such
a cycle, and `CallersNeverDeadlock` says that counting requests alone do not.
In `StakeCycle` the collector is fair, since the scheduler begins cycle after
cycle and every page has a timeout, and so are the ends of windows and blocks;
refusals, failures, crashes and the source are not.  `EveryEventIsServed` supposes
that the faults end and the events stay scheduled.  In `LoltvCollection` the
steps of a cycle, the beginning of the next one, the age of `completedGames` and
of the listing are fair for the same reasons, and `EndIsPublished` supposes that
the matches are over and the pages up to date.  The other new modules have
neither liveness nor fairness: `settled` replaces it.

## Proofs

For every value of the constants that satisfies the named assumptions of their
modules; the bounds of the models are any numbers.  Each inductive invariant was
first checked by TLC on the instance of a run.

| Theorem | Statement | Assumptions |
|---|---|---|
| `ScriptQueueProofs` | | |
| `TypeCorrect` | `Spec => []TypeOK` | `QueueAssumption` |
| `OneActiveRun` | `Spec => []AtMostOneActive` | `QueueAssumption` |
| `NoLostEdit` | `NoUnseenChange` | `QueueAssumption` |
| `InstantsCoalesce` | `Spec /\ NothingEdited => []OnePerCronInstant` | `QueueAssumption` |
| `ClaimsExclusive` | `[]ClaimsAreExclusive` | and no lock connection is lost |
| `LiveRunsSafe` | `LiveRunNotInterrupted` | and no lock connection is lost |
| `RunsKeepTheirWord` | `FinishedIsFinal` (the row of a run that has ended never changes), `NeverStartsEarly` | and no lock connection is lost |
| `QueueImplementsLedger` | `ImplementsLedger` | and no lock connection is lost |
| `AccountsProofs` | | |
| `LocksSuffice`, `TypeCorrect` | `Spec => []AccountsInv`, `[]TypeOK` | `AccountsAssumption` |
| `AnAdminRemains` | `Spec => []ActiveAdminRemains` | `AccountsAssumption` |
| `SessionsFollowAccounts` | `Spec => []SessionsAreCurrent` | `AccountsAssumption` |
| `CodesAreGuarded` | `Spec => []CodesAreSound` | `AccountsAssumption` |
| `OneSessionPerCode` | `CodeOpensOnce` | `AccountsAssumption` |
| `RequestsSerialize` | `ImplementsSerial` | `AccountsAssumption` |
| `RequestLimitsProofs` | | |
| `LimitsKeepInvariant`, `TypeCorrect` | `Spec => []LimitsInv`, `[]TypeOK` | `LimitsAssumption` |
| `LimitsCorrect` | `Spec => []LimitsAreKept` (`SpacingCorrect`, `BurstCorrect`) | `LimitsAssumption` |
| `CountsSerialize` | `ImplementsSerial` | `LimitsAssumption` |
| `CallersCorrect` | `Spec => []CallersNeverDeadlock` | `LimitsAssumption` |
| `LoltvPolicyProofs` | | |
| `PolicyCorrect`, `TypeCorrect` | `Spec => []PolicyInv`, `[]TypeOK` | `PolicyAssumption` |
| `BudgetsCorrect` | `Spec => []BudgetsKept` (`BudgetCorrect`, `BrowserBudgetCorrect`) | `PolicyAssumption` |
| `PausesCorrect`, `StreakCorrect` | `PausesKept`, `StreakCountsServedPauses` | `PolicyAssumption` |
| `SpacingCorrect` | `RequestsAreSpaced` | `PolicyAssumption` |
| `StakeCycleProofs` | | |
| `CyclesKeepInvariant` | `Spec => []StakeInv` | `StakeAssumption` |
| `PublicationCorrect`, `RequestsCorrect` | `[]PublicationIsSound`, `RequestsAreAllowed` | `StakeAssumption` |
| `LoltvCollectionProofs` | | |
| `CollectionKeepsInvariant`, `CheckpointCorrect` | `Spec => []CollectionInv`, `[]CheckpointIsSound` | `CollectionAssumption` |
| `SettlementProofs` | | |
| `SettlementKeepsInvariant` | `Spec => []SettlementInv` | `IdentityAssumption`, `SettlementAssumption` |
| `LinksStay`, `LinksCorrect` | `LinkNeverMoves`, `[]LinksAreJustified` | the same |
| `ResultsCorrect`, `DecisionsCorrect` | `[]ResultsAreConsistent`, `DecisionsAreProved` | the same |
| `OracleDataProofs` | | |
| `RecordsKeepInvariant` | `Spec => []OracleInv` | `RecordsAssumption`, `OracleAssumption` |
| `IdentitiesCorrect`, `ScoresCorrect` | `[]IdentitiesAreDistinct`, `[]ScoreFollowsTeams` | the same |
| `TeamsCorrect` | `TeamsNeverMove` | the same |
| `ActiveDataCorrect`, `GamesCorrect` | `[]ActiveDataIsWhole`, `GamesHaveOneMatch` | the same |

`QueueAssumption` says that crons are positive periods, that the bounds are
natural numbers and that `None` and `Cli` are nobody's name.  "No lock
connection is lost" is `MaxLockLosses = 0`; `lost_lock_live_run` shows that
`LiveRunsSafe` needs it.

The argument of the conditional theorems is `QueueInv`: the lock is held exactly
by the thread that is in a tick (`LockHeld`), the tick's `now` is past
(`TickIsPast`), the runs it has listed are still queued and due (`ListedRuns`),
and the run it executes is running (`ExecutedRun`).  `ClaimsAreExclusive` alone
is not inductive: that no tick interrupts or takes the run of another worker
follows from who holds the lock, which it does not mention.  With the invariant
the other theorems are facts about one step: `Sweep` is the only writer of
"interrupted" and happens only when nobody executes, `StartRun` takes only what
is listed, `Conclude` writes only the row of the thread's own run.  The theorem
`OneActiveRun` does not use the lock: every writer that makes a row active
either looks for an active row in the same transaction or meets the unique
index.  `NoLostEdit` rests on two facts about open forms: a form's revision is
never ahead of its row, and a form whose revision is still current shows what the row
holds (`FormIsCurrent`).  So the comparison that ends in 409 is all an edit needs.

The theorems about `Accounts` rest on `AccountsInv`.  None of the properties is
inductive alone: a request writes from what it read, so each needs that the row
it read is still the same (`ReadIsCurrent`), which needs that a row lock has one
holder (`LocksAreExclusive`).  `AnswersAreBounded` needs besides that the
attempts of a row are the answers given (`AttemptsAreAnswers`) and that no two
rows or requests share an identifier (`CodesAreDistinct`); `SavedCodeWasMailed`
that a request past the SMTP call knows its code accepted (`DeliveryIsKnown`).
`ActiveAdminRemains` follows from the actor of an edit still being an
administrator when it commits (`ActorIsAdmin`): it cannot remove itself, so it
remains.  The proof never uses the count of administrators `update_user` makes,
which is a second protection.  `RequestsSerialize` is the same invariant used once more:
what was read under a lock is what the tables hold at the commit, so the step on the
old values is the step on the current ones.  It needs besides that an identifier in
use has opened no session and that an actor stays verified.  `AccountsAssumption` says that some account is
provisioned as an administrator, that `MAX_ATTEMPTS` is positive and that `None`
is no row.

The theorems about `LoltvPolicy` rest on `PolicyInv`, which relates the row to the
history: a pause somebody asked for is over or still in the row (`PauseInRow`),
the row dates the last request (`LastInRow`), who waits has drawn a delay no
shorter than the minimum (`DelayDrawn`), and no page is open when the natural
requests are exhausted (`PageWithinBudget`).  `BudgetKept` needs to know where the
last requests lie, which `WindowsInRow` says: those before the current window are
no later than its start, and those more than a budget before it a window older.
`PolicyAssumption` says that delays, windows, budgets and the cooldown are
positive, which the settings require.

`InstantsCoalesce` rests on `Coalesced`: the next date of a schedule is an instant
of its cron, its scheduled runs were requested before it, and between the requests
of any two of them lies an instant.  It needs no lock, since the next date is
moved in the transaction that requests the run.  It supposes that the schedule is
not edited (`NothingEdited`: no revision changes), because an edit computes the
next dates of another cron; and it leaves out the scripts with live deadlines,
which request runs besides those of the cron.

`LimitsInv` says of each bucket what its row still knows of the admissions it has
counted (`Guards`): they are dated before its end; those it does not count are a
window older than that end, but for the age of the dates; and the last one of a
limit of one request is over or counted.  The same is said of the row a transaction
is about to commit, were it to commit now (`OwnGuards`), which is what the commit
needs, and a row lock has one holder, so that nobody else changes the row in
between.  A request visits its buckets in order (`InOrder`); for
`CallersNeverDeadlock`, the bucket a counting request waits for is greater than all
those it holds, so along a circle of waits the bucket would grow for ever, and
there are finitely many.  `CountsSerialize` adds `SerialInv`: what a transaction has
written of a row, and whether it has been refused, is what the row in the table gives
at its date (`Follows`).  It stays so until the commit since nobody else changes a
locked row, and a row the transaction has inserted is absent from the table until then.
`LimitsAssumption` says that buckets are finitely many
numbers, and maxima and windows positive.

`StakeInv` adds to `PublicationIsSound` what a traversal has established when it
comes to the publication (`Established`: one phase in the capture, the same in the
closing reading, no enabled tab left), that a cycle under way has its run open, and
`Accounting`: the row dates the pause, and the row with what is in memory counts
all the requests of the window and leaves something to spend.  `StakeAssumption`
has finitely many events and bursts of one request at least.

`CollectionInv` says that the state in memory and the saved one are both `Sound` –
a match whose state is not the one its sheet was last tried in is due, and an
acquired map is published – and what a reading under way knows (`CurrentGood`).
The saved state alone would not do: it is a copy of the one in memory.
`CollectionAssumption` says that a series has a map.

`SettlementInv` is that of the links (`IdentityInv`: a link leads to the last match
of its event, rests on aliases still active and agrees with the newest reading; a
proof in the journal has the form of a link) with the types of the readings and of
what was quoted, `OnePickWins` and `RetractedWithLink`.  Most of the proof is about
operators: what `Resolved` returns is a mapping whose two participants are each
demonstrated or follow from the other (`ResolvedIsSound`), and a name that
designates a team is demonstrated to be that team and no other (`NameStands`).
`LinkNeverMoves` and `DecisionsAreProved` are facts about one `Reconcile` and one
`Settle`: the reading that anchors the window has stood since (`AnchorStands`), and the
team of an outcome is the one the signature of the chosen source names (`OutcomeNames`).  `IdentityAssumption` says that teams of matches are teams and that
`NoMatch` is no match, `SettlementAssumption` that maps are numbered from 1 and
that no team bears the name of an outcome without one.

`OracleInv` is `RecordsInv` with `ImportGood`: a transaction has on the disk what it has
staged, and there is a set of imports, without the one at work, each of which has left
its years as they are where no later one of the set has selected them.  A commit adds its own
import to that set.  `RecordsInv` says that an
identifier has one team and a team one LoLTV identifier (`TeamsGood`), that a known
match is one between two different teams with a name (`MatchesGood`), that a match
has one event (`LinksGood`), and that the score stands in the order of the match
(`ScoresGood`), for which the teams of the last reading must still be those of the
match.  `RecordsAssumption` keeps the identifiers of the catalog and of the older
matches apart from those of LoLTV, gives the two teams of a reading two
identifiers, and has the older matches between two teams; `OracleAssumption` says
that a delivery gives some years a file that is not empty, and that nobody asks for no
year.

Only model-checked, since ENABLED and fairness are out of the prover's reach:
the liveness properties (`RunningRunEnds`, `DueScheduleIsServed`, `QueuedRunIsTaken`,
`LiveDeadlineIsServed`, `EveryRequestEnds`, `EveryEventIsServed`, `EndIsPublished`), and
the run that refutes.  None of these modules has a RECURSIVE operator.

## Plan

In this order, each with its runs and, where stated, its theorems:

1. `ScriptQueue`, `JobLedger` – done.
2. `Accounts` – done, with its theorems.
3. `RequestLimits` – done, with its theorems.
4. `LoltvPolicy` – done, with its theorems.
5. `StakeCycle` – done, with its theorems.
6. `FixtureIdentity`, `Reconciliation`, `Settlement` – done, with their theorems.
7. `LoltvCollection` – done, with its theorem.
8. `MatchRecords`, `OracleData` – done, with their theorems.
9. Abstract specifications beside `JobLedger`, `SerialAccounts` and `SerialLimits`: what
   a collection with a checkpoint and the journal of results promise, with the
   refinements of `LoltvCollection` and `Settlement`.
10. Frontend: overlapping polls, retries, the visible update.

One run per module is the rule, with all its properties on one instance, unless
a liveness property or a configuration needs an instance of its own.

## Hazards without a property

Met in the code and covered by no property, with the reason:

- Two administrators edit one account: this form has no revision and the second
  overwrites the first (`admin.py:190`).  The next dates of an edited schedule are
  computed before its row lock is obtained (`admin.py:447`).  No document promises
  more.
- A caller of the LoLTV policy that has drawn a long delay may be overtaken by
  shorter ones (`loltv_policy.py:136`), and live matches are read before anything
  else within the time of a cycle (`loltv_sync.py:553`): no order is promised.  A
  cycle the deadline has cut may report itself complete (`loltv_sync.py:669`),
  which nothing reads.
- A Stake event whose page fails at every cycle keeps the head of the order and
  takes actions from the others (`stake_sync.py:120`): `EveryEventIsServed` supposes
  that failures end.
- A failure after an import was committed records its run as failed
  (`ingestion.py:196`); the data are whole all the same.
- A collection of the catalog writes back images, tiers and regions read before
  the network (`catalog_sync.py:296`), and the proofs of the assignment of a team
  that LoLTV created may be dropped (`core/catalog.py:51`): none of these is in the
  model.  After an import command the next collection is compared with nothing
  (`core/catalog.py:63`).
- A game stays in the snapshot of an earlier match when its rematch is registered
  after the projection (`oracle_match_sync.py:420`): `GamesHaveOneMatch` is about
  what one projection gives.
- A correction of the teams of a match does not start the correction window of
  its results again (`selection_results.py:117`): the teams are constant in the
  model.
- The names known to designate a team come from the candidates of a whole batch
  (`reconciliation.py:423`), so what a name proves depends on the events it is
  reconciled with: `LastReadingAgrees` counts what is known of the event alone.
- A commit of the scheduler whose acknowledgement is lost (`scheduler.py:181`): it looks
  like a failure, and the run that has just succeeded is written again as failed
  (`scheduler.py:294`).  A statement of `DatabaseFails` that fails has changed nothing, so
  `FinishedIsFinal` is about acknowledged commits.
- A request whose bucket is pruned between the insertion and the lock is answered with
  an error 500 (`RowVanished`): `EveryRequestEnds` counts it as an end, since the client
  has an answer and nothing was counted.
- A revoked alias of a competition (`reconciliation.py:435`): the proof of a link keeps how
  its participants were identified, not its competition, so `NoLinkOnRevokedAlias` is
  about the aliases of participants.
- Overlapping polls of the browser application (`polling.ts`): no frontend module.

## Not modelled

Page scripts and browser drivers, parsing of pages and archives, rendering,
images and logos, the text of emails, cookies and origins, settings validation,
diagnostic commands (`stake_audit.py`, `stake_probe.py`), log rows, and read
queries: input, output or text without a decision other components depend on.
The read models of the API write nothing, the operational journal is read by no
component, and the frontend only reads the API: they have no module.  What the
modelled components leave out is said in their sections, the largest parts being
the presentation of maps and markets (`core/matches.py`,
`core/bookmaker_markets.py`), the validation of archives and exports, and the
images, tiers and regions of the catalog.
