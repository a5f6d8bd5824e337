# LifeOS backend: TLA+ specifications

Specifications of the backend under `backend/src/lifeos`. Paths below are
relative to that directory; `design` and `R9.6` refer to `design.md` and
`requirements.md` at the root of the repository. `PROJECT.json` holds the
machine-readable part: components, runs, mutants, the map from definitions to
source lines, hazards, findings and theorems.

## 1. Inventory

LifeOS is one FastAPI process (several copies may run) over PostgreSQL and
Redis. A request goes through the idempotency service, runs one domain
service in one transaction, and publishes domain events into an outbox table in
the same transaction; consumers deliver the events to handlers. All
coordination between processes is by database rows, row locks and
transaction boundaries, so those are what the modules make explicit.

| Component | State | Operations | What is hard | What makes it correct |
|---|---|---|---|---|
| Commitments (`domain/commitments.py`) | commitment rows, links, ledger events | create, keep, cancel, defer, explain, deadline sweep, check-in and cancellation hooks | deadline rules interleave with requests, hooks, zone changes; explanation windows; create() validates without locks | no late rescue, full explanation windows, one explanation per re-deferral, resolved rows frozen, ledger equals row, satisfied conditions resolve |
| Integrity score (`domain/integrity.py`, `domain/proactive.py`) | daily snapshots, flags | refresh, overview, raise and resolve flag | refresh runs in every commitment handler; crossing detection against the previous snapshot; dedupe key per date | a low score has an open flag |
| Idempotency (`domain/idempotency.py`) | one record per user and key | claim, reclaim, run, complete, mark failed | crash between two transactions, stale claim of a live request, expiry during execution | once per retention period, replay of the original result |
| Outbox (`events/`) | event rows, attempts, `available_at` | publish, claim, handle, record failure, dead-letter | several consumers, failure recorded in a second, unlocked transaction | handlers commit once, every event is settled |
| Memory Store (`domain/memory/`) | entries, vectors, embedding status | create, update, supersede, delete, backfill pass | a pass holds its rows during a slow provider call; edits write only changed columns | vectors belong to the text, replacements exist |
| Check-ins, reschedule, cancellation (`domain/checkins.py`, `domain/schedule/reschedule.py`) | daily actions, check-in records, schedule history, overrides | start, complete, skip, reschedule, cancel, change of zone | task and habit services load the action before it is locked; wall clock, date and instant come apart between zones; several records of one instant | records and history replay to the row, the future keeps its wall clock, hooks are never missed |
| Suggestions (`domain/schedule/suggestions.py`) | suggestions with a proposal | propose on a late completion, accept, reject, expire | the event is delivered late; the actions of a proposal change before it is accepted | what the User acted on is not moved |
| Habits, goals, routines, generation (`domain/habits.py`, `goals.py`, `routines.py`, `schedule/generation.py`) | definitions, pause periods, overrides, instances, actions | CRUD, pause, resume, archive, generate | a generation reads sources once and overrides day by day while they change; two generations overlap; bulk cancellation reads without locks | one active occurrence per key, nothing cancelled comes back, nothing due is missing |
| Accountability (`domain/accountability.py`) | escalation rows, reflections, flags | evaluate a source, reflect, recover | occurrences are read before the row is locked, so an older view may be applied after a newer one | an escalated episode comes down only with a reflection, recoveries are paid for, no stale flag |
| Sessions (`domain/auth/`) | sessions, refresh token history, Redis cache | create, refresh, log out, sign out everywhere, validate | rotation with reuse detection; the cache is written outside the transaction and after a revocation | a revoked session is refused within a bounded time, a token is exchanged once |
| Objectives and progress (`domain/objectives.py`, `progress.py`) | objectives, the goal's progress | create, update, delete, roll up | each request rolls up what it can see | an undisturbed request leaves the goal right |
| Metrics, analysis, Now Mode, analytics, pagination | none of their own | reads over changing data | boundaries: open periods, touching blocks, equal keys, closing periods, the instant an action ends | equal to reference definitions, stable under what happens between two reads |
| API, persistence, container, e-mail, worker | wiring | - | - | - |

`agents`, `toolbus`, `realtime` and `observability` are empty packages and
`worker/main.py` idles: nothing schedules the deadline sweep, the outbox
consumers of a deployed process, schedule generation, the escalation sweep or
the embedding backfill yet. Only the outbox consumer has a loop of its own, so
only `Outbox` assumes fairness.

## 2. Modules

| Module | Models | Variables ↔ code |
|---|---|---|
| `Integrity` | `domain/timeutil.py`, score, snapshots and flags | operators only: `local_date`, `compute`, `crossed_below`, `raise_flag` ... keep the source's names |
| `Commitments` | `domain/commitments.py` and the callers of its hooks | `now` the injected clock; `profile` zone and threshold of the `users` row; `actions` `daily_actions`; `rows` a commitment row with its links, `commitment_events` and outbox messages; `pending` create() calls in flight; `snapshots`, `flags` the tables |
| `Idempotency` | `domain/idempotency.py` for one (user, key) | `record` the row; `pc`, `now`, `fp` where each request is in `run()`; `effects` the executions that committed |
| `Outbox` | `events/outbox.py`, `events/consumer.py` | `event` the rows, `pc`/`holding`/`seen` the locals of `process_one()` and `_record_failure()`, `alerts` the developer alerts |
| `MemoryStore` | `domain/memory/service.py`, `embeddings.py`, `search.py` | `entry` the rows, `edit` what an update loaded, `batch` the rows a pass has locked |
| `OncePerPeriod` | the promise behind `Idempotency` | abstract: what is remembered, and what each client has been told |
| `Escalation` | `domain/accountability.py` for one source | `row` the escalation row, `txn` what each transaction has read and not yet applied, `today`, `status`, `paused` and `openPause` what it reads, `openFlags` and `oldFlags` the proactive flags, `reflections` |
| `Sessions` | `domain/auth/service.py`, `sessions.py` | `sess`, `retired` the tables, `cache` Redis, `found` a refresh that holds its row, `ending` an invalidation between Redis and commit, `check` a validator between load and put |
| `Occurrences` | `schedule/generation.py`, `habits.py`, `routines.py`, goals' archive and delete, overrides | the definition tables, `instances` and `actions`, `gen` the progress of each generation through its reads and inserts |
| `DailyActions` | `checkins.py`, `tasks.py`, `habits.record_occurrence`, `reschedule.py`, `timezone_change.py`, `suggestions.py` | `action`, `checkins`, `history`, `task`, `record`, `suggestion` the tables; `events` completion events, delivered at any time after; `pending` a request that has read rows it has not locked |
| `NowMode` | the rules of `now_mode.py` | operators; `DailyActions!candidates` applies them to its rows |
| `HabitMetrics` | `habit_metrics.py` | operators |
| `ScheduleAnalysis` | `schedule/analysis.py` | operators |
| `Pagination` | `pagination.py`, keyset form | operators |
| `Completion` | `analytics/completion.py` | operators |
| `Progress` | `progress.py` | operators |
| `Objectives` | `objectives.py` | `objective`, `goal` the rows, `req` what each request has read, written and seen |
| `Reports` | the readers of all of these over data that changes between reads | `subject` selects which; each subject has the variables of its tables |
| `CommitmentsProofs`, `IdempotencyProofs`, `SessionsProofs`, `EscalationProofs`, `OccurrencesProofs`, `DailyActionsProofs`, `ReportsProofs` | theorems about the module they are named after | see section 4 |
| `WorkerProofs` | theorems about `Outbox` and `MemoryStore`, whose steps background workers take | see section 4 |
| `MC*` | instances for TLC | symmetry sets where used |

**Step boundaries.** A transaction that locks every row it decides on is one
step, taken at its commit; one that raises is no step, because everything it
wrote is rolled back (the deadline rules applied before a rejected keep, defer
or explain included). Where the code reads without a lock and acts later there
are two steps: `BeginCreate`/`CommitCreate`, `Look`/`Reclaim`,
`ReadFailure`/`WriteFailure`, `BeginUpdate`/`FlushUpdate`,
`LockBatch`/`Embed`, `BeginCheckin`/`EvaluateLocked`, `FindSession`/`_rotate`,
`_load`/`FillAndDecide`, `Load`/`_load_overrides`/`_persist`/`Commit`,
`BeginComplete`/`CompleteTaskAction`, `BeginAccept`/`accept`,
`Read`/`Flush`/`Commit`. A stale read whose first half leaves no trace is one step
with the weaker guard the stale value implies (`StaleCheckIn`,
`CancelFuture`).

**Time and zones.** An instant is a number of ticks and a zone an offset in
ticks. Changing the offset covers both a move between zones and a DST switch.
A day is `DayLen` ticks; with `DayLen = 1` every tick is a midnight, the only
instants at which the date rules change their answer, and windows are counted
in the same ticks.

**Commitments.** `explicit`, `Defer` and `Explain` apply the deadline rules
first, as the service does; `RecordCheckIn` and `CancelActions` include the
hook that the check-in and cancellation services call, and `refresh`, which the
handlers call last, writes the snapshot and the flag in the same step. The
outbox messages of a commitment are kept with its row, since only their order
per commitment matters here.

**Faults.** An operator introduced by a comment starting with "Fault:" is a
wrong version of the definition that follows it. No specification uses it; it
is substituted for that definition to confirm that the property would notice.

## 3. Runs

`tlc -workers 2 -config X.cfg M` in this directory; each run ends within three
minutes or so.

| Run | Checks | Shows |
|---|---|---|
| `Deadlines` | `TypeOK LedgerReplays RedeferralsExplained ResolvedRowsFrozen NoLateRescue FullExplanationWindow SweepSettles` | one explicitly kept commitment through the clock, zone changes, deferrals, windows, requests and sweeps |
| `Links` | `ExplicitWhenUnlinked SatisfactionResolves` | one commitment with up to two linked actions: check-ins, stale check-ins, cancellations |
| `PromptRequests` | `ExecutedOnce CompletedSticks ImplementsOncePerPeriod` | the idempotency guarantees, and the refinement of `OncePerPeriod`, when live requests end before `STALE_AFTER` |
| `SlowRequest` | `ExecutedOnce` violated | see findings |
| `Delivery` | `DeliveredOnce EventuallySettled` | two consumers, failures, a crash: handlers commit once, every event is settled |
| `Embedding` | `ReplacementLives FreshVectors` | backfill against edits, deletes and replacements |
| `Levels` | `ReflectionGate OneReflection RecoveryPaid NoStaleFlag` | one escalating habit, two transactions that read before and lock after each other |
| `EvaluateTwice` | `Idempotent` violated | see findings |
| `SignedIn` | `RevocationTakesEffect RotatedOnce EndedIsFinal` | one session, two refreshes and two validators at once, lost invalidations, evictions |
| `Occurrences` | `OneActive NeverRegenerated PausedDaysEmpty DueIsGenerated` | two overlapping generations while habits, routines, goals and occurrences are edited |
| `DailyActions` | `CheckinsInOrder HistoryReplays WallClockKept RecordAgrees ActedIsNotMoved DueStaysInView` | two actions through check-ins, outcomes, moves, zones, late events and suggestions |
| `Reports` | `StreaksAreRuns StreakLostByMissing AnalysisByTheMinute EveryRowOnce StatusReplays ClosedPeriodKept UpdateRepairs` | derived values over data that changes between reads |

**Bounds.** Constants whose comment says "bound" limit the instance only;
everything else is a parameter of the code with a small value.

- `Deadlines`: six instants, due dates up to day 6, two offsets and a window of
  two ticks leave room for two deferrals, each with a window that is opened,
  explained or expired, and for a zone change that takes the local date back
  while a window is open. Day 6 lies beyond every reachable local date but one,
  so a deferral is possible at the end of the run too.
- `Links`: two actions are the least that separates `all` from `any`, and four
  instants put a due date, its end and a late completion in one behaviour.
- `PromptRequests`: three requests (one runs, one duplicates it, one comes after
  expiry), two bodies, `MaxTime` beyond one retention period. `MaxRun <
  STALE_AFTER` states the assumption that a request still alive is not slow;
  `SlowRequest` drops it.
- `Delivery`: `MAX_ATTEMPTS = 3` is the least at which a lost update can take
  the counter back below a value it already had; two events show the id order
  and `SKIP LOCKED`. `tries` is held at 0; it only serves `AttemptsBounded`.
- `Embedding`: three entries for a chain of two replacements and a batch
  smaller than the queue; two workers compete for the rows.
- `Levels`: three days with one occurrence each and thresholds of 1, 2 and 3
  skips reach every level, a recovery, and a second escalation; two processes
  are what a stale read takes. `EvaluateTwice` needs a longer look back (six
  days) and one process.
- `SignedIn`: four tokens and six instants leave room for a refresh after a
  refresh, an expiry, and a revocation that is forgotten by the cache before the
  access token ends. A validator takes at most `MaxDelay` from its load to its
  put; the bound of `RevocationTakesEffect` contains it.
- `Occurrences`: today and tomorrow, one habit, one routine with an entry that
  may stand for the habit, three edits by the User; one generation of both
  days and one of tomorrow, so that they meet on one day and each also works
  alone.
- `DailyActions`: two actions, three local times on two days, two zones, three
  edits; the least with which a suggestion moves one action because of another.
  A request that reads before it locks overlaps midnights, deliveries of events
  and the generator, but no other request of the User: `Overlap = FALSE`. What
  changes with `TRUE` is under findings.
- `Reports`: days of a two-day week over five dates, all days of up to three
  blocks within five minutes, listings of up to four rows with two keys and two
  changes between pages, two actions over two days, four requests on two
  objectives. The algorithms compare neighbours, so three blocks and two equal
  keys are what their boundaries need. The subjects do not interact; `subject`
  keeps their states from being multiplied.

Deadlock checking is off only where the system may rest: all requests answered,
all events settled, all entries deleted, the edits used up, the report read.

**Refinement.** `Idempotency!ImplementsOncePerPeriod` maps the record to what
the service remembers (nothing unless it is completed) and the position of each
request in `run()` to what its client has been told. Claims, takeovers, failures
and deaths become stuttering steps, a takeover of an expired result becomes
`Forget`.

**Fairness.** Only `Outbox` states any. `run_forever()` loops, so a claim that
stays possible is made; handlers return or raise; the failure is recorded; the
clock advances. Publishing and crashing are never forced, and success is not
required of any handler: `EventuallySettled` holds because failures lead to the
dead letter. Crashes are bounded by `MaxCrashes`: an event whose handlers kill
the worker each time is never counted as failed by the code, so with unbounded
crashes the property is false by design. Generation, sweeps and the backfill have
no caller in the repository outside its tests; their properties say what one
call leaves (`DueIsGenerated`, `SweepSettles`), not that there will be a call.

## 4. Proofs

`tlapm XProofs.tla` for each of the eight `*Proofs` modules. Every theorem is about
`Spec` for all values of the constants that satisfy the `ASSUME`s of the
component's module: any number of commitments, requests, events, sessions, days
and ticks. The bounds of the runs (`MaxTime`, `MaxEdits`, ...) are arbitrary
naturals there. The assumptions are what the code has: positive lifetimes and
windows (`Window` is 24 h; with a window of length 0 a sweep would leave something
to do), finite sets of rows and blocks, ids of different tables that do not collide,
one generation not given the same date twice, habits with a target of at least one
(`Reports!Definitions`, what `habits.py` accepts). Two groups of theorems need more,
and state it as a hypothesis:

- `IdempotencyProofs!Prompt`, `MaxRun < STALE_AFTER` and `MaxRun < RETENTION`: a live
  request ends before its record goes stale or expires. The code relies on it and
  does not enforce it; run `SlowRequest` shows what happens without.
- `~ Overlap` in part of `DailyActionsProofs`: the User's requests on Daily Actions
  come one after another. Finding 9 shows what happens without.

Each inductive invariant (`IInv`; in `CommitmentsProofs` also `TInv` and `LInv`, in
`DailyActionsProofs` also `SInv`, in `OccurrencesProofs` also `DueInv`, in `ReportsProofs` one
per subject) was checked by TLC on the instances of the runs before it was proved.

**Loops.** A loop of the code that the properties depend on is a recursive function in a
`LET` (`longest_streak`, `merge`, `booked_minutes`, `largest_gap`, `chain_order`), which
the provers read as a `CHOOSE`. A proof about one shows that a function with the loop's
equation exists (`LoopExists`, or the reference function itself), that its values are
determined, and what holds after each turn of the loop. The induction is on numbers, by
the least place at which the claim would fail (`LeastOf`, `UpTo`, from the library's
`WFMin`), since the induction theorems themselves cannot be instantiated. A sorted list
is stated by ranks: an element stands where the number of smaller ones says.

**Commitments.** All nine properties of the two runs.

- `TypeCorrect`, `ResolvedFrozen`, `RedeferralsPaid`, `LateNeverRescues`. `TRANSITIONS`
  alone does not freeze a resolved row, because `CommitCreate` overwrites one; it
  needs `PendingAbsent`, a create() in flight belongs to a commitment that does not
  exist yet. `deferrals <= facts + 1` is not inductive; `Credit` adds that an
  explanation given in a window that is set is unspent, and that an Open commitment
  was never deferred. `SurvivorOnTime` carries "on time" through the hooks.
- `RowStep` says what a step does to one commitment: nothing, its creation, the
  deadline rules followed by at most one request, or a hook. The other theorems are about
  these effects:
  `OneSweepIsEnough` (`SweepSettles`) because a window is opened strictly in the
  future; `SatisfactionIsSeen` (`SatisfactionResolves`) because a check-in or
  cancellation that reaches no hook for a row changes nothing its condition reads, and
  a hook re-evaluates last; `UnlinkedIsExplicit` (`ExplicitWhenUnlinked`) with
  `PendingTerms`, what create() validated about a request in flight.
- `LedgerIsComplete` (`LedgerReplays`) and `WindowIsFull` (`FullExplanationWindow`) from
  `Ledger`, which says of each row what the last event, the last dated event, the
  number of deferrals and the last status message are, and that a window that is set
  was opened after the last deferral and ends at least `Window` after its event.
  Events are `Quiet` or written by a transition; the several `link_removed` events of
  one cancellation are one quiet extension.

**Idempotency.** `OnceHolds` (`ExecutedOnce`), `CompletedHolds` (`CompletedSticks`) and
`Refinement` (`ImplementsOncePerPeriod`), under `Prompt`. `Owned`: a request that runs owns
the record and is the only one that runs; `Remembered`: the record of an execution is its
own until its claim expires; `ResultOfBody` gives the refinement its replies.

**Outbox** (in `WorkerProofs`). `Delivered` (`DeliveredOnce`). `HeldAlone` is the row lock;
`EffectsMarked` ties the committed handlers to `processed_at`. Failures recorded without a lock
change neither. `EventuallySettled` is liveness and stays with TLC.

**MemoryStore** (in `WorkerProofs`). `ReplacementsLive` (`ReplacementLives`),
`PassesAreFresh` (`FreshVectors`). `LockedAsLoaded`: a locked entry is live and has the
text its pass loaded, which makes the vector written later the vector of the current
text.

**Sessions.** `RotatesOnce`, `EndIsFinal`, `RevocationHolds`. `FoundAlone` is the row lock of
refresh(); `History` says which tokens are retired; `Aged` bounds the age of what a validator
has loaded and of what the cache holds, counted from an instant at which the session
had not ended. That is where `MaxDelay + CacheTtl` comes from.

**Escalation.** `GateHolds`, `OneReflectionHolds`, `RecoveriesPaid`, `NoFlagLeftBehind`. `ReadsLast`:
the completed days a transaction has read are still completed when it evaluates
them; with it every recovery leaves an anchor up to which `RECOVERY_DAYS` more days
are completed (`Paid`), although its reads are stale.

**Occurrences.** `OneActiveHolds`, `CancellationHolds`, `PauseHolds`. `Reserved`: the unique index
holds the keys of uncommitted rows too; `CancelKnown` and `PauseKnown`: what a generation
has planned is not cancelled or paused, unless that came after its read.
`NothingDueIsMissed` (`DueIsGenerated`) rests on a second invariant, `DueInv`: what a
generation has read of a source still holds unless the User edited that source since
(`Known`), and what is due on one of its days is still to be read, planned, written by it
or active already (`Covered`); `Defined` is what the definitions need for that.

**DailyActions.** Without a condition: `WallClockHolds` (`WallClockKept`) and `DueInView`
(`DueStaysInView`). Under `~ Overlap`: `HistoryHolds` (`HistoryReplays`), `OutcomesAgree`
(`RecordAgrees`), `ActedStays` (`ActedIsNotMoved`) and `CheckinsHold` (`CheckinsInOrder`).
The last needs `CheckinsInTurn`: along the check-ins of an action time does not go back and
the status goes up, so no status comes twice and, in whatever order the database returns
the rows, one row of those left continues the chain, the one made next (`MadeIsTaken`,
`OneOrder`, `OrderRestored`). `Snapshot`: what a request in
flight has read is still so. Every action is shown to be a `Step`, described by its
effect on each row, and the invariants are shown for the effects. The attempt to
prove `DueStaysInView` changed it: an action rescheduled, after a change of zone, to
the instant it already had gets another date and leaves the day's lists, so the
property requires its date to be kept as well.

**Reports.** One invariant per subject; the subjects share no state.

- `StreaksHold` (`StreaksAreRuns`) and `StreaksLostByMissing` (`StreakLostByMissing`), from
  `HabitInv`. `Chain(s, i)` is the set of met periods up to the i-th since a period broke a streak;
  the loop of `longest_streak()` counts it, `current_streak()` counts the one at the end,
  and every run is part of one. For the second theorem, a completion, and a
  midnight that closes nothing unmet, leave each period `AsGood` as it was and so keep
  the chains; a new period is in progress and breaks nothing. A pause or its end agrees
  with the earlier definition on the dates before today, so only the period of today may
  leave a chain.
- `AnalysisHolds` (`AnalysisByTheMinute`), from `DayInv`. `merge()` yields intervals apart
  from each other that cover exactly the minutes of the blocks (`MergedTo`), which gives
  the booked minutes by adding cardinalities; the loop of `largest_gap()` keeps
  `PassedTo`: its gap is the length of a free stretch, and a longer one starts at or after the
  cursor.
- `PagesCover` (`EveryRowOnce`), from `ListingInv`: rows are seen in order, the cursor is
  the last row seen, and a row that was there all along and comes before the cursor has been
  seen (`SteadyCovered`).
- `HistoryGivesStatus` (`StatusReplays`) and `RateIsFinal` (`ClosedPeriodKept`), from
  `PeriodInv`: the check-ins of an action are linked and ordered (`Histories`), and the
  status noted for each past instant is that of the last check-in up to it (`NotedRight`).
  What is written after the end of a period is later than what its rate reads.
- `LoneUpdateRepairs` (`UpdateRepairs`), from `GoalInv`: a request that has run alone so far
  loaded the progress the goal still has and recomputed it from the rows it will commit
  (`AloneIsCurrent`).

**Only model-checked.** `EventuallySettled`: liveness under fairness is out of the prover's
reach. Every other property of a passing run is stated by a theorem.

## 5. Findings

With a run:

1. **A slow request runs twice** (`SlowRequest`). A claim older than `STALE_AFTER` is
   taken over although its owner still runs, and completion does not check
   ownership (`idempotency.py:143`, `:74`; design 22.3 "executed once").
2. **An evaluation is not idempotent** (`EvaluateTwice`). A recovery moves the anchor to
   a completion that lies before skips still in the window; evaluating again
   without a new check-in escalates again, against `accountability.py:21`.

Known deviations without a run of their own. Each is a property defined in its
module, left out of the passing runs, and found violated by TLC when it replaces
their properties in the given configuration:

3. **create() misses a completion** (`Commitments!SatisfiedIsKept`, `Links`). The
   links are validated by an unlocked read (`commitments.py:328`); a check-in that
   commits before create() does runs the hook before the commitment exists. The
   commitment stays Open although its condition holds (R9.6).
4. **A second crossing is not flagged** (`Commitments!LowScoreIsFlagged`,
   `Deadlines` with two commitments and three instants). The flag's dedupe key is the local date
   (`integrity.py:62`), and a resolved flag keeps it, while design 11.5 says
   "deduplicated per crossing".
5. **A failed attempt is lost** (`Outbox!AttemptsBounded`, `Delivery` with
   `MaxTries = 4`). `_record_failure()` reads and writes `attempts` without a
   lock (`consumer.py:94`); the handlers run more than `MAX_ATTEMPTS` times.
6. **A delivered event is dead-lettered** (`Outbox!DeadNotDelivered`, `Delivery`).
   `_record_failure()` ignores `processed_at` (`consumer.py:95`).
7. **A stale vector is searchable** (`MemoryStore!NoStaleVector`, `Embedding`). An
   update that loaded a pending entry does not write `embedding_status`, so it does
   not undo a backfill that committed meanwhile (`memory/service.py:179`).
8. **A cancelled occurrence comes back** (`Occurrences!CancelledForGood`,
   `Occurrences`). A generation that read the day's overrides before the cancellation
   inserts the occurrence after it, against `reschedule.py:182` "so it is never
   regenerated". `NeverRegenerated` is what holds.
9. **Overlapping requests on one action** (`DailyActions` with `Overlap = TRUE`).
   `TaskService.complete()`, `record_occurrence()` and `accept()` decide on rows they
   loaded before the lock: `CheckinsInOrder`, `HistoryReplays`, `RecordAgrees` and
   `ActedIsNotMoved` fail (against `checkins.py:106` and `suggestions.py:188`).
10. **A solid stretch between block starts** (`Reports!SolidWindowFound`, `Reports`).
   Windows are looked for at block starts only; the claim of `analysis.py:154` that one
   anchored there is as solid is not true when the window begins inside a block.
11. **A goal's progress is left stale** (`Objectives!GoalAgrees`, `Reports`). Two
   requests that overlap each roll up without the other's change; the next request
   that runs alone repairs it (`UpdateRepairs`).

Observed while modelling, no property: `daily_rates` evaluates every day as of the
end of the whole range (`completion.py:111`); the weekly categories and wins use the
current status while the overall rate uses the status at the end of the week; an
action started before its time is in none of the lists of Now Mode until then; the
check that two routines share no weekday, and the check that a habit has one open
pause, are reads without a lock.

## 6. Not modelled

- Wording, serialisation, request parsing and HTTP mapping: no state. Lineage,
  listings of ledgers and memories, the trend of the integrity score: reads.
- Registration, e-mail verification, lockout and cryptography of `domain/auth`:
  library calls and counters; the modelled part begins with a session.
- Row-level security and migrations: every module is about one User's rows.
- Similarity ranking and correlation: floating point, no state. The weekly
  ranking sorts values that `Completion` and `Objectives` already give.
- Memory event handlers: adapters that call `create_once()` inside the
  transaction that marks the event processed, which `DeliveredOnce` covers.
- Database deadlocks between handlers that lock in different orders
  (`commitments.py:506` by due date, the hooks by id): the database aborts one of
  them, which is a transaction that is no step.
- Concurrent refreshes of one snapshot: `refresh` is atomic with its handler in
  `Commitments`.
- The gap and the fold of a DST change inside `resolve_local`: zones are offsets
  that may change at any time, wall clocks that do not exist are not represented.

## 7. Maintenance

Every component with a protocol of its own has a module, and all properties but one
a proof. When the code changes: change the mapped definition, run its configuration,
then its proof module. A property that fails under TLC is the code's business or the
model's; a proof that fails while TLC passes usually needs the invariant of its
component extended by what the new step relies on. Extensions worth the effort: a
scheduler for sweeps, generation and backfill once the worker has one (with the
fairness it gives), and registration and lockout of `domain/auth`.
