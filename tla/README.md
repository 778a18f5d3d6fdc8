# Second Brain: specifications

TLA+ specifications of the protocols of Second Brain, the TLC runs that check
them on small instances, and TLAPS proofs about them. Paths are relative to the
repository; `PROJECT.json` maps every definition to the lines it models.

Second Brain is one FastAPI application over one PostgreSQL database. There is
no in-memory shared state: request handlers, scheduler processes and operator
commands meet only in database rows, so concurrency means *interleaved
transactions*, and failure means a process dying, a commit failing or a commit
whose outcome is unknown. Every action of every module is therefore one
committed transaction (or one rollback), with all that the handler does in it;
where a transaction's own statements interleave with another's in a way that
matters (superseding a Memory, marking an account valid) each statement is an
action. Calls to providers lie between transactions, and everything may happen
during one.

## Inventory

| Component | State it keeps | Operations | Interacts with | What is hard | What makes it correct | Module |
|---|---|---|---|---|---|---|
| Automations (`app/automations`) | `automations`, `automation_occurrences` (slot, captured authority, claim: owner, generation, lease), `automation_notifications` | lifecycle commands; scheduler tick: reconcile, reclaim, materialize, claim, link; deferral and fail-closed handlers; automatic coordination | creates and drives Agent Runs | concurrent ticks, one instant captured per tick, leases nobody renews, edits between phases, unknown commit outcome, capacities | one Run per occurrence, one open occurrence per Automation, links only under the captured authority, terminal rows immutable, outcomes reported, progress | `AutomationScheduler` |
| Agent Runs (`app/agent_runs`, `app/agent_planning`, `app/agent_tools`) | `agent_runs` (state, revision, budgets, deadlines), `agent_steps`, `tool_invocations`, `agent_events`, approvals | create, plan, execute (claim, reserve, call, finalize, complete), cancel, recover | Tools, providers, Automations | calls made with no lock held, recovery racing with execution, late answers, crashes between transactions, budgets shared by several workers | sequential steps, outcomes final, terminal frozen, budgets kept, every Run ends | `AgentRun` |
| Result agents (`app/research`, `app/curator`, `app/daily_brief`, `app/project_watch`) | the Run's result event; evidence in a worker's memory | claim synthesis, persist or fail the result | Agent Runs, Memories, Sources | evidence stale or from a discarded call; deadline during synthesis | results cite only what succeeded; no late result | `AgentRun` |
| Connectors (`app/connectors`) | accounts, sync runs, repository and item revisions; refresh schedules, occurrences, notices | account service, manual refresh; refresh scheduler tick | Sources, Automations' runner | pages read while GitHub changes, an account edited in mid-run, dead workers, two ticks on one run | nothing is inferred from a run that did not finish; what is shown was seen; one run per occurrence, one active run per account; occurrences end | `Connectors`, `ConnectorSync`, `SyncPromise`, `ConnectorSchedule` |
| Calendar (`app/calendar`) | append-only account revisions, sync runs, event revisions, observations | connect, edit, pause, revoke, refresh; effective evidence | OAuth credentials | account revisions appended between pages, sliding windows, an event returning to an earlier content, one calendar of several failing | evidence is whole, fenced by the account's revision, and mirrors the calendar | `Calendar` |
| Google OAuth, credentials | one-shot consent state, key store entries | authorize, exchange, revoke | Calendar, Connectors | mostly input and output | state used once | none |
| Memories (`app/api/routes/memories.py`, `app/repositories/memories.py`, embedding, quality and maintenance modules) | memories, supersession links, embeddings | create, refine, expire, supersede, embed one or a batch, audit | Proposals, Answers, project export | competing supersessions, reads before a provider call and writes after it, restarts under another embedding model | one replacement per superseded Memory, inactive rows final, batches embed only active rows | `Memories` |
| Retrieval (`app/repositories/memories.py`, `app/captures/tokens.py`) | none: ranks and pages | lexical, semantic and hybrid search, evidence for answers, cursors | Memories, Captures, Answers | rank fusion of two cut channels, ties in cursors | the window hides nothing better; pages put together are the order | `Retrieval` |
| Memory proposals (`app/extraction`) | extraction runs, proposals, promotions | extract, review, promote | Memories, Sources | the document replaced during the call, double promotion, retries | exact evidence, decisions final | `Intake` |
| Sources and ingestion | sources, documents, chunks, links | create, ingest, link to a Memory | Captures, Proposals | chunks replaced under readers | access only in the bound scope | `Captures`, `Intake` |
| Captures | capture items | create by idempotency key, edit, reassign, discard, restore, convert | Sources | replays against revision conflicts | one Source per conversion, no lost update | `Captures` |
| Project import and export | none (bundle files) | convert in one transaction | Projects, Memories, Sources | links between Memories | what is exported can be imported | `Memories` (its check of links) |
| Answers, embeddings, retrieval evaluation | none of their own | retrieve, ask a provider, validate citations | Memories | the cut of the evidence | citations of what was sent | `Retrieval` (its evidence) |
| Context Hub; Projects, operations, diagnostics; core, database; frontend | none; single rows; configuration; none | projections, row commands | everything | sealed cursors | no protocol | none |

The hazards this code is exposed to, each at its line and with the properties
that would notice it going wrong, are listed in `PROJECT.json`.

The modules, in the order they were built: `AutomationScheduler`, `AgentRun`;
`Connectors` with the two modules that extend it, `ConnectorSync` (which
implements the abstract `SyncPromise`) and `ConnectorSchedule`; `Calendar`;
`Memories`, the pure operators of `Retrieval` and `Search`, which puts the two
together; `Captures`, extended by `Intake`. A module `X` is instantiated for TLC by `MCX` and has its theorems in
`XProofs`; `AutomationOutcomeProofs` continues `AutomationSchedulerProofs`.

## AutomationScheduler

`auto`, `occ`, `runs` and `notif` are the tables; an occurrence is keyed by its
unique constraint (Automation, schedule revision, slot). `clock` is database
time. Each member of `Ticks` is a scheduler process at `pc[t]`, with its captured
`now`, its claims, those its loop has still to visit (`work`) and the
occurrence its open handler is about (`cur`).

| Code | Actions |
|---|---|
| `service.py` | `CreateAutomation`, `UpdateLabel`, `UpdateDefinition`, `UpdateSchedule`, `SetExecutionMode`, `EnableAutomation`, `ResumeAutomation`, `PauseAutomation`, `CancelAutomation` |
| `scheduler_runner.run_one_tick` | `BeginTick` (with its reconcile), `ReclaimExpired`, `MaterializeDue`, `ClaimDue`, the link loop, `Coordinate`, `Settle`, `EndTick` |
| `scheduler.create_and_link_run` and what the runner catches | `LinkReplay`, `LinkRun`, `LinkCommitLost`, `LinkOverCapacity`, `LinkFenced`, `LinkTransient`, `LinkRefused` |
| handlers | `DeferCapacity`, `DeferRetry`, `FailClosed`, `Recheck`, `Stop`, `AbortTick` |
| `coordinator.coordinate_occurrence` | `Eligible`, `Coordinate`, `Drive` |
| elsewhere | `CreateManualRun` and `RunEnds` (the Run's own life), `Crash`, `Advance` |

Abstractions. Instants are integers and every instant is a possible slot, so
"daily" recurs every `interval` instants; weekly schedules and local time are
left out. Host and database clock agree. Rows another transaction has locked,
which `SKIP LOCKED` passes over, database faults and crashes happen only while
`Disturbed`, so that progress can be asked for afterwards. The order in which a
tick visits its claims is arbitrary. Labels, project scope and the occurrence
row's own revision are left out, and so are commands with a wrong
`expected_revision`, which change nothing. A refused catalog entry or a deleted
project is `LinkRefused`. A fault inside a handler's transaction is a `Crash`. A
process identity is used again only when no claimed row carries it, as a fresh
UUID never is. The result event of a completed Run is taken to exist. A missing
linked Run is excluded by its foreign key, and `renew_claim` has no caller.

| Run | Instance | Shows |
|---|---|---|
| `Race` | two ticks, one daily Automation, crashes, faults and skip-locked rows throughout, time 0..3 | types, one Run per occurrence, one open occurrence, outcomes reported, terminal rows immutable |
| `Edits` | one tick, two Automations and a hand-made Run competing for one occurrence slot and one Run slot, all lifecycle commands up to two revisions | both capacities hold; a Run is linked only under the authority the occurrence captured |
| `Live` | two ticks, disturbances before time 2 | every due or claimed occurrence gets a Run or an outcome; ended Runs are mirrored |

Bounds. `MaxClock` = 3 with a lease and a retry delay of one instant lets a lease
expire, be reclaimed and expire again while the first owner is still in its
loop. Two revisions let an Automation be enabled and edited, paused or cancelled
around one occurrence; two Automations suffice where Automations compete, since
they interact only through the two capacities. The theorems hold for all of
these without bounds.

Fairness. `WF` on `Advance` (time passes), on `BeginTick(t)` (an external timer
starts a one-shot tick again and again: the documented way to run it) and on
`TickStep(t)` (a started process goes on until it ends or crashes). Nothing is
assumed of operators or of Runs; `Live` therefore has its one Automation left
alone after it is enabled.

## AgentRun

One Run with its steps (by ordinal), invocations (by the unique pair of step and
attempt) and result events. Workers are request handlers, scheduler
coordinators and recovery commands; a worker's memory is `pc`, `role`, the call it
is making (`at`) and the evidence it has gathered (`collected`). Between two
transactions a worker may be inside a provider or a Tool, with nothing locked.

| Code | Actions |
|---|---|
| `agent_planning/service.py` | `ClaimPlanning`, `FinalizePlan`, `FailPlanning`, `DropPlan` |
| `executor.claim_execution`, `reserve_next` | `ClaimExecution`; `ReserveNothing`, `ReserveExpired`, `ReserveInvalid`, `ReserveRefused`, `ReserveCall` |
| `executor.finalize_invocation` | `FinalizeLate`, `FinalizeStopped`, `FinalizeExpired`, `FinalizeSuccess`, `FinalizeRetry`, `FinalizeFailure` |
| `research`, `curator`, `daily_brief`, `project_watch` services | `ClaimSynthesis`, `PersistExpired`, `PersistResult`, `RejectResult` |
| `executor.complete_run` | `CompleteRun` |
| `recovery.prepare_one`, `recovery_runner.main` | `RecoverOverdue`, `RecoverRemaining`, `RecoverStale`, `RecoverAmbiguous`, then the same reserve, finalize and complete actions in the role `recovery` |
| `service.cancel_run` | `CancelRun` |
| process death, failed commits, `faults.py` | `Crash` |

The kind of the Run is all that distinguishes the agents: `manual` has no
result; `evidence` is research and memory_curator, whose synthesis looks at the
deadline and whose completion needs a result; `brief` is daily_brief and
project_watch, whose synthesis does not look at the deadline and whose result
only the coordinator asks for.

Abstractions. No state is entered twice, so the state stands for the revision.
The planning and the run deadline are both set at creation and are one constant.
`timed_out` is folded into `failed`. Whether a Tool answer is good, whether an
error is transient, and refusals for reasons outside the Run (provider
unavailable, another registry version in this process, per-Tool budgets) are
nondeterministic. Failures before the provider call (too much evidence, an
invalid change window) are `ClaimSynthesis` followed by `RejectResult`. Evidence
is the set of invocations it was read by; changes to the cited memories and
sources make `persist_result` raise, which is again `RejectResult`.
`awaiting_approval` is never entered by this code. `create_run` and its capacity
are in `AutomationScheduler`; approvals are not modelled. The branches of
`prepare_one` that report `recovery_state_invalid` are left out of `Recover`, and
`RunningIsRecoverable` shows that their conditions are never met.

The run `AgentRun` has two workers in any roles, all three kinds, up to three
steps for a budget of three calls, one retry, the deadline at 3 and time 0..4. It
shows sequential execution, steps backed by invocations, stops settled, budgets
kept by executors and recovery commands that spend from them together, terminal
rows frozen, and that every Run ends.

Bounds. With `StaleAfter` = 1 and the deadline at 3, a call can be reserved, go
stale, be discarded and retried, go stale again and still leave an instant
before the deadline. Two workers cover every race of an executor with a recovery
command, and since a crashed worker returns to `idle`, any sequence of processes.
A plan of three steps makes an unplanned retry overrun the call budget. TLC does
not look for deadlocks here: a Run that has ended with the clock at its bound
has nothing left to do.

Fairness. `WF` on `Advance`, on `Work(w)` (a process in the middle of its
transactions goes on until it finishes or dies) and on `Recover(w)`. The last one
is an assumption about the operator: recovery is an explicit command, and
`RunEnds` says what happens when somebody keeps running it, nothing more.

## Connectors

`Connectors` holds what the refresh and its scheduler share: the account rows with
their service (`ConfigureAccount`), the sync runs in order of creation, the claim
under the capacity lock (`Claim`), the running mark, `Settle` and the identity
fence.

**ConnectorSync** is `sync.refresh` and the ledger of item revisions. Each run has
one worker, `work[r]`: its place in the refresh and its locals. A check transaction
and the GitHub request after it are one step (the module says why); the validation
of the account is two, because its UPDATE names the row only by id.

| Code | Actions |
|---|---|
| `routes/connectors`, the tick | `Begin`, `Resume` (a tick takes up the run of a dead worker) |
| `refresh` | `Start`, `ReadUser`, `ReadRepository`, `ReadAccount`, `MarkValid`, `PersistRepository`, `ReadPage`, `PersistPage`, `Complete`, `EndIncomplete` |
| its failures | `Drift`, `Fail`, `HitCeiling`, `FailIdentity`, `Crash` |
| GitHub | `AddItem`, `EditItem`, `RemoveItem`, `ReplaceRepository` |

`SyncPromise` is what a reader of External Context may rely on, without pages or
checks: only an account's one open run changes what is shown of it, only a run that
closes completely infers that an item is gone, and nothing becomes unknown again.
`KeepsPromise` is the refinement: `open` is the active run, `whole` the complete
runs, `view` the latest revision of each item. The run `ConnectorSync` (one
account, one repository, three items, pages of one, two pages at most, two
successive runs, one change on GitHub, four account revisions) checks it, together
with `ConfirmedItemsSeen`, which relates what the query shows as confirmed to what a
run observed, and `MirrorsGitHub`: a complete run is exact when GitHub stands still,
and when only additions and edits come in between, it withdraws nothing that was
there. A removal shifts later items to an earlier page, so an item nobody removed
may be missed and shown stale; the property excuses exactly that.

**ConnectorSchedule** is the refresh scheduler. A tick commits four batch
transactions and then treats its claims one by one; the refresh is a step that
begins it and a step that settles the run, with everything else in between.

| Code | Actions |
|---|---|
| `schedules.py` | `CreateSchedule`, `UpdateSchedule`, `EnableSchedule`, `StopSchedule` |
| `scheduler.py`, batches | `ReclaimLinked`, `ReclaimExpired`, `Materialize`, `ClaimDue` |
| `create_and_link_sync` | `LinkNew`, `LinkOld`, `LinkRefused` |
| `validate_network_fence`, `refresh`, `finalize` | `Fence`, `RefreshBegins`, `RefreshFails`, `RefreshBroken`, `RefreshEnds`, `Finalize` |
| elsewhere | `ManualClaim`, `ManualEnd`, `EditAccount`, `Crash`, `Advance` |

`ConnectorSchedule` (two overlapping ticks, a manual refresh, account and schedule
edits, time 1..3, a lease of one instant) shows `LinkedRuns` and `RunsCapped`: neither
a crash between two transactions nor two ticks on one occurrence make a second run
or a second active one. `ConnectorLive` has `WF` on `Advance`, `StartTick` and
`TickStep`, as for the Automations, and none on manual requests, whose process may
die for good. `OccurrencesEnd` excuses what the code gives no end to: an occurrence
whose authority is gone stays `sync_created`, and a manual run left active by a dead
request blocks its account and its capacity slot.

## Calendar

The account is the sequence of its revisions, each with calendar identities of its
own, as in the tables; a refresh claims one run per calendar and reads them one
after the other. `ended` orders the runs by `completed_at`, which is what
`effective_evidence` asks for.

| Code | Actions and operators |
|---|---|
| `service.py` | `CreateAccount`, `UpdateAccount`, `SetLifecycle`, `Revoke` |
| `sync.claim`, `refresh` | `Claim`, `Authorize`, `BeginCalendar`, `FetchPage`, `WritePage`, `Seal` |
| its failures | `CredentialRefused`, `Drift`, `TransportFails`, `PageRefused`, `HitCeiling`, `Crash` |
| `query.py` | `Eligible`, `Projection`, `Covered`, `EffectiveState`, `Shown` |
| Google Calendar | `AddEvent`, `RemoveEvent`, `EditEvent` |

Times are folded into contents: `Window` says which contents fall in the window of
the n-th refresh, so that a window that slides and an event that moves out of it are
cases of the same kind, and `Floating` are the contents whose coverage the code
refuses to prove. `Calendar` (one calendar, two events, two contents, three
refreshes whose third window is narrower, three account revisions, two changes)
shows that evidence is whole (`EvidenceSound`), that nothing shown changes except
by a run that succeeds under the latest revision (`EvidenceFenced`), and that such
a run mirrors the calendar (`MirrorsCalendar`).

`CalendarFailure` (violation, two calendars). When a refresh fails before its last
calendar has begun, the transaction that fails the rest sets `completed_at` on runs
that never started; the constraint `ck_calendar_sync_completed` rolls it back, all
runs stay open, and every later refresh of that account revision is a conflict.
`docs/checkpoint-102-report.md:231` has them failed. `TypeOK` and the rest hold
because `Fail` models the rollback.

## Memories and Retrieval

A supersede request is three statements in one transaction (`LockPair`, `Classify`,
`Supersede`, with `Rollback`): `LockedBy` is what it holds FOR UPDATE, and everything
that needs such a row waits (`Free`). Creations, refinements and expirations are one
step each. An embedding job reads (`StartSingle`, `StartBatch` of one of three
kinds), is at its provider, and writes (`WriteSingle`, `WriteBatch`), unless
`ProviderFails` or the server restarts under another embedding identity (`Restart`).
The content of a Memory never changes, so an embedding is stale exactly when it was
made under another identity.

`Memories` (three Memories, two supersede requests, one job, two identities) shows
`SupersededOnce` (a Memory is superseded together with exactly one successor, active
and in its scope), `InactiveFrozen` and `BatchEmbedsActive`. The last one is about
batches only: a single request neither asks for an active row nor reads it again.

`MemoryCycle` (violation, four Memories). The ancestry of a Memory is read without
locks. Two requests that lock disjoint pairs of a chain both find no cycle, and their
two commits close one, where `docs/checkpoint-31-report.md:44` says that direct and
indirect cycles are rejected. `ExportsRestore` is its consequence: the export of that
scope passes its own checks and its import refuses it.

`Retrieval` has the pure parts: the candidate window, reciprocal rank fusion, pages,
explained pages, the evidence of an answer, and the cursor of the Capture Inbox.
`Search` asks it of the Memories that are active: `FusionAgrees` compares fusion with
its defining property (channels that agree are followed, `ChannelsFollowed`) and pages
with the whole order (`PagesJoin`), for every pair of channels over three Memories;
`WindowSuffices` and `CursorComplete` are assumptions that TLC evaluates when it starts. The window is five times `limit + offset`, at least 100 and at most
1000: it suffices up to `limit + offset` = 470 (`MaxRequested`), since a Memory just
beyond it in both channels scores 2/1061 and the last requested one at least 1/530.
Beyond that the module claims nothing, and the bound is sharp.

## Captures and Intake

A Capture is the sequence of its projections, one per revision. A request names an
element of the sequence, however old, so delayed, repeated and competing requests
are all requests with an early element. `Captures` has `CreateCapture`, `EditCapture`,
`ReassignCapture`, `Transition` (discard and restore) and `ConvertCapture`, whose
answer to a repeated request is `Answered`; `Accessible` is `source_access_clause`.

`Intake` extends it with `CreateSource`, `IngestText` (other chunk rows take the place
of the old ones and citations are set to null), extraction (`Begin`, then `Complete`,
`CompleteRefused`, `FailRun` or `Abandon` after the provider call), `Review`, `Promote`
and `LinkMemory`. Extraction runs are keyed by what `input_hash` tells apart: document,
chunks and scope. A document has one chunk and a run at most one proposal.

`Intake` (one Capture, two scopes, two texts, two Sources, two extractions in
flight, three revisions, two sets of chunks, two extraction identities) shows that
nothing is overwritten unseen (`NoLostUpdate`), that a repeated conversion is answered
with the text its client saw (`ReplayExact`), that all that is drawn from a Capture's
Source has its scope (`CaptureSealed`), that evidence is the passage the provider was
given (`EvidenceExact`), and that decisions stand (`DecisionsKept`). One Capture is
enough for TLC because Captures meet only in `Binding`; the theorems are for any number.
A run is left `pending` for ever by a crash during the call, by an error that
`_fail_run` swallows, and by an ingestion during the call; no document promises
otherwise, so no property forbids it.

Which runs look for deadlock: those of the Automations and of the Memories, which
can always go on. In the others the clients, the provider and the counters have
bounds, and a system that has used them up really has nothing left to do.

## Proofs

TLC checks the instances above; the theorems hold for every value of the constants
that satisfies the assumptions named in the modules: any number of processes, rows,
steps and revisions, any leases, budgets and deadlines. Every safety argument is an
inductive invariant, stronger than the properties it is there for, shown to be kept
by one lemma per action or group of actions.

`AutomationSchedulerProofs`:

- `TypeCorrect`: `TypeOK` is inductive.
- `TerminalImmutable` (`TerminalForever`): from types alone; `OpenStep` says that
  every action writes only open occurrences or adds new ones.
- `SingleOpen` (`SingleOpenOccurrence`) and `NextSlotAhead` (`NextAhead`), from the
  inductive invariant `SlotInv == TypeOK /\ NothingAhead /\ NextAhead /\
  SingleOpenOccurrence`. `NextAhead` alone is not inductive: a tick whose captured
  instant were ahead of the clock could record a slot beyond the next one, and a
  slot of a future schedule revision would meet an edit; `NothingAhead` excludes
  both. `QuietStep` disposes of the actions that touch neither slots nor
  schedules, `DueMeansClear` says that an Automation found due has nothing open,
  and `NextPointLater` and `DueSlot` do the arithmetic of slots.

`AutomationOutcomeProofs` continues it: every action changes the row of an
occurrence in one of three ways (it stays, it moves between states without being
linked, it is linked), and a new row is born with a slot. From `WorkInv == SlotInv /\
OneRunPerOccurrence /\ WaitingUnlinked /\ OutcomesReported /\ RetriesBounded` follow
`LinkedOneToOne` (`OneRunPerOccurrence`), `EveryOutcomeReported` (`OutcomesReported`),
`AttemptsBounded` (`RetriesBounded`), `LinksUnderAuthority` (`LinkUnderAuthority`) and
`CapsHold` (`CapacityRespected`, by counting over the finite set of keys).

`AgentRunProofs`. Every transaction changes the Run's rows by one of eight moves
(state, stop, plan, call, refuse, end, succeed, fail); `NextMoves` proves this
once, and the invariant about rows, `RowInv`, is then shown to be kept by each
move, whichever worker makes it. `RowInv` adds to the properties what they rest
on: the plan is a prefix of the ordinals, an unstarted step has no invocation,
every invocation's step was started, a second attempt comes after a finished
first one. From it follow `TypeCorrect`, `OneAtATime` (`SequentialExecution`),
`StepsBacked` (`SuccessBacked`), `Settled` (`StopsSettled`), `OutcomesNeverChange`,
`TerminalStaysFrozen` (`TerminalFrozen`), `CitationsSucceeded`, `BudgetsHold`
(`WithinBudgets`, by counting made calls and retries) and `LateEvidenceDiscarded`.
`AlwaysRecoverable` (`RunningIsRecoverable`) assumes a retry budget of 0 or 1: the
code sets 1, and since a second retry of a step does not exist, recovery with
more would leave a running step with nothing left to try. `CompletionEarned` needs a
second invariant, `ResultInv`: at most one worker ever executes, only that one is in
synthesis, and there is no result before it has persisted its own.

`ConnectorSyncProofs`: `SyncTypes` (`TypeOK`), `OneActiveRun`, and `RefreshKeepsPromise`,
the refinement: `Spec => Promise!PromiseSpec`. The initial states map to the initial
state, and each step to `Open`, `Show`, `CloseComplete`, `CloseOther` or a stutter. What
it needs is `SyncInv`: a worker that is not done holds an active run, an active run is
not complete, and an account has one active run, so that the mapped `open` is a
function of the tables. Two more layers rest on it:

- `Ledger` says what the item ledger knows of the past. `InOrder`: runs are inserted in
  order and an account's active run is its newest. `LastKnown`: a scope with complete
  runs has a last one. `Told`: while the latest revision of an item
  says current, the last complete run of its scope observed the item or came before the
  revision; once it says stale, a complete run came no earlier. `ConfirmedItemsSeen`
  alone is not inductive, since completing a run moves what an item is confirmed by.
  `ConfirmedSeen` states it for every ledger.
- `Readings` says what a worker in the middle of its pages knows. `Ahead`: while GitHub
  removed nothing, an item that was there at the start was observed, is on the page in
  hand, or is listed after the pages read so far; a position in the list can only grow
  by insertions, never shrink. `Faithful`: while nothing changed, what was read is what
  GitHub says. `Newest` and `PageNew` keep versions from running backwards. At the end no
  page is left, so nothing can be ahead: `GitHubMirrored` (`MirrorsGitHub`).

`CalendarProofs`: the invariant has four layers. `Shapes` types every variable. `Control`
says where workers stand: a working refresh holds an enabled revision and a sequence of
distinct calendars whose runs are active, it is inside at most the first of them, and a
run on record as ended is over. `Whole` says what a run has written: its count is that of
its observations, each of a revision that exists, and evidence goes with success. `Readings`
(`Follows(n)` for every refresh) is the counterpart of the connectors' layer, over the
occurrences that fall in the window: `Ahead` while the calendar lost nothing, `Faithful`
while it did not change at all. A page is cut from the filtered list of the window, so
places are counted rather than followed (`Rank`, `PlacesIn`), and that the count reaches
every place is an argument by the least counterexample. What a reader is shown depends on the
newest run on record that covers an event, hence the action lemmas `EventsGrow`,
`EndedGrows` and `OverKept`: tables only grow, and a run that is over keeps its row and
observations. The theorems are `CalendarTypes` (`TypeOK`), `EvidenceWhole`
(`EvidenceSound`), `FencedEvidence` (`EvidenceFenced`) and `CalendarMirrored`
(`MirrorsCalendar`).

`ConnectorScheduleProofs`: `ScheduleInv` joins the shapes of the tables with three facts
that make `LinkedRuns` and `RunsCapped` inductive. `SchedulesSound`: a cached next slot
fits the definition it was computed from, so that a due schedule records a slot in the
past (`DueSlot`). `RunsExist`: the run of an occurrence was made for it. `WithRun`: a tick
past the fence has an occurrence with a run, and a refresh under way is of that run, even
after another tick took the occurrence over; the occurrence may have ended meanwhile, its
link has not moved. Every step but a claim treats runs as `RunsKept` says (none becomes
active again, by `ck_connector_sync_runs_completion`) and links as `LinksKept`. The
theorems are `ScheduleTypes` (`TypeOK`), `OneRunPerRefresh` (`LinkedRuns`) and
`SyncsCapped` (`RunsCapped`).

`MemoriesProofs`: `MemoryInv == TypeOK /\ LocksSound` says that the pairs held by two
requests are disjoint and real, and that what a request decided on its locked rows is
still true when it commits. From it follow `MemoryTypes` (`TypeOK`), `SupersededWithOne`
(`SupersededOnce`), `InactiveStaysFrozen` (`InactiveFrozen`) and `BatchesEmbedActive`
(`BatchEmbedsActive`). The cycle of `MemoryCycle` is no contradiction: the ancestry is
just what the locks do not cover.

It also proves what `Retrieval` and `Search` promise. `WindowReaches` is `WindowSuffices` up
to its bound. `CursorSplits` (every row but the cursor's own lies either before the cursor
or behind it) and `CursorAdvances` (following cursors never comes back) are about the
order alone. Listings are defined by counting (the i-th member is the one with i - 1 before
it), so the rest needs no recursion: `Counted` shows that counting numbers the members of a
finite, totally ordered set without a gap, `SortedOnce` that there is one such listing and
`FollowingSorts` that any listing which follows the order is that one. Hence
`CursorsComplete` (`CursorComplete`, for listings of any length and pages of any size).
Fused scores are fractions, and `ReachesThrough` and `PlusAbove` make the `ORDER BY` of
hybrid search a total order (`FusionOrdered`); filtering and cutting a channel keep the
ranks' order (`KeptThins`, `FirstThins`), so that `EvidenceRanked` (`ChannelsFollowed`) holds
for any set of active Memories and channels of any length, cut by the window or not.
`PagesOneOrder` (`PagesJoin`) and with it `SearchAgrees` (`FusionAgrees`) assume that a search
finds at most 100 Memories. The assumption is needed: the window is at least 100 but
grows with the offset, so that of longer channels a later page may rank Memories
whose other half an earlier page's window had cut off, and its pages need not join.

`IntakeProofs`: `IntakeInv` joins the shapes of the rows, `WorkersHold` (a worker at its
provider holds a run no other worker holds), `RunsWhole` (a run's citation and review
fit its status), `Converted` and `Sealed` (a Source made by a conversion belongs to one
Capture and holds its text) with `NoLostUpdate` and `EvidenceExact`. Every step of a
Capture appends one projection (`Follows`). The theorems are `IntakeTypes`,
`NothingOverwritten`, `EvidenceStays`, `RepliesExact`, `CapturesSealed` and
`DecisionsFinal`.

Model-checked only, and why:

- liveness under fairness (`OccurrencesProgress`, `EndedRunsMirrored`, `RunEnds`,
  `OccurrencesEnd`), which with ENABLED is beyond the prover;
- `FailuresSettle` and `ExportsRestore`, which the code violates. Of the pages of a search
  that finds more than 100 Memories nothing is claimed.

Every safety invariant, action property and refinement that a passing run checks is also a
theorem. Induction over data is not available (the library's induction theorems take an
operator as a parameter), so no module computes by recursion what a theorem speaks of:
lists are cut, filtered and put in order by counting, and statements about every place of a
list come from bijections with an interval or from a least counterexample.

## Where code and documents disagree

Two disagreements are shown by runs, `CalendarFailure` and `MemoryCycle` above.
Others were met while modelling and have none, because the modules follow the code
and a property on the document's side would only restate one line of it:

- `app/automations/scheduler.py:515` (`fail_closed`) compares neither the owner nor the
  generation of a claim, as `docs/V1_3_AUTOMATION_THREAT_MODEL.md:47` says every mutation
  does: a tick that lost its lease may fail the occurrence its new owner holds.
- `app/repositories/automations.py:172`: an edited Automation's due occurrence is not
  claimable and nothing settles it; the threat model, line 46, has it cancelled or failed.
- `docs/V1_3_AUTOMATION_ROADMAP.md:139` has cancellation sweep unclaimed occurrences;
  `app/automations/service.py:313` changes only the Automation.
- `claim_synthesis` expires a Run by its state alone, so that a recovery command's
  running step and call stay behind; `docs/checkpoint-67-report.md:20` has deadlines
  reconcile them.
- `_persist` of daily_brief and project_watch does not look at the run deadline: a result
  returned after it is kept, where `docs/AGENT_THREAT_MODEL.md:42` has it discarded.
- `app/connectors/sync.py:366` settles a run without asking for the lease: overlapping
  refreshes of one run overwrite each other's outcome (`docs/checkpoint-94-report.md:47`).
- `models/external_item_import.py` calls the provenance of an imported item immutable,
  while its document may be ingested again.

## Not modelled

- *Google OAuth and credentials*: input and output with a one-shot state; the modules let
  a credential be there or missing at every request.
- *Context Hub, operations, diagnostics, frontend*: they read. *Projects*: single rows.
  *Core, database*: configuration; transaction boundaries are the modules' actions.
- *Approvals*: their review is one locked transaction that compares a digest, and nothing
  executes a decision.
- Within the modelled components: the connector part of an Automations tick other than its
  own module; marking a notice read; weekly and interval slots in local time; replay of a
  create request by idempotency key; validation of claims, citations and proposals;
  normalization of provider times and of text; the SQL ranking of one channel; the archive
  format of a project bundle and its other tables; items imported as Sources; uniqueness
  of a calendar across accounts (read without a lock, with no constraint).
- Lock waits inside a transaction, except those of superseding: two transactions that
  lock in opposite orders are aborted by the database, which appears as a fault.
