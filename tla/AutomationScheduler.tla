------------------------ MODULE AutomationScheduler ------------------------
(***************************************************************************)
(* The Automation scheduler of Second Brain (app/automations).             *)
(*                                                                         *)
(* Operators edit Automations through the lifecycle service; scheduler     *)
(* processes run one-shot ticks against the same PostgreSQL database.  A   *)
(* tick captures database time once, then commits a series of short        *)
(* transactions: reconcile, reclaim, materialize, claim, and one link      *)
(* transaction per claim, each followed by its error handler when it       *)
(* fails.  Every action below is one committed transaction (or one         *)
(* rollback), so ticks, operators, Runs, crashes and the clock interleave  *)
(* between transactions and nowhere else.                                  *)
(*                                                                         *)
(* An integer instant stands for a UTC timestamp; every instant is a       *)
(* possible schedule slot.                                                 *)
(***************************************************************************)
EXTENDS Integers, Sequences, FiniteSets

CONSTANTS
    Automations,          \* Automation rows the operator may create
    Ticks,                \* concurrent tick processes; each stands for its owner token
    Schedules,            \* schedule definitions an operator may choose
    Modes,                \* execution modes in use
    Policies,             \* missed-run policies in use
    RetryLimits,          \* values of Automation.retry_limit
    MaxBatchSize,         \* automation_scheduler_batch_size
    MaxActiveOccurrences, \* MAX_ACTIVE_OCCURRENCES
    MaxActiveRuns,        \* MAX_ACTIVE_RUNS
    MaxSetupAttempts,     \* MAX_SETUP_ATTEMPTS
    Lease,                \* lease_duration, in instants
    RetryDelay,           \* retry_delay, in instants
    MaxClock,             \* bound: the clock stops here
    MaxRevision,          \* bound: operator edits stop at this revision
    MaxManualRuns,        \* bound: Runs created by hand
    DisturbUntil          \* bound: crashes, database faults and lock contention stop here

ASSUME ConstantsAssumption ==
    /\ IsFiniteSet(Automations)
    /\ \A s \in Schedules : \/ s \in [kind : {"one_time"}, at : Nat \ {0}]
                            \/ s \in [kind : {"daily"}, interval : Nat \ {0}]
    /\ Modes # {} /\ Modes \subseteq {"create_only", "automatic_read_only"}
    /\ Policies # {} /\ Policies \subseteq {"skip", "run_once"}
    /\ Schedules # {}
    /\ RetryLimits # {} /\ RetryLimits \subseteq Nat
    /\ MaxBatchSize \in Nat \ {0} /\ MaxSetupAttempts \in Nat \ {0}
    /\ MaxActiveOccurrences \in Nat /\ MaxActiveRuns \in Nat
    /\ Lease \in Nat \ {0} /\ RetryDelay \in Nat \ {0}
    /\ MaxClock \in Nat /\ MaxRevision \in Nat
    /\ MaxManualRuns \in Nat /\ DisturbUntil \in Nat

VARIABLES
    clock,   \* database time
    auto,    \* automations table
    occ,     \* automation_occurrences table, keyed by its unique slot
    runs,    \* agent_runs table, in creation order
    notif,   \* automation_notifications, by (occurrence, event kind) dedup key
    pc,      \* where each tick process is
    now,     \* operation_time, captured once at tick start
    claims,  \* all_claims of the tick
    work,    \* claims its current loop has still to visit
    cur      \* occurrence the open handler is about

tickVars == <<pc, now, claims, work, cur>>
dbVars   == <<auto, occ, runs, notif>>
vars     == <<clock, auto, occ, runs, notif, pc, now, claims, work, cur>>

-----------------------------------------------------------------------------
(* Rows and identities.                                                    *)

None   == 0      \* a null timestamp, run id, attempt or owner-less lease
NoKey  == <<>>   \* no occurrence
Nobody == "nobody"

\* UNIQUE (automation_id, schedule_revision, scheduled_at).
Keys == Automations \X (0..MaxRevision) \X (1..MaxClock)
AutomationOf(k) == k[1]
SchedRevOf(k)   == k[2]
SlotOf(k)       == k[3]

Open     == {"due", "claimed", "run_created"}
Terminal == {"completed", "missed", "failed", "cancelled"}
OccurrenceStates == Open \cup Terminal
Lifecycles == {"absent", "draft", "enabled", "paused", "cancelled"}
RunOutcomes == {"completed", "failed", "stopped"}  \* stopped: cancelled or expired
EventKinds == {"occurrence_missed", "occurrence_failed", "run_completed",
               "capacity_delayed", "retry_exhausted"}

Disturbed == clock < DisturbUntil

RunsOf(k)  == {i \in DOMAIN runs : runs[i].key = k}
ActiveRuns == {i \in DOMAIN runs : runs[i].state = "active"}
ActiveOccurrences == {k \in DOMAIN occ : occ[k].state \in {"claimed", "run_created"}}

-----------------------------------------------------------------------------
(* Schedule arithmetic.                                                    *)

\* First slot strictly after t, with no prior slot to advance from.
NextPoint(schedule, t) ==
    IF schedule.kind = "daily" THEN t + 1
    ELSE IF schedule.at > t THEN schedule.at ELSE None

\* Latest canonical slot at or before t, advancing from the cached next slot.
LatestDue(a, t) ==
    LET next == auto[a].next
        schedule == auto[a].schedule
    IN IF schedule.kind = "daily" THEN t - ((t - next) % schedule.interval)
       ELSE next

\* The slot after LatestDue: strictly in the future of t.
Following(a, t) ==
    IF auto[a].schedule.kind = "daily"
    THEN LatestDue(a, t) + auto[a].schedule.interval
    ELSE None

-----------------------------------------------------------------------------
(* Row selection: SELECT ... ORDER BY ... LIMIT n FOR UPDATE SKIP LOCKED.  *)
(* Rows another transaction holds are skipped, so while the system is      *)
(* disturbed any part of the eligible rows may be invisible.               *)

Smaller(m, n) == IF m <= n THEN m ELSE n

Batches(eligible, limit, rank) ==
    UNION {{S \in SUBSET seen :
              /\ Cardinality(S) = Smaller(limit, Cardinality(seen))
              /\ \A x \in S, y \in seen \ S : rank[x] <= rank[y]} :
           seen \in IF Disturbed THEN SUBSET eligible ELSE {eligible}}

BySlot   == [k \in DOMAIN occ |-> SlotOf(k)]
ByExpiry == [k \in DOMAIN occ |-> occ[k].expires]
ByNext   == [a \in Automations |-> auto[a].next]

\* Faulty variant: the NOT EXISTS clause on open occurrences is dropped.
DueDespiteOpen(t) ==
    {a \in Automations :
        /\ auto[a].lifecycle = "enabled"
        /\ auto[a].next # None /\ auto[a].next <= t}

DueAutomations(t) ==
    {a \in Automations :
        /\ auto[a].lifecycle = "enabled"
        /\ auto[a].next # None /\ auto[a].next <= t
        /\ \A k \in DOMAIN occ :
              AutomationOf(k) = a /\ occ[k].state \in Open
                => SchedRevOf(k) = auto[a].schedRev /\ SlotOf(k) = auto[a].next}

Claimable(t) ==
    {k \in DOMAIN occ :
        /\ occ[k].state = "due" /\ SlotOf(k) <= t /\ occ[k].retryAt <= t
        /\ auto[AutomationOf(k)].lifecycle = "enabled"
        /\ auto[AutomationOf(k)].revision = occ[k].autoRev
        /\ auto[AutomationOf(k)].schedRev = SchedRevOf(k)}

\* Faulty variant: nothing is ever reclaimed.
NoClaims(t) == {}

ExpiredClaims(t) ==
    {k \in DOMAIN occ : /\ occ[k].state = "claimed" /\ occ[k].expires <= t
                        /\ occ[k].run = None}

\* Faulty variant: only rows still claimed are reconciled.
LinkedClaimed ==
    {k \in DOMAIN occ : occ[k].run # None /\ occ[k].state = "claimed"}

LinkedOpen ==
    {k \in DOMAIN occ : occ[k].run # None /\ occ[k].state \in {"claimed", "run_created"}}

-----------------------------------------------------------------------------
(* Initial state: an empty database and no tick running.                   *)

NoAutomation ==
    [lifecycle |-> "absent", revision |-> 0, schedRev |-> 0, next |-> None,
     schedule |-> CHOOSE s \in Schedules : TRUE, mode |-> CHOOSE m \in Modes : TRUE,
     policy |-> CHOOSE p \in Policies : TRUE, retryLimit |-> CHOOSE n \in RetryLimits : TRUE]

Init ==
    /\ clock = 0
    /\ auto = [a \in Automations |-> NoAutomation]
    /\ occ = <<>>
    /\ runs = <<>>
    /\ notif = {}
    /\ pc = [t \in Ticks |-> "idle"]
    /\ now = [t \in Ticks |-> 0]
    /\ claims = [t \in Ticks |-> {}]
    /\ work = [t \in Ticks |-> {}]
    /\ cur = [t \in Ticks |-> NoKey]

-----------------------------------------------------------------------------
(* Operator commands: app/automations/service.py.  Each locks the row and  *)
(* compares expected_revision; a stale revision changes nothing.           *)

Edit(a, row) ==
    /\ auto' = [auto EXCEPT ![a] = row]
    /\ UNCHANGED <<clock, occ, runs, notif, tickVars>>

Revised(a) == [auto[a] EXCEPT !.revision = @ + 1]

CreateAutomation(a) ==
    /\ auto[a].lifecycle = "absent"
    /\ \E s \in Schedules, m \in Modes, p \in Policies, n \in RetryLimits :
          Edit(a, [NoAutomation EXCEPT !.lifecycle = "draft", !.schedule = s,
                                       !.mode = m, !.policy = p, !.retryLimit = n])

\* A label edit is legal in every lifecycle but cancelled.
UpdateLabel(a) ==
    /\ auto[a].lifecycle \in {"draft", "enabled", "paused"}
    /\ auto[a].revision < MaxRevision
    /\ Edit(a, Revised(a))

\* Policy and retry edits need draft or paused and leave the schedule alone.
UpdateDefinition(a) ==
    /\ auto[a].lifecycle \in {"draft", "paused"}
    /\ auto[a].revision < MaxRevision
    /\ \E p \in Policies, n \in RetryLimits :
          Edit(a, [Revised(a) EXCEPT !.policy = p, !.retryLimit = n])

\* A schedule edit starts a new schedule revision; a paused row recomputes its slot.
UpdateSchedule(a) ==
    /\ auto[a].lifecycle \in {"draft", "paused"}
    /\ auto[a].revision < MaxRevision
    /\ \E s \in Schedules :
          LET point == NextPoint(s, clock)
          IN /\ auto[a].lifecycle = "paused" => point # None
             /\ Edit(a, [Revised(a) EXCEPT
                           !.schedule = s, !.schedRev = @ + 1,
                           !.next = IF auto[a].lifecycle = "paused" THEN point ELSE None])

SetExecutionMode(a) ==
    /\ auto[a].lifecycle \in {"draft", "enabled", "paused"}
    /\ auto[a].revision < MaxRevision
    /\ \E m \in Modes : Edit(a, [Revised(a) EXCEPT !.mode = m])

\* Enable and resume both compute the next slot from the current instant.
Activate(a, from) ==
    LET point == NextPoint(auto[a].schedule, clock)
    IN /\ auto[a].lifecycle = from
       /\ auto[a].revision < MaxRevision
       /\ point # None
       /\ Edit(a, [Revised(a) EXCEPT !.lifecycle = "enabled", !.next = point])

EnableAutomation(a) == Activate(a, "draft")
ResumeAutomation(a) == Activate(a, "paused")

PauseAutomation(a) ==
    /\ auto[a].lifecycle = "enabled"
    /\ auto[a].revision < MaxRevision
    /\ Edit(a, [Revised(a) EXCEPT !.lifecycle = "paused"])

CancelAutomation(a) ==
    /\ auto[a].lifecycle \in {"draft", "enabled", "paused"}
    /\ auto[a].revision < MaxRevision
    /\ Edit(a, [Revised(a) EXCEPT !.lifecycle = "cancelled", !.next = None])

Operator(a) ==
    \/ CreateAutomation(a) \/ UpdateLabel(a) \/ UpdateDefinition(a)
    \/ UpdateSchedule(a) \/ SetExecutionMode(a) \/ EnableAutomation(a)
    \/ PauseAutomation(a) \/ ResumeAutomation(a) \/ CancelAutomation(a)

-----------------------------------------------------------------------------
(* Rows written by the scheduler.                                          *)

NewOccurrence(a) ==
    [state |-> IF auto[a].policy = "skip" THEN "missed" ELSE "due",
     autoRev |-> auto[a].revision, mode |-> auto[a].mode,
     owner |-> Nobody, gen |-> 0, expires |-> None,
     retryAt |-> None, attempts |-> 0, deferred |-> FALSE, run |-> None]

Granted(t, k) ==
    [occ[k] EXCEPT !.state = "claimed", !.owner = t, !.gen = @ + 1,
                   !.expires = now[t] + Lease]

\* Back to due with the lease cleared; deferred marks disposition capacity_deferred.
Released(t, k) ==
    [occ[k] EXCEPT !.state = "due", !.owner = Nobody, !.expires = None,
                   !.retryAt = now[t] + RetryDelay]

Failed(k) == [occ[k] EXCEPT !.state = "failed", !.retryAt = None, !.deferred = FALSE]

ClaimOn(k) == [key |-> k, gen |-> occ[k].gen + 1]

\* Faulty variant: the slot recorded is the one after the due one.
SlotKeyAhead(a, t) == <<a, auto[a].schedRev, Following(a, t)>>

SlotKey(a, t) == <<a, auto[a].schedRev, LatestDue(a, t)>>

-----------------------------------------------------------------------------
(* reconcile_linked: project durable Run state into open occurrences.      *)

Mirror(k) ==
    [occ[k] EXCEPT !.state =
        CASE runs[occ[k].run].state = "active"    -> "run_created"
          [] runs[occ[k].run].state = "completed" -> "completed"
          [] OTHER                                -> "failed"]

\* Faulty variant: cancelled and expired Runs raise no notice.
MirrorNoticesFailedOnly(S) ==
    {<<k, "run_completed">> : k \in {x \in S : runs[occ[x].run].state = "completed"}}
    \cup
    {<<k, "occurrence_failed">> : k \in {x \in S : runs[occ[x].run].state = "failed"}}

MirrorNotices(S) ==
    {<<k, "run_completed">> : k \in {x \in S : runs[occ[x].run].state = "completed"}}
    \cup
    {<<k, "occurrence_failed">> :
        k \in {x \in S : runs[occ[x].run].state \in {"failed", "stopped"}}}

Reconcile(limit) ==
    \E S \in Batches(LinkedOpen, limit, BySlot) :
        /\ occ' = [k \in DOMAIN occ |-> IF k \in S THEN Mirror(k) ELSE occ[k]]
        /\ notif' = notif \cup MirrorNotices(S)
        /\ UNCHANGED <<auto, runs>>

-----------------------------------------------------------------------------
(* The phases of run_one_tick, one committed transaction each.             *)

\* The owner token is a fresh uuid: no claimed row may carry it.
BeginTick(t) ==
    /\ pc[t] = "idle"
    /\ \A k \in DOMAIN occ : occ[k].state = "claimed" => occ[k].owner # t
    /\ now' = [now EXCEPT ![t] = clock]
    /\ pc' = [pc EXCEPT ![t] = "reclaim"]
    /\ Reconcile(MaxBatchSize)
    /\ UNCHANGED <<clock, claims, work, cur>>

ReclaimExpired(t) ==
    /\ pc[t] = "reclaim"
    /\ \E S \in Batches(ExpiredClaims(now[t]), MaxBatchSize, ByExpiry) :
          /\ occ' = [k \in DOMAIN occ |-> IF k \in S THEN Granted(t, k) ELSE occ[k]]
          /\ claims' = [claims EXCEPT ![t] = {ClaimOn(k) : k \in S}]
    /\ pc' = [pc EXCEPT ![t] = "materialize"]
    /\ UNCHANGED <<clock, auto, runs, notif, now, work, cur>>

\* Insert the latest due slot and advance next_occurrence_at in one transaction.
MaterializeDue(t) ==
    /\ pc[t] = "materialize"
    /\ \E S \in Batches(DueAutomations(now[t]), MaxBatchSize, ByNext) :
          LET slots == {SlotKey(a, now[t]) : a \in S}
          IN /\ occ' = [k \in DOMAIN occ \cup slots |->
                          IF k \in DOMAIN occ THEN occ[k]
                          ELSE NewOccurrence(AutomationOf(k))]
             /\ auto' = [a \in Automations |->
                           IF a \in S THEN [auto[a] EXCEPT !.next = Following(a, now[t])]
                           ELSE auto[a]]
             /\ notif' = notif \cup {<<SlotKey(a, now[t]), "occurrence_missed">> :
                                      a \in {x \in S : auto[x].policy = "skip"}}
    /\ pc' = [pc EXCEPT ![t] = "claim"]
    /\ UNCHANGED <<clock, runs, now, claims, work, cur>>

\* Faulty variant: linked occurrences are not counted.
RoomClaimedOnly ==
    LET claimed == Cardinality({k \in DOMAIN occ : occ[k].state = "claimed"})
    IN IF claimed < MaxActiveOccurrences THEN MaxActiveOccurrences - claimed ELSE 0

\* Claims and capacity count are serialized by an advisory lock.
Room == IF Cardinality(ActiveOccurrences) < MaxActiveOccurrences
        THEN MaxActiveOccurrences - Cardinality(ActiveOccurrences) ELSE 0

ClaimDue(t) ==
    /\ pc[t] = "claim"
    /\ \E S \in Batches(Claimable(now[t]), Smaller(MaxBatchSize, Room), BySlot) :
          LET all == claims[t] \cup {ClaimOn(k) : k \in S}
          IN /\ occ' = [k \in DOMAIN occ |-> IF k \in S THEN Granted(t, k) ELSE occ[k]]
             /\ claims' = [claims EXCEPT ![t] = all]
             /\ work' = [work EXCEPT ![t] = all]
    /\ pc' = [pc EXCEPT ![t] = "link"]
    /\ UNCHANGED <<clock, auto, runs, notif, now, cur>>

-----------------------------------------------------------------------------
(* create_and_link_run for one claim.                                      *)

AlreadyLinked(k) == occ[k].state = "run_created" /\ occ[k].run # None

\* Lease fence: exact live owner and generation, by the tick's captured time.
HoldsLease(t, c) ==
    /\ occ[c.key].state = "claimed"
    /\ occ[c.key].owner = t /\ occ[c.key].gen = c.gen
    /\ occ[c.key].expires > now[t]

\* Faulty variant: the captured automation_revision is not compared.
SameAuthorityAnyRevision(k) ==
    LET a == AutomationOf(k)
    IN /\ auto[a].lifecycle = "enabled"
       /\ auto[a].schedRev = SchedRevOf(k)
       /\ auto[a].mode = occ[k].mode

\* Authority fence: the Automation still is what the occurrence captured.
SameAuthority(k) ==
    LET a == AutomationOf(k)
    IN /\ auto[a].lifecycle = "enabled"
       /\ auto[a].revision = occ[k].autoRev
       /\ auto[a].schedRev = SchedRevOf(k)
       /\ auto[a].mode = occ[k].mode

ValidClaim(t, c) == HoldsLease(t, c) /\ SameAuthority(c.key)

\* Exact replay of the idempotency key wins before capacity.
RunAvailable(k) == RunsOf(k) # {} \/ Cardinality(ActiveRuns) < MaxActiveRuns

Visit(t, c, where, key) ==
    /\ pc[t] = "link" /\ c \in work[t]
    /\ work' = [work EXCEPT ![t] = @ \ {c}]
    /\ pc' = [pc EXCEPT ![t] = where]
    /\ cur' = [cur EXCEPT ![t] = key]
    /\ UNCHANGED <<clock, now, claims>>

LinkReplay(t, c) ==
    /\ AlreadyLinked(c.key)
    /\ Visit(t, c, "link", NoKey)
    /\ UNCHANGED dbVars

\* Faulty variant: the Run is committed by itself, before the link.
CreateWithoutLink(k) ==
    /\ runs' = Append(runs, [key |-> k, state |-> "active"])
    /\ UNCHANGED <<auto, occ, notif>>

\* Create (or replay) the Run and link it; both commit together.
CreateAndLink(k) ==
    LET new == RunsOf(k) = {}
        id  == IF new THEN Len(runs) + 1 ELSE CHOOSE i \in RunsOf(k) : TRUE
    IN /\ runs' = IF new THEN Append(runs, [key |-> k, state |-> "active"]) ELSE runs
       /\ occ' = [occ EXCEPT ![k].run = id, ![k].state = "run_created",
                             ![k].deferred = FALSE]
       /\ UNCHANGED <<auto, notif>>

LinkRun(t, c) ==
    /\ ~AlreadyLinked(c.key) /\ ValidClaim(t, c) /\ RunAvailable(c.key)
    /\ CreateAndLink(c.key)
    /\ \/ Visit(t, c, "link", NoKey)
       \/ Disturbed /\ Visit(t, c, "recheck", c.key)  \* acknowledgement lost

\* The commit failed without taking effect.
LinkCommitLost(t, c) ==
    /\ Disturbed
    /\ ~AlreadyLinked(c.key) /\ ValidClaim(t, c) /\ RunAvailable(c.key)
    /\ Visit(t, c, "recheck", c.key)
    /\ UNCHANGED dbVars

\* AgentRunCapacityError: rolled back, to be deferred in a new transaction.
LinkOverCapacity(t, c) ==
    /\ ~AlreadyLinked(c.key) /\ ValidClaim(t, c) /\ ~RunAvailable(c.key)
    /\ Visit(t, c, "capacity", c.key)
    /\ UNCHANGED dbVars

\* ClaimFenceError is not retryable: rolled back, to be failed closed.
LinkFenced(t, c) ==
    /\ ~AlreadyLinked(c.key) /\ ~ValidClaim(t, c)
    /\ Visit(t, c, "fail", c.key)
    /\ UNCHANGED dbVars

\* A serialization, deadlock or connection error: rolled back, to be retried.
LinkTransient(t, c) ==
    /\ Disturbed
    /\ Visit(t, c, "retry", c.key)
    /\ UNCHANGED dbVars

\* Scope or catalog validation fails under a valid claim.
LinkRefused(t, c) ==
    /\ Disturbed
    /\ ~AlreadyLinked(c.key) /\ ValidClaim(t, c)
    /\ Visit(t, c, "fail", c.key)
    /\ UNCHANGED dbVars

-----------------------------------------------------------------------------
(* Error handlers: a new transaction after the rollback.  They look only   *)
(* at the occurrence, not at the claim's owner or generation.              *)

Handled(t) ==
    /\ pc' = [pc EXCEPT ![t] = "link"]
    /\ cur' = [cur EXCEPT ![t] = NoKey]
    /\ UNCHANGED <<clock, now, claims, work>>

\* Faulty variant: the claimed state is not checked again.
CanDeferAnyState(k) == occ[k].run = None

CanDefer(k) == occ[k].run = None /\ occ[k].state = "claimed"

DeferCapacity(t) ==
    LET k == cur[t]
    IN /\ pc[t] = "capacity"
       /\ CanDefer(k)
       /\ occ' = [occ EXCEPT ![k] = [Released(t, k) EXCEPT !.deferred = TRUE]]
       /\ notif' = notif \cup (IF occ[k].deferred THEN {<<k, "capacity_delayed">>} ELSE {})
       /\ UNCHANGED <<auto, runs>>
       /\ Handled(t)

AttemptLimit(k) == Smaller(auto[AutomationOf(k)].retryLimit, MaxSetupAttempts)

DeferRetry(t) ==
    LET k == cur[t]
        exhausted == occ[k].attempts + 1 >= AttemptLimit(k)
        row == IF exhausted THEN Failed(k) ELSE [Released(t, k) EXCEPT !.deferred = FALSE]
    IN /\ pc[t] = "retry"
       /\ CanDefer(k)
       /\ occ' = [occ EXCEPT ![k] = [row EXCEPT !.attempts = @ + 1]]
       /\ notif' = notif \cup (IF exhausted THEN {<<k, "retry_exhausted">>} ELSE {})
       /\ UNCHANGED <<auto, runs>>
       /\ Handled(t)

FailClosed(t) ==
    LET k == cur[t]
    IN /\ pc[t] = "fail"
       /\ occ[k].run = None
       /\ IF occ[k].state \in Terminal THEN UNCHANGED <<occ, notif>>
          ELSE /\ occ' = [occ EXCEPT ![k] = Failed(k)]
               /\ notif' = notif \cup {<<k, "occurrence_failed">>}
       /\ UNCHANGED <<auto, runs>>
       /\ Handled(t)

\* A fresh durable read after an unacknowledged commit.
Recheck(t) ==
    /\ pc[t] = "recheck"
    /\ IF AlreadyLinked(cur[t]) THEN Handled(t)
       ELSE /\ pc' = [pc EXCEPT ![t] = "fail"]
            /\ UNCHANGED <<clock, now, claims, work, cur>>
    /\ UNCHANGED dbVars

Stop(t) ==
    /\ pc' = [pc EXCEPT ![t] = "idle"]
    /\ now' = [now EXCEPT ![t] = 0]
    /\ claims' = [claims EXCEPT ![t] = {}]
    /\ work' = [work EXCEPT ![t] = {}]
    /\ cur' = [cur EXCEPT ![t] = NoKey]
    /\ UNCHANGED <<clock, dbVars>>

\* AmbiguousSchedulerOutcomeError escapes run_one_tick: the process ends.
AbortTick(t) ==
    /\ \/ pc[t] \in {"capacity", "retry"} /\ ~CanDefer(cur[t])
       \/ pc[t] = "fail" /\ occ[cur[t]].run # None
    /\ Stop(t)

-----------------------------------------------------------------------------
(* Automatic coordination: coordinator.py, once per claim of the tick.     *)

LinksDone(t) ==
    /\ pc[t] = "link" /\ work[t] = {}
    /\ pc' = [pc EXCEPT ![t] = "coordinate"]
    /\ work' = [work EXCEPT ![t] = claims[t]]
    /\ UNCHANGED <<clock, dbVars, now, claims, cur>>

\* _eligible_linked_run; the project and registry checks never change here.
Eligible(k) ==
    /\ occ[k].run # None
    /\ SameAuthority(k)
    /\ occ[k].mode = "automatic_read_only"
    /\ occ[k].state \in {"run_created", "completed", "failed"}
    /\ runs[occ[k].run].state # "stopped"

\* The locks are released here, before any planning or execution.
Coordinate(t, c) ==
    /\ pc[t] = "coordinate" /\ c \in work[t]
    /\ work' = [work EXCEPT ![t] = @ \ {c}]
    /\ IF Eligible(c.key)
       THEN /\ pc' = [pc EXCEPT ![t] = "drive"]
            /\ cur' = [cur EXCEPT ![t] = c.key]
       ELSE UNCHANGED <<pc, cur>>
    /\ UNCHANGED <<clock, dbVars, now, claims>>

\* Plan and execute through the Agent Run services, which may also raise.
Drive(t) ==
    LET i == occ[cur[t]].run
    IN /\ pc[t] = "drive"
       /\ \E s \in IF runs[i].state = "active" THEN {"active"} \cup RunOutcomes
                    ELSE {runs[i].state} :
             runs' = [runs EXCEPT ![i].state = s]
       /\ \/ pc' = [pc EXCEPT ![t] = "settle"]
          \/ pc' = [pc EXCEPT ![t] = "coordinate"]
       /\ UNCHANGED <<clock, auto, occ, notif, now, claims, work, cur>>

\* reconcile_linked(limit=1): the oldest linked row, whichever that is.
Settle(t) ==
    /\ pc[t] = "settle"
    /\ Reconcile(1)
    /\ pc' = [pc EXCEPT ![t] = "coordinate"]
    /\ UNCHANGED <<clock, now, claims, work, cur>>

EndTick(t) ==
    /\ pc[t] = "coordinate" /\ work[t] = {}
    /\ Stop(t)

\* The process dies between two transactions; the database keeps its rows.
Crash(t) ==
    /\ pc[t] # "idle" /\ Disturbed
    /\ Stop(t)

-----------------------------------------------------------------------------
(* The rest of the system: the clock, Runs started by hand, Runs ending.   *)

Advance ==
    /\ clock < MaxClock
    /\ clock' = clock + 1
    /\ UNCHANGED <<dbVars, tickVars>>

ManualRuns == RunsOf(NoKey)

CreateManualRun ==
    /\ Cardinality(ManualRuns) < MaxManualRuns
    /\ Cardinality(ActiveRuns) < MaxActiveRuns
    /\ runs' = Append(runs, [key |-> NoKey, state |-> "active"])
    /\ UNCHANGED <<clock, auto, occ, notif, tickVars>>

RunEnds(i) ==
    /\ runs[i].state = "active"
    /\ \E s \in RunOutcomes : runs' = [runs EXCEPT ![i].state = s]
    /\ UNCHANGED <<clock, auto, occ, notif, tickVars>>

Link(t) ==
    \E c \in work[t] :
        \/ LinkReplay(t, c) \/ LinkRun(t, c) \/ LinkCommitLost(t, c)
        \/ LinkOverCapacity(t, c) \/ LinkFenced(t, c) \/ LinkTransient(t, c)
        \/ LinkRefused(t, c)

Handle(t) ==
    \/ DeferCapacity(t) \/ DeferRetry(t) \/ FailClosed(t) \/ Recheck(t) \/ AbortTick(t)

\* Everything a running tick does by itself.
TickStep(t) ==
    \/ ReclaimExpired(t) \/ MaterializeDue(t) \/ ClaimDue(t)
    \/ Link(t) \/ Handle(t) \/ LinksDone(t)
    \/ (\E c \in work[t] : Coordinate(t, c)) \/ Drive(t) \/ Settle(t) \/ EndTick(t)

Environment ==
    \/ Advance \/ CreateManualRun
    \/ \E i \in DOMAIN runs : RunEnds(i)
    \/ \E a \in Automations : Operator(a)
    \/ \E t \in Ticks : Crash(t)

Next == Environment \/ \E t \in Ticks : BeginTick(t) \/ TickStep(t)

Spec == Init /\ [][Next]_vars

\* Someone keeps starting ticks, a started tick keeps running, time passes.
Fairness ==
    /\ WF_vars(Advance)
    /\ \A t \in Ticks : WF_vars(BeginTick(t)) /\ WF_vars(TickStep(t))

FairSpec == Spec /\ Fairness

-----------------------------------------------------------------------------
(* Properties.                                                             *)

Times == 0..MaxClock

OccurrenceRow ==
    [state : OccurrenceStates, autoRev : 0..MaxRevision, mode : Modes,
     owner : Ticks \cup {Nobody}, gen : Nat, expires : Nat, retryAt : Nat,
     attempts : Nat, deferred : BOOLEAN, run : Nat]

AutomationColumns ==
    [lifecycle : Lifecycles, revision : 0..MaxRevision, schedRev : 0..MaxRevision,
     next : Nat, schedule : Schedules, mode : Modes, policy : Policies,
     retryLimit : RetryLimits]

\* Every schedule revision is also a revision; a row not created yet has none.
AutomationRow ==
    {row \in AutomationColumns : /\ row.schedRev <= row.revision
                                 /\ row.lifecycle = "absent" => row.schedRev = 0}

RunRow == [key : Keys \cup {NoKey}, state : {"active"} \cup RunOutcomes]

\* Places where cur is the occurrence being handled.
Handling == {"capacity", "retry", "fail", "recheck", "drive"}
PCs == {"idle", "reclaim", "materialize", "claim", "link", "coordinate", "settle"}
           \cup Handling

RowsOK ==
    /\ auto \in [Automations -> AutomationRow]
    /\ DOMAIN occ \subseteq Keys
    /\ occ \in [DOMAIN occ -> OccurrenceRow]
    /\ runs \in Seq(RunRow)
    /\ notif \subseteq (DOMAIN occ) \X EventKinds

TicksOK ==
    /\ pc \in [Ticks -> PCs]
    /\ now \in [Ticks -> Times]
    /\ claims \in [Ticks -> SUBSET [key : DOMAIN occ, gen : Nat]]
    /\ work \in [Ticks -> SUBSET [key : DOMAIN occ, gen : Nat]]
    /\ cur \in [Ticks -> DOMAIN occ \cup {NoKey}]
    /\ \A t \in Ticks : pc[t] \in Handling => cur[t] \in DOMAIN occ

\* Every row has the columns of its table, every tick its local state, and a
\* tick or a notice names only occurrences that exist.
TypeOK == clock \in Times /\ RowsOK /\ TicksOK

\* A01: Runs and occurrences are linked one to one, and no Run that was created
\* for an occurrence is orphaned, whatever crashes and lost commits happen
\* between create_run and the link.
OneRunPerOccurrence ==
    /\ \A i \in DOMAIN runs :
          runs[i].key # NoKey => runs[i].key \in DOMAIN occ /\ occ[runs[i].key].run = i
    /\ \A k \in DOMAIN occ :
          occ[k].run # None => occ[k].run \in DOMAIN runs /\ runs[occ[k].run].key = k

\* A10: at most one occurrence of an Automation is due, claimed or run_created,
\* across concurrent materializing ticks, pauses, resumes and schedule edits.
SingleOpenOccurrence ==
    \A j, k \in DOMAIN occ :
        /\ AutomationOf(j) = AutomationOf(k)
        /\ occ[j].state \in Open /\ occ[k].state \in Open
        => j = k

\* The cached next_occurrence_at is always beyond every slot already recorded
\* for the current schedule revision, so no slot is materialized twice, even by
\* a tick whose captured instant is stale.
NextAhead ==
    \A a \in Automations, k \in DOMAIN occ :
        /\ AutomationOf(k) = a /\ SchedRevOf(k) = auto[a].schedRev
        /\ auto[a].next # None
        => SlotOf(k) < auto[a].next

\* What SingleOpenOccurrence and NextAhead rest on: no tick works ahead of database
\* time, and no slot or schedule revision is recorded before its time.
NothingAhead ==
    /\ \A t \in Ticks : now[t] <= clock
    /\ \A k \in DOMAIN occ :
          SlotOf(k) <= clock /\ SchedRevOf(k) <= auto[AutomationOf(k)].schedRev

SlotInv == TypeOK /\ NothingAhead /\ NextAhead /\ SingleOpenOccurrence

\* A16: claimed and run_created occurrences stay within MAX_ACTIVE_OCCURRENCES
\* and nonterminal Runs within MAX_ACTIVE_RUNS, counting Runs made by hand.
CapacityRespected ==
    /\ Cardinality(ActiveOccurrences) <= MaxActiveOccurrences
    /\ Cardinality(ActiveRuns) <= MaxActiveRuns

\* A failed or missed occurrence always has its operator notice, and no notice
\* of failure, of a miss or of completion contradicts the occurrence's state.
OutcomesReported ==
    \A k \in DOMAIN occ :
        /\ occ[k].state = "failed" <=>
              <<k, "occurrence_failed">> \in notif \/ <<k, "retry_exhausted">> \in notif
        /\ occ[k].state = "missed" <=> <<k, "occurrence_missed">> \in notif
        /\ occ[k].state = "completed" <=> <<k, "run_completed">> \in notif

\* A11: an occurrence never waits for another setup attempt once its attempts
\* reach MAX_SETUP_ATTEMPTS, and a linked one has used fewer.
RetriesBounded ==
    \A k \in DOMAIN occ :
        /\ occ[k].attempts <= MaxSetupAttempts
        /\ occ[k].attempts = MaxSetupAttempts => occ[k].state = "failed"

TerminalKept ==
    \A k \in DOMAIN occ :
        k \in DOMAIN occ' /\ (occ[k].state \in Terminal => occ'[k] = occ[k])

\* Terminal occurrences are immutable: late handlers, reconciliation and
\* reclaiming ticks never reopen or rewrite one.
TerminalForever == [][TerminalKept]_vars

\* A02: a Run is linked only while its Automation is enabled and unchanged since
\* the occurrence was captured, however many edits raced with the claim.
LinkUnderAuthority ==
    [][\A k \in DOMAIN occ :
          occ[k].run = None /\ occ'[k].run # None =>
             LET a == AutomationOf(k)
             IN /\ auto[a].lifecycle = "enabled"
                /\ auto[a].revision = occ[k].autoRev
                /\ auto[a].schedRev = SchedRevOf(k)
                /\ auto[a].mode = occ[k].mode]_vars

State(k, S) == k \in DOMAIN occ /\ occ[k].state \in S

\* Once the operator leaves the Automation alone, every due or claimed occurrence
\* gets its Run or a terminal outcome, in spite of earlier crashes and faults.
OccurrencesProgress ==
    \A k \in Keys : State(k, {"due", "claimed"}) ~> State(k, Terminal \cup {"run_created"})

\* An ended Run is eventually mirrored into its occurrence.
EndedRunsMirrored ==
    \A k \in Keys :
        (State(k, Open) /\ occ[k].run # None /\ runs[occ[k].run].state # "active")
            ~> State(k, Terminal)
=============================================================================
