-------------------------- MODULE ConnectorSchedule --------------------------
(***************************************************************************)
(* The connector refresh scheduler (app/connectors/schedules and           *)
(* app/connectors/scheduler) and the tick that drives it                   *)
(* (app/automations/scheduler_runner.run_connector_tick).                  *)
(*                                                                         *)
(* A tick captures the time once, commits four batch transactions and then *)
(* treats its claims one by one: link a sync run, check the fence, refresh *)
(* outside any transaction, finalize.  The refresh itself is ConnectorSync;*)
(* here it begins, takes time, and settles the run.  Ticks, operators,     *)
(* manual refreshes, crashes and the clock interleave between              *)
(* transactions.                                                           *)
(***************************************************************************)
EXTENDS Connectors

CONSTANTS
    Ticks,         \* concurrent tick processes; each stands for its owner token
    Schedules,     \* schedule definitions an operator may choose
    Policies,      \* missed-run policies in use
    Lease,         \* lease_duration, in instants
    MaxClock,      \* bound: the clock stops here
    MaxScheduleRev,\* bound: schedule edits stop at this revision
    MaxManual,     \* bound: manual refreshes
    DisturbUntil   \* bound: ticks die and manual refreshes act no later than this

None == 0        \* no next occurrence, no run, no lease
Nobody == "nobody"

ASSUME ScheduleAssumption ==
    /\ \A d \in Schedules : \/ d \in [kind : {"one_time"}, at : Nat \ {0}]
                            \/ d \in [kind : {"daily"}, every : Nat \ {0}]
    /\ Schedules # {} /\ Policies # {} /\ Policies \subseteq {"skip", "run_once"}
    /\ Lease \in Nat \ {0} /\ MaxClock \in Nat \ {0} /\ MaxScheduleRev \in Nat
    /\ MaxManual \in Nat /\ DisturbUntil \in Nat /\ Nobody \notin Ticks

VARIABLES
    clock,  \* database time
    sched,  \* connector_refresh_schedules, at most one per account
    occ,    \* connector_refresh_occurrences, by their unique slot
    notif,  \* connector_refresh_notifications: <<event kind, slot>>
    tick    \* the tick processes

schedVars == <<account, run, clock, sched, occ, notif, tick>>

\* schedule, schedule_revision, instant: occurrence_key.
Slots == Accounts \X (0 .. MaxScheduleRev) \X (1 .. MaxClock)

ScheduleOf(k) == sched[k[1]]

ScheduleRows ==
    [life : {"absent", "draft", "enabled", "paused", "cancelled"}, rev : Nat, srev : Nat,
     def : Schedules, policy : Policies, next : Nat]

OccurrenceEnds == Terminal \cup {"missed", "cancelled"}

OccurrenceRows ==
    [state : {"none", "due", "claimed", "sync_created"} \cup OccurrenceEnds,
     arev : Nat, row : Nat, run : {None} \cup Runs,
     owner : Ticks \cup {Nobody}, gen : Nat, expires : Nat]

NoticeRows == OccurrenceEnds \X Slots

NoOccurrence == [state |-> "none", arev |-> 0, row |-> 0, run |-> None,
                 owner |-> Nobody, gen |-> 0, expires |-> None]

Idle == [at |-> "idle", now |-> 0, claims |-> {}, slot |-> CHOOSE k \in Slots : TRUE,
         gen |-> 0, refreshed |-> None]

\* next_point: the first slot of the definition after t.
NextPoint(d, t) ==
    IF d.kind = "daily" THEN (t \div d.every + 1) * d.every
    ELSE IF d.at > t THEN d.at ELSE None

\* The operator has connected and enabled an account; nothing is scheduled.
Init ==
    /\ account = [a \in Accounts |-> [NoAccount EXCEPT !.life = "enabled", !.rev = 1]]
    /\ run = [r \in Runs |-> NoRun]
    /\ clock = 1
    /\ sched = [a \in Accounts |->
           [life |-> "absent", rev |-> 0, srev |-> 0, next |-> None,
            def |-> CHOOSE d \in Schedules : TRUE, policy |-> CHOOSE p \in Policies : TRUE]]
    /\ occ = [k \in Slots |-> NoOccurrence]
    /\ notif = {}
    /\ tick = [t \in Ticks |-> Idle]

-----------------------------------------------------------------------------
(* Schedule service: each mutation locks the row and needs its revision.   *)

CreateSchedule(a) ==
    /\ sched[a].life = "absent" /\ account[a].life # "absent"
    /\ \E d \in Schedules, p \in Policies :
           sched' = [sched EXCEPT ![a] = [sched[a] EXCEPT !.life = "draft", !.def = d, !.policy = p]]

UpdateSchedule(a) ==
    /\ sched[a].life \in {"draft", "enabled", "paused"}
    /\ \E d \in Schedules, p \in Policies :
           sched' = [sched EXCEPT ![a] =
               [sched[a] EXCEPT !.def = d, !.policy = p, !.rev = @ + 1, !.srev = @ + 1,
                                !.next = IF sched[a].life = "enabled" THEN NextPoint(d, clock)
                                         ELSE None]]

\* enable, resume: the next slot is computed anew, and must exist.
EnableSchedule(a) ==
    /\ sched[a].life \in {"draft", "paused"}
    /\ NextPoint(sched[a].def, clock) # None
    /\ sched' = [sched EXCEPT ![a] =
           [sched[a] EXCEPT !.life = "enabled", !.rev = @ + 1,
                            !.next = NextPoint(sched[a].def, clock)]]

\* pause, cancel.
StopSchedule(a, life) ==
    /\ life = "paused" => sched[a].life = "enabled"
    /\ sched[a].life \in {"draft", "enabled", "paused"}
    /\ sched' = [sched EXCEPT ![a] = [sched[a] EXCEPT !.life = life, !.rev = @ + 1, !.next = None]]

EditSchedule(a) ==
    /\ sched[a].rev < MaxScheduleRev
    /\ CreateSchedule(a) \/ UpdateSchedule(a) \/ EnableSchedule(a)
       \/ StopSchedule(a, "paused") \/ StopSchedule(a, "cancelled")
    /\ UNCHANGED <<account, run, clock, occ, notif, tick>>

-----------------------------------------------------------------------------
(* The four batch transactions of a tick.                                  *)

At(t, place) == tick[t].at = place

\* notify: one notification per event kind and occurrence.
Notices(state, keys) == {<<state, k>> : k \in keys}

Leased(k, t) ==
    [occ[k] EXCEPT !.owner = t, !.gen = @ + 1, !.expires = tick[t].now + Lease]

Claims(t, keys) == {[slot |-> k, gen |-> occ[k].gen + 1] : k \in keys}

GoOn(t, place, keys) ==
    tick' = [tick EXCEPT ![t] = [tick[t] EXCEPT !.at = place, !.claims = @ \cup Claims(t, keys)]]

StartTick(t) ==
    /\ At(t, "idle")
    /\ tick' = [tick EXCEPT ![t] = [Idle EXCEPT !.at = "linked", !.now = clock]]
    /\ UNCHANGED <<account, run, clock, sched, occ, notif>>

\* Faulty variant: only unlinked occurrences are taken up again.
ExpiredUnlinked(t, state) ==
    {k \in Slots : occ[k].state = state /\ state = "claimed" /\ occ[k].expires <= tick[t].now}

\* lock_resumable and lock_expired: the lease ran out.
Expired(t, state) == {k \in Slots : occ[k].state = state /\ occ[k].expires <= tick[t].now}

Reclaim(t, here, state, next) ==
    LET keys == Expired(t, state)
    IN  /\ At(t, here)
        /\ occ' = [k \in Slots |-> IF k \in keys THEN Leased(k, t) ELSE occ[k]]
        /\ GoOn(t, next, keys)
        /\ UNCHANGED <<account, run, clock, sched, notif>>

ReclaimLinked(t)  == Reclaim(t, "linked", "sync_created", "reclaim")
ReclaimExpired(t) == Reclaim(t, "reclaim", "claimed", "materialize")

DueSchedules(t) ==
    {a \in Accounts : sched[a].life = "enabled" /\ sched[a].next \in 1 .. tick[t].now}

\* _latest_due: earlier slots are passed over.
LatestDue(a, now) ==
    LET d == sched[a].def
    IN  IF d.kind = "daily" THEN (now \div d.every) * d.every ELSE d.at

DueKey(a, now) == <<a, sched[a].srev, LatestDue(a, now)>>

\* A slot that exists already violates its unique key: the schedule is left as it was.
Materialized(t) == {a \in DueSchedules(t) : occ[DueKey(a, tick[t].now)].state = "none"}

Materialize(t) ==
    LET now == tick[t].now
        due == Materialized(t)
        new(a) == [NoOccurrence EXCEPT
                      !.state = IF sched[a].policy = "skip" THEN "missed" ELSE "due",
                      !.arev = account[a].rev, !.row = sched[a].rev]
        skipped == {a \in due : sched[a].policy = "skip"}
    IN  /\ At(t, "materialize")
        /\ occ' = [k \in Slots |-> IF k[1] \in due /\ k = DueKey(k[1], now)
                                   THEN new(k[1]) ELSE occ[k]]
        /\ sched' = [a \in Accounts |->
               IF a \in due
               THEN [sched[a] EXCEPT !.next = NextPoint(sched[a].def, LatestDue(a, now))]
               ELSE sched[a]]
        /\ notif' = notif \cup Notices("missed", {DueKey(a, now) : a \in skipped})
        /\ GoOn(t, "claim", {})
        /\ UNCHANGED <<account, run, clock>>

\* The authority an occurrence was materialized under still stands.
Authorized(k) ==
    /\ ScheduleOf(k).life = "enabled" /\ ScheduleOf(k).rev = occ[k].row
    /\ ScheduleOf(k).srev = k[2]
    /\ account[k[1]].life = "enabled" /\ account[k[1]].rev = occ[k].arev

ClaimDue(t) ==
    LET due == {k \in Slots : occ[k].state = "due" /\ k[3] <= tick[t].now}
        good == {k \in due : Authorized(k)}
    IN  /\ At(t, "claim")
        /\ occ' = [k \in Slots |->
               IF k \in good THEN [Leased(k, t) EXCEPT !.state = "claimed"]
               ELSE IF k \in due THEN [occ[k] EXCEPT !.state = "cancelled"] ELSE occ[k]]
        /\ notif' = notif \cup Notices("cancelled", due \ good)
        /\ tick' = [tick EXCEPT ![t] = [Idle EXCEPT !.at = "next",
                                  !.claims = tick[t].claims \cup Claims(t, good)]]
        /\ UNCHANGED <<account, run, clock, sched>>

-----------------------------------------------------------------------------
(* The loop over the tick's claims.                                        *)

EndTick(t) ==
    /\ At(t, "next") /\ tick[t].claims = {}
    /\ tick' = [tick EXCEPT ![t] = Idle]
    /\ UNCHANGED <<account, run, clock, sched, occ, notif>>

Visit(t, c, place) ==
    tick' = [tick EXCEPT ![t] = [tick[t] EXCEPT !.claims = @ \ {c}, !.at = place,
                                                !.slot = c.slot, !.gen = c.gen]]

Leave(t, place) == tick' = [tick EXCEPT ![t] = [tick[t] EXCEPT !.at = place]]

\* Back to the loop head; the locals of the claim are dead.
NextClaim(t) == tick' = [tick EXCEPT ![t] = [Idle EXCEPT !.at = "next", !.claims = tick[t].claims]]

\* _validated: lease generation and owner first, then the authority.
Holds(t, k, gen, state) ==
    occ[k].state = state /\ occ[k].owner = t /\ occ[k].gen = gen

Validated(t, k, gen, state) == Holds(t, k, gen, state) /\ Authorized(k)

\* Faulty variant: the run commits before its link, which is lost.
LinkNewUnlinked(t, c) ==
    /\ Validated(t, c.slot, c.gen, "claimed")
    /\ \E r \in Runs : Claim(r, c.slot[1], "scheduled")
    /\ tick' = [tick EXCEPT ![t].claims = @ \ {c}]
    /\ UNCHANGED <<account, clock, sched, occ, notif>>

\* create_and_link_sync: the run and its link commit together.
LinkNew(t, c) ==
    /\ Validated(t, c.slot, c.gen, "claimed")
    /\ \E r \in Runs :
           /\ Claim(r, c.slot[1], "scheduled")
           /\ occ' = [occ EXCEPT ![c.slot].run = r, ![c.slot].state = "sync_created"]
    /\ Visit(t, c, "fence")
    /\ UNCHANGED <<account, clock, sched, notif>>

\* Linked by an earlier tick: straight to the fence.
LinkOld(t, c) ==
    /\ occ[c.slot].state # "claimed"
    /\ Visit(t, c, "fence")
    /\ UNCHANGED <<account, run, clock, sched, occ, notif>>

\* A stale or fenced claim, an active run of the account or a full system: rolled back.
LinkRefused(t, c) ==
    /\ occ[c.slot].state = "claimed"
    /\ ~(Validated(t, c.slot, c.gen, "claimed") /\ Claimable(c.slot[1]))
    /\ tick' = [tick EXCEPT ![t].claims = @ \ {c}]
    /\ UNCHANGED <<account, run, clock, sched, occ, notif>>

Link(t) ==
    /\ At(t, "next")
    /\ \E c \in tick[t].claims : LinkNew(t, c) \/ LinkOld(t, c) \/ LinkRefused(t, c)

Mine(t) == occ[tick[t].slot]

\* validate_network_fence; a terminal run is not refreshed again.
Fence(t) ==
    /\ At(t, "fence")
    /\ IF Validated(t, tick[t].slot, tick[t].gen, "sync_created")
       THEN Leave(t, IF run[Mine(t).run].status \in Terminal THEN "finalize" ELSE "refresh")
       ELSE NextClaim(t)
    /\ UNCHANGED <<account, run, clock, sched, occ, notif>>

\* What a refresh may end with, once it has begun.
EndRefresh(r) ==
    \/ Captured(r) /\ Settle(r, "succeeded") /\ UNCHANGED account
    \/ \E s \in {"incomplete", "failed"} : Settle(r, s) /\ UNCHANGED account
    \/ Settle(r, "failed") /\ FenceAccount(r)

\* Until it has marked the run running a refresh can only fail.
RefreshBegins(t) ==
    /\ At(t, "refresh")
    /\ MarkRunning(Mine(t).run)
    /\ tick' = [tick EXCEPT ![t] = [tick[t] EXCEPT !.at = "running", !.refreshed = Mine(t).run]]
    /\ UNCHANGED <<account, clock, sched, occ, notif>>

RefreshFails(t) ==
    /\ At(t, "refresh")
    /\ \E s \in {"incomplete", "failed"} : Settle(Mine(t).run, s)
    /\ Leave(t, "finalize")
    /\ UNCHANGED <<account, clock, sched, occ, notif>>

\* Another tick has settled the run: the status update breaks its constraint.
RefreshBroken(t) ==
    /\ At(t, "refresh")
    /\ Captured(Mine(t).run) /\ run[Mine(t).run].status \in Terminal
    /\ NextClaim(t)
    /\ UNCHANGED <<account, run, clock, sched, occ, notif>>

RefreshEnds(t) ==
    /\ At(t, "running")
    /\ EndRefresh(tick[t].refreshed)
    /\ Leave(t, "finalize")
    /\ UNCHANGED <<clock, sched, occ, notif>>

\* Faulty variant: the lease outlives the occurrence.
ClosedLeased(k, status) == [occ[k] EXCEPT !.state = status]

Closed(k, status) == [occ[k] EXCEPT !.state = status, !.owner = Nobody, !.expires = None]

Finalize(t) ==
    LET k == tick[t].slot  status == run[Mine(t).run].status
    IN  /\ At(t, "finalize")
        /\ NextClaim(t)
        /\ IF Validated(t, k, tick[t].gen, "sync_created") /\ status \in Terminal
           THEN /\ occ' = [occ EXCEPT ![k] = Closed(k, status)]
                /\ notif' = notif \cup Notices(status, {k})
           ELSE UNCHANGED <<occ, notif>>
        /\ UNCHANGED <<account, run, clock, sched>>

TickStep(t) ==
    \/ ReclaimLinked(t) \/ ReclaimExpired(t) \/ Materialize(t) \/ ClaimDue(t)
    \/ Link(t) \/ Fence(t)
    \/ RefreshBegins(t) \/ RefreshFails(t) \/ RefreshBroken(t) \/ RefreshEnds(t)
    \/ Finalize(t) \/ EndTick(t)

\* The process dies; what it had committed stays.
Crash(t) ==
    /\ ~At(t, "idle") /\ clock <= DisturbUntil
    /\ tick' = [tick EXCEPT ![t] = Idle]
    /\ UNCHANGED <<account, run, clock, sched, occ, notif>>

-----------------------------------------------------------------------------
(* Everything else.                                                        *)

ManualRuns == {r \in Runs : run[r].status # "none" /\ run[r].trigger = "manual"}

ManualClaim(a) ==
    /\ Cardinality(ManualRuns) < MaxManual /\ clock <= DisturbUntil
    /\ \E r \in Runs : Claim(r, a, "manual")
    /\ UNCHANGED <<account, clock, sched, occ, notif, tick>>

\* The request that claimed the run ends it; one that dies never does.
ManualEnd(r) ==
    /\ r \in ManualRuns /\ run[r].status \in Active /\ clock <= DisturbUntil
    /\ EndRefresh(r)
    /\ UNCHANGED <<clock, sched, occ, notif, tick>>

EditAccount(a) ==
    /\ ConfigureAccount(a)
    /\ UNCHANGED <<clock, sched, occ, notif, tick>>

Advance ==
    /\ clock < MaxClock
    /\ clock' = clock + 1
    /\ UNCHANGED <<account, run, sched, occ, notif, tick>>

Next ==
    \/ \E t \in Ticks : StartTick(t) \/ TickStep(t) \/ Crash(t)
    \/ \E a \in Accounts : EditSchedule(a) \/ EditAccount(a) \/ ManualClaim(a)
    \/ \E r \in Runs : ManualEnd(r)
    \/ Advance

Spec == Init /\ [][Next]_schedVars

\* The scheduler is run again and again and a live tick goes on; time passes.  Nothing
\* makes a manual request end: its process may die, and nothing takes its run up again.
FairSpec ==
    Spec /\ WF_schedVars(Advance)
    /\ \A t \in Ticks : WF_schedVars(StartTick(t)) /\ WF_schedVars(TickStep(t))

-----------------------------------------------------------------------------
(* Properties.                                                             *)

\* Every table keeps its shape, and a lease is held exactly by the open occurrences.
TypeOK ==
    /\ account \in [Accounts -> AccountRows] /\ run \in [Runs -> RunRows]
    /\ clock \in 1 .. MaxClock
    /\ sched \in [Accounts -> ScheduleRows] /\ occ \in [Slots -> OccurrenceRows]
    /\ notif \subseteq NoticeRows
    /\ \A t \in Ticks :
          /\ tick[t].now \in 0 .. clock /\ tick[t].slot \in Slots
          /\ tick[t].refreshed \in {None} \cup Runs
          /\ \A c \in tick[t].claims : c.slot \in Slots /\ c.gen \in Nat
    /\ \A k \in Slots : (occ[k].owner # Nobody) <=> (occ[k].state \in {"claimed", "sync_created"})

\* A scheduled sync run belongs to exactly one occurrence, of its own account and captured
\* revision, and an occurrence past its link has its one run: neither a crash between two
\* transactions nor two ticks on one occurrence make a second run (create_and_link_sync).
LinkedRuns ==
    /\ \A r \in Runs : run[r].status # "none" /\ run[r].trigger = "scheduled" =>
          \E k \in Slots :
             /\ \A other \in Slots : occ[other].run = r <=> other = k
             /\ run[r].account = k[1] /\ run[r].rev = occ[k].arev
    /\ \A k \in Slots : (occ[k].run # None) <=> (occ[k].state \in {"sync_created"} \cup Terminal)

\* One active run per account and GLOBAL_ACTIVE_SYNC_CAP in all, also when two ticks refresh
\* one run and the slower finds it settled (ck_connector_sync_runs_completion).
RunsCapped ==
    /\ \A a \in Accounts : Cardinality(ActiveRuns(a)) <= 1
    /\ ActiveCount <= GlobalCap

\* Beyond the bounds of the clock: its lease runs out when time has stopped.
PastHorizon(k) == occ[k].expires > MaxClock

\* A manual run of the account that its dead request left active.
Blocked(k) == \E r \in ManualRuns : run[r].status \in Active

\* An occurrence whose authority stands ends: crashed ticks, expired leases, refused links
\* and settled runs are all taken up again.
OccurrencesEnd ==
    \A k \in Slots : occ[k].state \in {"due", "claimed", "sync_created"} ~>
        (occ[k].state \in OccurrenceEnds \/ ~Authorized(k) \/ Blocked(k) \/ PastHorizon(k))

=============================================================================
