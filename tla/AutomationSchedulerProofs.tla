--------------------- MODULE AutomationSchedulerProofs ---------------------
(* Theorems about AutomationScheduler for every value of its constants. *)
EXTENDS AutomationScheduler, SequenceTheorems, TLAPS

-----------------------------------------------------------------------------
(* Facts about the operators the actions are built from.                   *)

\* A locked batch only holds eligible rows.
LEMMA BatchWithin ==
    ASSUME NEW eligible, NEW limit, NEW rank, NEW S \in Batches(eligible, limit, rank)
    PROVE  S \subseteq eligible
  BY DEF Batches

\* A remainder by a positive interval never exceeds its dividend.
LEMMA Remainder ==
    ASSUME NEW x \in Nat, NEW n \in Nat \ {0}
    PROVE  x % n \in 0..x /\ x % n < n
  <1>1. x % n \in 0..(n - 1)
    BY SMT
  <1>2. CASE x < n
    <2>1. x % n = x
      BY <1>2, SMT
    <2> QED BY <1>1, <2>1
  <1>3. CASE x >= n
    BY <1>1, <1>3
  <1> QED BY <1>2, <1>3

\* The two shapes a schedule can have.
LEMMA ScheduleShape ==
    ASSUME NEW s \in Schedules
    PROVE  \/ s.kind = "one_time" /\ s.at \in Nat \ {0}
           \/ s.kind = "daily" /\ s.interval \in Nat \ {0}
  BY ConstantsAssumption

\* A computed slot is strictly after the instant it was computed from.
LEMMA NextPointLater ==
    ASSUME NEW s \in Schedules, NEW t \in Nat, NextPoint(s, t) # None
    PROVE  NextPoint(s, t) \in Nat /\ NextPoint(s, t) > t
  BY ScheduleShape DEF NextPoint, None

LEMMA NextPointNat ==
    ASSUME NEW s \in Schedules, NEW t \in Nat
    PROVE  NextPoint(s, t) \in Nat
  BY ScheduleShape DEF NextPoint, None

\* Materialization records a slot between the cached one and the tick's instant,
\* and caches one beyond that instant, or none.
LEMMA DueSlot ==
    ASSUME NEW a, NEW t \in Nat,
           auto[a].next \in Nat, auto[a].next <= t, auto[a].schedule \in Schedules
    PROVE  /\ LatestDue(a, t) \in auto[a].next..t
           /\ Following(a, t) \in Nat
           /\ Following(a, t) # None => Following(a, t) > t
  <1> DEFINE next == auto[a].next
             schedule == auto[a].schedule
  <1>1. CASE schedule.kind = "daily" /\ schedule.interval \in Nat \ {0}
    <2> DEFINE r == (t - next) % schedule.interval
    <2>1. r \in 0..(t - next) /\ r < schedule.interval
      BY <1>1, Remainder
    <2>2. LatestDue(a, t) = t - r /\ Following(a, t) = t - r + schedule.interval
      BY <1>1 DEF LatestDue, Following
    <2> HIDE DEF r
    <2> QED BY <1>1, <2>1, <2>2
  <1>2. CASE schedule.kind = "one_time"
    BY <1>2 DEF LatestDue, Following, None
  <1> QED BY <1>1, <1>2, ScheduleShape

-----------------------------------------------------------------------------
(* Type correctness.                                                       *)

LEMMA TypeInit == Init => TypeOK
  <1> SUFFICES ASSUME Init PROVE TypeOK
    OBVIOUS
  <1>1. NoAutomation \in AutomationRow
    BY ConstantsAssumption
    DEF NoAutomation, AutomationRow, AutomationColumns, Lifecycles, None
  <1>2. RowsOK
    BY <1>1 DEF Init, RowsOK
  <1>3. TicksOK
    BY ConstantsAssumption DEF Init, TicksOK, PCs, Handling, Times, NoKey
  <1>4. clock \in Times
    BY ConstantsAssumption DEF Init, Times
  <1> QED BY <1>2, <1>3, <1>4 DEF TypeOK

\* An operator command writes one well-formed Automation row.
LEMMA EditTypes ==
    ASSUME TypeOK, NEW a \in Automations, NEW row \in AutomationRow, Edit(a, row)
    PROVE  TypeOK'
  BY DEF TypeOK, RowsOK, TicksOK, Edit, tickVars

LEMMA RevisedTypes ==
    ASSUME TypeOK, NEW a \in Automations, auto[a].revision < MaxRevision
    PROVE  Revised(a) \in AutomationRow /\ Revised(a).schedRev < Revised(a).revision
  <1>1. auto[a] \in AutomationRow
    BY DEF TypeOK, RowsOK
  <1> QED BY <1>1, ConstantsAssumption DEF Revised, AutomationRow, AutomationColumns

\* A schedule edit stays within the columns because the revision moved first.
LEMMA RescheduledRow ==
    ASSUME NEW r \in AutomationRow, r.schedRev < r.revision, r.lifecycle # "absent",
           NEW s \in Schedules, NEW n \in Nat
    PROVE  [r EXCEPT !.schedule = s, !.schedRev = @ + 1, !.next = n] \in AutomationRow
  <1>1. r.schedRev + 1 \in 0..MaxRevision /\ r.schedRev + 1 <= r.revision
    BY ConstantsAssumption DEF AutomationRow, AutomationColumns
  <1>2. r \in AutomationColumns
    BY DEF AutomationRow
  <1>3. [r EXCEPT !.schedule = s, !.schedRev = @ + 1, !.next = n] \in AutomationColumns
    BY <1>1, <1>2 DEF AutomationColumns
  <1>4. [r EXCEPT !.schedule = s, !.schedRev = @ + 1, !.next = n].schedRev
          <= [r EXCEPT !.schedule = s, !.schedRev = @ + 1, !.next = n].revision
        /\ [r EXCEPT !.schedule = s, !.schedRev = @ + 1, !.next = n].lifecycle # "absent"
    BY <1>1, <1>2 DEF AutomationColumns
  <1> QED BY <1>3, <1>4 DEF AutomationRow

LEMMA OperatorTypes ==
    ASSUME TypeOK, NEW a \in Automations, Operator(a)
    PROVE  TypeOK'
  <1> USE DEF AutomationRow, AutomationColumns, Lifecycles
  <1>0. auto[a] \in AutomationRow /\ clock \in Nat /\ None \in Nat
    BY ConstantsAssumption DEF TypeOK, RowsOK, Times, None
  <1>1. CASE CreateAutomation(a)
    <2>1. NoAutomation \in AutomationRow
      BY ConstantsAssumption DEF NoAutomation, None
    <2> QED BY <1>1, <2>1, EditTypes DEF CreateAutomation
  <1>2. CASE UpdateLabel(a)
    BY <1>2, RevisedTypes, EditTypes DEF UpdateLabel
  <1>3. CASE UpdateDefinition(a)
    BY <1>3, RevisedTypes, EditTypes DEF UpdateDefinition
  <1>4. CASE UpdateSchedule(a)
    <2> PICK s \in Schedules :
               Edit(a, [Revised(a) EXCEPT
                          !.schedule = s, !.schedRev = @ + 1,
                          !.next = IF auto[a].lifecycle = "paused"
                                   THEN NextPoint(s, clock) ELSE None])
      BY <1>4 DEF UpdateSchedule
    <2> DEFINE row == [Revised(a) EXCEPT
                         !.schedule = s, !.schedRev = @ + 1,
                         !.next = IF auto[a].lifecycle = "paused"
                                  THEN NextPoint(s, clock) ELSE None]
    <2>1. /\ Revised(a) \in AutomationRow /\ Revised(a).schedRev < Revised(a).revision
          /\ Revised(a).lifecycle # "absent"
      BY <1>0, <1>4, RevisedTypes DEF UpdateSchedule, Revised
    <2>2. (IF auto[a].lifecycle = "paused" THEN NextPoint(s, clock) ELSE None) \in Nat
      BY <1>0, NextPointNat
    <2>3. row \in AutomationRow
      BY <2>1, <2>2, RescheduledRow
    <2> QED BY <2>3, EditTypes
  <1>5. CASE SetExecutionMode(a)
    BY <1>5, RevisedTypes, EditTypes DEF SetExecutionMode
  <1>6. CASE \E from \in {"draft", "paused"} : Activate(a, from)
    BY <1>0, <1>6, RevisedTypes, EditTypes, NextPointNat DEF Activate
  <1>7. CASE PauseAutomation(a)
    BY <1>7, RevisedTypes, EditTypes DEF PauseAutomation
  <1>8. CASE CancelAutomation(a)
    BY <1>0, <1>8, RevisedTypes, EditTypes DEF CancelAutomation
  <1> QED BY <1>1, <1>2, <1>3, <1>4, <1>5, <1>6, <1>7, <1>8
          DEF Operator, EnableAutomation, ResumeAutomation

\* Granting a lease keeps a row's columns.
LEMMA GrantedRow ==
    ASSUME NEW r \in OccurrenceRow, NEW t \in Ticks, NEW e \in Nat
    PROVE  [r EXCEPT !.state = "claimed", !.owner = t, !.gen = @ + 1, !.expires = e]
              \in OccurrenceRow
  <1>1. r.gen + 1 \in Nat
    BY DEF OccurrenceRow
  <1>2. "claimed" \in OccurrenceStates
    BY DEF OccurrenceStates, Open
  <1> QED BY <1>1, <1>2 DEF OccurrenceRow

\* So does linking a Run.
LEMMA LinkedRow ==
    ASSUME NEW table, table \in [DOMAIN table -> OccurrenceRow],
           NEW k \in DOMAIN table, NEW i \in Nat
    PROVE  [table EXCEPT ![k].run = i, ![k].state = "run_created", ![k].deferred = FALSE]
              \in [DOMAIN table -> OccurrenceRow]
  <1>1. [[[table[k] EXCEPT !.run = i] EXCEPT !.state = "run_created"]
            EXCEPT !.deferred = FALSE] \in OccurrenceRow
    <2>1. table[k] \in OccurrenceRow /\ "run_created" \in OccurrenceStates
      BY DEF OccurrenceStates, Open
    <2> QED BY <2>1 DEF OccurrenceRow
  <1>2. \A r \in OccurrenceRow : [table EXCEPT ![k] = r] \in [DOMAIN table -> OccurrenceRow]
    OBVIOUS
  <1> QED BY <1>1, <1>2

\* Every row the scheduler writes is well formed.
LEMMA WrittenRows ==
    ASSUME TypeOK
    PROVE  /\ \A a \in Automations : NewOccurrence(a) \in OccurrenceRow
           /\ \A k \in DOMAIN occ :
                 /\ Mirror(k) \in OccurrenceRow /\ Failed(k) \in OccurrenceRow
                 /\ \A t \in Ticks : /\ Granted(t, k) \in OccurrenceRow
                                     /\ Released(t, k) \in OccurrenceRow
                                     /\ ClaimOn(k) \in [key : DOMAIN occ, gen : Nat]
  <1> USE DEF OccurrenceRow, OccurrenceStates, Open, Terminal, None
  <1>1. ASSUME NEW a \in Automations PROVE NewOccurrence(a) \in OccurrenceRow
    <2>1. auto[a] \in AutomationColumns
      BY DEF TypeOK, RowsOK, AutomationRow
    <2> QED BY <2>1 DEF AutomationColumns, NewOccurrence
  <1>2. ASSUME NEW k \in DOMAIN occ
        PROVE  Mirror(k) \in OccurrenceRow /\ Failed(k) \in OccurrenceRow
    <2>1. occ[k] \in OccurrenceRow
      BY DEF TypeOK, RowsOK
    <2>2. Failed(k) \in OccurrenceRow
      BY <2>1 DEF Failed
    <2>3. \E s \in OccurrenceStates : Mirror(k) = [occ[k] EXCEPT !.state = s]
      BY DEF Mirror
    <2>4. Mirror(k) \in OccurrenceRow
      BY <2>1, <2>3
    <2> QED BY <2>2, <2>4
  <1>3. ASSUME NEW k \in DOMAIN occ, NEW t \in Ticks
        PROVE  /\ Granted(t, k) \in OccurrenceRow
               /\ Released(t, k) \in OccurrenceRow
               /\ ClaimOn(k) \in [key : DOMAIN occ, gen : Nat]
    <2>1. occ[k] \in OccurrenceRow
      BY DEF TypeOK, RowsOK
    <2>2. now[t] \in Nat /\ now[t] + Lease \in Nat /\ now[t] + RetryDelay \in Nat
      BY ConstantsAssumption DEF TypeOK, TicksOK, Times
    <2>3. Granted(t, k) \in OccurrenceRow
      BY <2>1, <2>2, GrantedRow DEF Granted
    <2>4. Released(t, k) \in OccurrenceRow
      BY <2>1, <2>2 DEF Released
    <2>5. ClaimOn(k) \in [key : DOMAIN occ, gen : Nat]
      BY <2>1 DEF ClaimOn
    <2> QED BY <2>3, <2>4, <2>5
  <1> QED BY <1>1, <1>2, <1>3

\* Reconciliation rewrites open linked rows and posts notices about them.
LEMMA ReconcileTypes ==
    ASSUME TypeOK, NEW limit, Reconcile(limit)
    PROVE  RowsOK' /\ DOMAIN occ' = DOMAIN occ
  <1> PICK S \in Batches(LinkedOpen, limit, BySlot) :
             /\ occ' = [k \in DOMAIN occ |-> IF k \in S THEN Mirror(k) ELSE occ[k]]
             /\ notif' = notif \cup MirrorNotices(S)
             /\ UNCHANGED <<auto, runs>>
    BY DEF Reconcile
  <1>1. S \subseteq DOMAIN occ
    BY BatchWithin DEF LinkedOpen
  <1>2. MirrorNotices(S) \subseteq (DOMAIN occ) \X EventKinds
    BY <1>1 DEF MirrorNotices, EventKinds
  <1>3. occ' \in [DOMAIN occ -> OccurrenceRow]
    BY WrittenRows DEF TypeOK, RowsOK
  <1> QED BY <1>2, <1>3 DEF TypeOK, RowsOK

LEMMA BeginTypes ==
    ASSUME TypeOK, NEW t \in Ticks, BeginTick(t)
    PROVE  TypeOK'
  BY ReconcileTypes DEF BeginTick, TypeOK, TicksOK, PCs, Handling

LEMMA SettleTypes ==
    ASSUME TypeOK, NEW t \in Ticks, Settle(t)
    PROVE  TypeOK'
  BY ReconcileTypes DEF Settle, TypeOK, TicksOK, PCs, Handling

LEMMA ReclaimTypes ==
    ASSUME TypeOK, NEW t \in Ticks, ReclaimExpired(t)
    PROVE  TypeOK'
  <1> PICK S \in Batches(ExpiredClaims(now[t]), MaxBatchSize, ByExpiry) :
             /\ occ' = [k \in DOMAIN occ |-> IF k \in S THEN Granted(t, k) ELSE occ[k]]
             /\ claims' = [claims EXCEPT ![t] = {ClaimOn(k) : k \in S}]
    BY DEF ReclaimExpired
  <1>1. S \subseteq DOMAIN occ
    BY BatchWithin DEF ExpiredClaims
  <1>2. occ' \in [DOMAIN occ -> OccurrenceRow]
    BY WrittenRows DEF TypeOK, RowsOK
  <1>3. {ClaimOn(k) : k \in S} \subseteq [key : DOMAIN occ, gen : Nat]
    BY <1>1, WrittenRows
  <1> QED BY <1>2, <1>3 DEF ReclaimExpired, TypeOK, RowsOK, TicksOK, PCs, Handling

LEMMA ClaimTypes ==
    ASSUME TypeOK, NEW t \in Ticks, ClaimDue(t)
    PROVE  TypeOK'
  <1> PICK S \in Batches(Claimable(now[t]), Smaller(MaxBatchSize, Room), BySlot) :
             /\ occ' = [k \in DOMAIN occ |-> IF k \in S THEN Granted(t, k) ELSE occ[k]]
             /\ claims' = [claims EXCEPT ![t] = claims[t] \cup {ClaimOn(k) : k \in S}]
             /\ work' = [work EXCEPT ![t] = claims[t] \cup {ClaimOn(k) : k \in S}]
    BY DEF ClaimDue
  <1>1. S \subseteq DOMAIN occ
    BY BatchWithin DEF Claimable
  <1>2. occ' \in [DOMAIN occ -> OccurrenceRow]
    BY WrittenRows DEF TypeOK, RowsOK
  <1>3. claims[t] \cup {ClaimOn(k) : k \in S} \subseteq [key : DOMAIN occ, gen : Nat]
    BY <1>1, WrittenRows DEF TypeOK, TicksOK
  <1> QED BY <1>2, <1>3 DEF ClaimDue, TypeOK, RowsOK, TicksOK, PCs, Handling

\* Advancing the cached slot keeps a row well formed.
LEMMA AdvancedRow ==
    ASSUME NEW r \in AutomationRow, NEW n \in Nat
    PROVE  [r EXCEPT !.next = n] \in AutomationRow
  BY DEF AutomationRow, AutomationColumns

\* The slot a tick materializes is a legal key, and the advanced row is legal.
LEMMA MaterializedSlot ==
    ASSUME TypeOK, NEW t \in Ticks, NEW a \in DueAutomations(now[t])
    PROVE  /\ a \in Automations
           /\ SlotKey(a, now[t]) \in Keys
           /\ AutomationOf(SlotKey(a, now[t])) = a
           /\ SlotOf(SlotKey(a, now[t])) \in auto[a].next..now[t]
           /\ [auto[a] EXCEPT !.next = Following(a, now[t])] \in AutomationRow
  <1>1. /\ a \in Automations /\ auto[a].next # None /\ auto[a].next <= now[t]
        /\ auto[a] \in AutomationColumns /\ auto[a].schedRev <= auto[a].revision
    BY DEF DueAutomations, TypeOK, RowsOK, AutomationRow
  <1>2. now[t] \in 0..MaxClock /\ now[t] \in Nat
    BY ConstantsAssumption DEF TypeOK, TicksOK, Times
  <1>3. /\ LatestDue(a, now[t]) \in auto[a].next..now[t]
        /\ Following(a, now[t]) \in Nat
    BY <1>1, <1>2, DueSlot DEF AutomationColumns
  <1>4. LatestDue(a, now[t]) \in 1..MaxClock
    BY <1>1, <1>2, <1>3, ConstantsAssumption DEF AutomationColumns, None
  <1>5. SlotKey(a, now[t]) \in Keys
    BY <1>1, <1>4 DEF SlotKey, Keys, AutomationColumns
  <1>6. [auto[a] EXCEPT !.next = Following(a, now[t])] \in AutomationRow
    <2>1. auto[a] \in AutomationRow
      BY <1>1 DEF TypeOK, RowsOK
    <2> QED BY <1>3, <2>1, AdvancedRow
  <1> QED BY <1>1, <1>3, <1>5, <1>6 DEF SlotKey, AutomationOf, SlotOf

LEMMA MaterializeTypes ==
    ASSUME TypeOK, NEW t \in Ticks, MaterializeDue(t)
    PROVE  TypeOK'
  <1> DEFINE slots(S) == {SlotKey(a, now[t]) : a \in S}
  <1> PICK S \in Batches(DueAutomations(now[t]), MaxBatchSize, ByNext) :
             /\ occ' = [k \in DOMAIN occ \cup slots(S) |->
                          IF k \in DOMAIN occ THEN occ[k]
                          ELSE NewOccurrence(AutomationOf(k))]
             /\ auto' = [a \in Automations |->
                           IF a \in S THEN [auto[a] EXCEPT !.next = Following(a, now[t])]
                           ELSE auto[a]]
             /\ notif' = notif \cup {<<SlotKey(a, now[t]), "occurrence_missed">> :
                                      a \in {x \in S : auto[x].policy = "skip"}}
    BY DEF MaterializeDue
  <1>1. S \subseteq DueAutomations(now[t])
    BY BatchWithin
  <1>2. \A k \in slots(S) : k \in Keys /\ AutomationOf(k) \in Automations
    BY <1>1, MaterializedSlot
  <1>3. DOMAIN occ' = DOMAIN occ \cup slots(S) /\ DOMAIN occ' \subseteq Keys
    BY <1>2 DEF TypeOK, RowsOK
  <1>4. occ' \in [DOMAIN occ' -> OccurrenceRow]
    BY <1>2, <1>3, WrittenRows DEF TypeOK, RowsOK
  <1>5. auto' \in [Automations -> AutomationRow]
    BY <1>1, MaterializedSlot DEF TypeOK, RowsOK
  <1>6. notif' \subseteq (DOMAIN occ') \X EventKinds
    BY <1>3 DEF TypeOK, RowsOK, EventKinds
  <1>7. RowsOK'
    BY <1>3, <1>4, <1>5, <1>6 DEF MaterializeDue, TypeOK, RowsOK
  <1>8. TicksOK'
    BY <1>3 DEF MaterializeDue, TypeOK, TicksOK, PCs, Handling
  <1> QED BY <1>7, <1>8 DEF MaterializeDue, TypeOK

\* Visiting a claim moves the tick to a handler about an existing occurrence, or
\* on to the next claim.
LEMMA VisitTypes ==
    ASSUME TypeOK, NEW t \in Ticks, NEW c \in work[t], NEW where, NEW key,
           Visit(t, c, where, key), DOMAIN occ' = DOMAIN occ,
           \/ where = "link" /\ key = NoKey
           \/ where \in Handling /\ key = c.key
    PROVE  TicksOK'
  <1>1. c \in [key : DOMAIN occ, gen : Nat]
    BY DEF TypeOK, TicksOK
  <1> QED BY <1>1 DEF Visit, TypeOK, TicksOK, PCs, Handling

LEMMA LinkTypes ==
    ASSUME TypeOK, NEW t \in Ticks, Link(t)
    PROVE  TypeOK'
  <1> PICK c \in work[t] :
        \/ LinkReplay(t, c) \/ LinkRun(t, c) \/ LinkCommitLost(t, c)
        \/ LinkOverCapacity(t, c) \/ LinkFenced(t, c) \/ LinkTransient(t, c)
        \/ LinkRefused(t, c)
    BY DEF Link
  <1> USE DEF Handling
  <1>1. CASE \E where, key :
               /\ Visit(t, c, where, key) /\ UNCHANGED dbVars
               /\ \/ where = "link" /\ key = NoKey
                  \/ where \in Handling /\ key = c.key
    <2>1. TicksOK'
      BY <1>1, VisitTypes DEF dbVars
    <2> QED BY <1>1, <2>1 DEF dbVars, TypeOK, RowsOK, Visit
  <1>2. CASE LinkRun(t, c)
    <2>1. c.key \in DOMAIN occ /\ DOMAIN occ \subseteq Keys
      BY DEF TypeOK, TicksOK, RowsOK
    <2>2. runs' \in Seq(RunRow)
      <3>1. [key |-> c.key, state |-> "active"] \in RunRow
        BY <2>1 DEF RunRow
      <3>2. runs' = runs \/ runs' = Append(runs, [key |-> c.key, state |-> "active"])
        BY <1>2 DEF LinkRun, CreateAndLink
      <3> QED BY <3>1, <3>2 DEF TypeOK, RowsOK
    <2>3. \E i \in Nat : occ' = [occ EXCEPT ![c.key].run = i, ![c.key].state = "run_created",
                                           ![c.key].deferred = FALSE]
      <3>1. RunsOf(c.key) # {} => (CHOOSE i \in RunsOf(c.key) : TRUE) \in Nat
        BY DEF RunsOf, TypeOK, RowsOK
      <3>2. Len(runs) + 1 \in Nat
        BY DEF TypeOK, RowsOK
      <3> QED BY <1>2, <3>1, <3>2 DEF LinkRun, CreateAndLink
    <2>4. occ' \in [DOMAIN occ -> OccurrenceRow]
      <3>1. occ \in [DOMAIN occ -> OccurrenceRow]
        BY DEF TypeOK, RowsOK
      <3>2. \A i \in Nat :
               [occ EXCEPT ![c.key].run = i, ![c.key].state = "run_created",
                           ![c.key].deferred = FALSE] \in [DOMAIN occ -> OccurrenceRow]
        BY <2>1, <3>1, LinkedRow
      <3>3. PICK i \in Nat : occ' = [occ EXCEPT ![c.key].run = i,
                                               ![c.key].state = "run_created",
                                               ![c.key].deferred = FALSE]
        BY <2>3
      <3>4. [occ EXCEPT ![c.key].run = i, ![c.key].state = "run_created",
                        ![c.key].deferred = FALSE] \in [DOMAIN occ -> OccurrenceRow]
        BY <3>2
      <3> QED BY <3>3, <3>4
    <2>5. TicksOK'
      BY <1>2, <2>4, VisitTypes DEF LinkRun
    <2>6. RowsOK'
      BY <1>2, <2>2, <2>4 DEF LinkRun, CreateAndLink, TypeOK, RowsOK
    <2> QED BY <1>2, <2>5, <2>6 DEF LinkRun, Visit, TypeOK
  <1> QED
    BY <1>1, <1>2 DEF LinkReplay, LinkCommitLost, LinkOverCapacity, LinkFenced,
                      LinkTransient, LinkRefused

\* Ending a tick clears its local state and touches no row.
LEMMA StopTypes ==
    ASSUME TypeOK, NEW t \in Ticks, Stop(t)
    PROVE  TypeOK'
  <1>1. 0 \in Times
    BY ConstantsAssumption DEF Times
  <1> QED BY <1>1 DEF Stop, dbVars, TypeOK, RowsOK, TicksOK, PCs, Handling

\* A handler that rewrites the row at hand and posts at most notices about it.
LEMMA HandlerTypes ==
    ASSUME TypeOK, NEW t \in Ticks, pc[t] \in Handling, Handled(t),
           NEW row \in OccurrenceRow, NEW posted, posted \subseteq {cur[t]} \X EventKinds,
           occ' = [occ EXCEPT ![cur[t]] = row], notif' = notif \cup posted,
           UNCHANGED <<auto, runs>>
    PROVE  TypeOK'
  <1>1. cur[t] \in DOMAIN occ
    BY DEF TypeOK, TicksOK
  <1>2. occ' \in [DOMAIN occ -> OccurrenceRow] /\ DOMAIN occ' = DOMAIN occ
    BY DEF TypeOK, RowsOK
  <1>3. RowsOK'
    BY <1>1, <1>2 DEF TypeOK, RowsOK
  <1>4. TicksOK'
    BY <1>2 DEF Handled, TypeOK, TicksOK, PCs, Handling
  <1> QED BY <1>3, <1>4 DEF Handled, TypeOK

\* The columns a handler rewrites besides the state.
LEMMA HandlerRow ==
    ASSUME NEW r \in OccurrenceRow
    PROVE  /\ \A b \in BOOLEAN : [r EXCEPT !.deferred = b] \in OccurrenceRow
           /\ [r EXCEPT !.attempts = @ + 1] \in OccurrenceRow
  BY DEF OccurrenceRow

LEMMA RunRowState ==
    ASSUME NEW r \in RunRow, NEW s \in {"active"} \cup RunOutcomes
    PROVE  [r EXCEPT !.state = s] \in RunRow
  BY DEF RunRow

LEMMA HandleTypes ==
    ASSUME TypeOK, NEW t \in Ticks, Handle(t)
    PROVE  TypeOK'
  <1> DEFINE k == cur[t]
  <1>1. CASE DeferCapacity(t)
    <2>1. pc[t] \in Handling /\ k \in DOMAIN occ
      BY <1>1 DEF DeferCapacity, Handling, TypeOK, TicksOK
    <2>2. [Released(t, k) EXCEPT !.deferred = TRUE] \in OccurrenceRow
      <3>1. Released(t, k) \in OccurrenceRow
        BY <2>1, WrittenRows
      <3> QED BY <3>1, HandlerRow
    <2>3. (IF occ[k].deferred THEN {<<k, "capacity_delayed">>} ELSE {}) \subseteq {k} \X EventKinds
      BY DEF EventKinds
    <2> QED BY <1>1, <2>1, <2>2, <2>3, HandlerTypes DEF DeferCapacity
  <1>2. CASE DeferRetry(t)
    <2> DEFINE exhausted == occ[k].attempts + 1 >= AttemptLimit(k)
               row == IF exhausted THEN Failed(k)
                      ELSE [Released(t, k) EXCEPT !.deferred = FALSE]
    <2>1. pc[t] \in Handling /\ k \in DOMAIN occ
      BY <1>2 DEF DeferRetry, Handling, TypeOK, TicksOK
    <2>2. Failed(k) \in OccurrenceRow
          /\ [Released(t, k) EXCEPT !.deferred = FALSE] \in OccurrenceRow
      <3>1. Released(t, k) \in OccurrenceRow /\ Failed(k) \in OccurrenceRow
        BY <2>1, WrittenRows
      <3> QED BY <3>1, HandlerRow
    <2>3. row \in OccurrenceRow
      BY <2>2
    <2>4. \A r \in OccurrenceRow : [r EXCEPT !.attempts = @ + 1] \in OccurrenceRow
      BY HandlerRow
    <2>5. (IF exhausted THEN {<<k, "retry_exhausted">>} ELSE {}) \subseteq {k} \X EventKinds
      BY DEF EventKinds
    <2>6. /\ occ' = [occ EXCEPT ![k] = [row EXCEPT !.attempts = @ + 1]]
          /\ notif' = notif \cup (IF exhausted THEN {<<k, "retry_exhausted">>} ELSE {})
          /\ UNCHANGED <<auto, runs>> /\ Handled(t)
      BY <1>2 DEF DeferRetry
    <2> HIDE DEF row, exhausted
    <2> QED BY <2>1, <2>3, <2>4, <2>5, <2>6, HandlerTypes
  <1>3. CASE FailClosed(t)
    <2>1. pc[t] \in Handling /\ k \in DOMAIN occ
      BY <1>3 DEF FailClosed, Handling, TypeOK, TicksOK
    <2>2. Failed(k) \in OccurrenceRow /\ occ[k] \in OccurrenceRow
      BY <2>1, WrittenRows DEF TypeOK, RowsOK
    <2>3. CASE occ[k].state \in Terminal
      <3>1. occ' = [occ EXCEPT ![k] = occ[k]] /\ notif' = notif \cup {}
        BY <1>3, <2>1, <2>3 DEF FailClosed, TypeOK, RowsOK
      <3> QED BY <1>3, <2>1, <2>2, <3>1, HandlerTypes DEF FailClosed
    <2>4. CASE occ[k].state \notin Terminal
      <3>1. {<<k, "occurrence_failed">>} \subseteq {k} \X EventKinds
        BY DEF EventKinds
      <3> QED BY <1>3, <2>1, <2>2, <2>4, <3>1, HandlerTypes DEF FailClosed
    <2> QED BY <2>3, <2>4
  <1>4. CASE Recheck(t)
    BY <1>4 DEF Recheck, Handled, dbVars, TypeOK, RowsOK, TicksOK, PCs, Handling
  <1>5. CASE AbortTick(t)
    BY <1>5, StopTypes DEF AbortTick
  <1> QED BY <1>1, <1>2, <1>3, <1>4, <1>5 DEF Handle

\* Changing a Run's state keeps the table well formed.
LEMMA RunStateTypes ==
    ASSUME TypeOK, NEW i, NEW s \in {"active"} \cup RunOutcomes
    PROVE  [runs EXCEPT ![i].state = s] \in Seq(RunRow)
  <1>1. CASE i \in DOMAIN runs
    <2>1. runs \in Seq(RunRow) /\ i \in 1..Len(runs)
      BY <1>1 DEF TypeOK, RowsOK
    <2>2. [runs[i] EXCEPT !.state = s] \in RunRow
      <3>1. runs[i] \in RunRow
        BY <2>1
      <3> QED BY <3>1, RunRowState
    <2> QED BY <2>1, <2>2, ExceptSeq
  <1>2. CASE i \notin DOMAIN runs
    <2>1. [runs EXCEPT ![i].state = s] = runs
      BY <1>2 DEF TypeOK, RowsOK
    <2> QED BY <2>1 DEF TypeOK, RowsOK
  <1> QED BY <1>1, <1>2

LEMMA DriveTypes ==
    ASSUME TypeOK, NEW t \in Ticks, Drive(t)
    PROVE  TypeOK'
  <1>1. occ' = occ /\ auto' = auto /\ notif' = notif
    BY DEF Drive
  <1> DEFINE i == occ[cur[t]].run
  <1>2. runs' \in Seq(RunRow)
    <2> PICK s \in IF runs[i].state = "active" THEN {"active"} \cup RunOutcomes
                   ELSE {runs[i].state} :
                runs' = [runs EXCEPT ![i].state = s]
      BY DEF Drive
    <2>1. CASE i \in DOMAIN runs
      <3>1. runs[i] \in RunRow
        BY <2>1 DEF TypeOK, RowsOK
      <3>2. s \in {"active"} \cup RunOutcomes
        BY <3>1 DEF RunRow
      <3> QED BY <3>2, RunStateTypes
    <2>2. CASE i \notin DOMAIN runs
      <3>1. runs' = runs
        BY <2>2 DEF TypeOK, RowsOK
      <3> QED BY <3>1 DEF TypeOK, RowsOK
    <2> QED BY <2>1, <2>2
  <1>3. RowsOK'
    BY <1>1, <1>2 DEF TypeOK, RowsOK
  <1>4. TicksOK'
    BY <1>1 DEF Drive, TypeOK, TicksOK, PCs, Handling
  <1> QED BY <1>3, <1>4 DEF Drive, TypeOK

\* The steps of a tick that only move it to another place.
LEMMA LoopTypes ==
    ASSUME TypeOK, NEW t \in Ticks,
           \/ LinksDone(t) \/ EndTick(t) \/ Crash(t)
           \/ \E c \in work[t] : Coordinate(t, c)
    PROVE  TypeOK'
  <1>1. CASE EndTick(t) \/ Crash(t)
    BY <1>1, StopTypes DEF EndTick, Crash
  <1>2. CASE LinksDone(t)
    BY <1>2 DEF LinksDone, dbVars, TypeOK, RowsOK, TicksOK, PCs, Handling
  <1>3. ASSUME NEW c \in work[t], Coordinate(t, c)
        PROVE  TypeOK'
    <2>1. c.key \in DOMAIN occ
      BY DEF TypeOK, TicksOK
    <2>2. pc' \in [Ticks -> PCs] /\ cur' \in [Ticks -> DOMAIN occ \cup {NoKey}]
      BY <1>3, <2>1 DEF Coordinate, TypeOK, TicksOK, PCs, Handling
    <2>3. \A u \in Ticks : pc'[u] \in Handling => cur'[u] \in DOMAIN occ
      BY <1>3, <2>1 DEF Coordinate, TypeOK, TicksOK, PCs, Handling
    <2> QED
      BY <1>3, <2>2, <2>3 DEF Coordinate, dbVars, TypeOK, RowsOK, TicksOK
  <1> QED BY <1>1, <1>2, <1>3

\* The clock, hand-made Runs and Runs that end.
LEMMA EnvironmentTypes ==
    ASSUME TypeOK, Advance \/ CreateManualRun \/ \E i \in DOMAIN runs : RunEnds(i)
    PROVE  TypeOK'
  <1>1. CASE Advance
    <2>1. clock' \in Times
      BY <1>1, ConstantsAssumption DEF Advance, Times, TypeOK
    <2> QED BY <1>1, <2>1 DEF Advance, dbVars, tickVars, TypeOK, RowsOK, TicksOK
  <1>2. CASE CreateManualRun
    <2>1. [key |-> NoKey, state |-> "active"] \in RunRow
      BY DEF RunRow
    <2>2. runs' \in Seq(RunRow)
      BY <1>2, <2>1 DEF CreateManualRun, TypeOK, RowsOK
    <2> QED BY <1>2, <2>2 DEF CreateManualRun, tickVars, TypeOK, RowsOK, TicksOK
  <1>3. ASSUME NEW i \in DOMAIN runs, RunEnds(i)
        PROVE  TypeOK'
    <2>1. runs' \in Seq(RunRow)
      BY <1>3, RunStateTypes DEF RunEnds
    <2> QED BY <1>3, <2>1 DEF RunEnds, tickVars, TypeOK, RowsOK, TicksOK
  <1> QED BY <1>1, <1>2, <1>3

LEMMA TypeStep ==
    ASSUME TypeOK, [Next]_vars
    PROVE  TypeOK'
  <1>1. CASE UNCHANGED vars
    BY <1>1 DEF vars, TypeOK, RowsOK, TicksOK
  <1>2. CASE Environment
    BY <1>2, EnvironmentTypes, OperatorTypes, LoopTypes DEF Environment
  <1>3. ASSUME NEW t \in Ticks, BeginTick(t) \/ TickStep(t)
        PROVE  TypeOK'
    BY <1>3, BeginTypes, ReclaimTypes, MaterializeTypes, ClaimTypes, LinkTypes,
       HandleTypes, LoopTypes, DriveTypes, SettleTypes DEF TickStep
  <1> QED BY <1>1, <1>2, <1>3 DEF Next

\* In every reachable state each row has the columns of its table and each tick
\* names only occurrences that exist, for any number of Automations and ticks.
THEOREM TypeCorrect == Spec => []TypeOK
  <1>1. Init => TypeOK
    BY TypeInit
  <1>2. TypeOK /\ [Next]_vars => TypeOK'
    BY TypeStep
  <1> QED BY <1>1, <1>2, PTL DEF Spec

-----------------------------------------------------------------------------
(* What a step may do to the occurrence table.                             *)

\* No row appears or vanishes, and only open rows change.
OnlyOpenRows ==
    /\ DOMAIN occ' = DOMAIN occ
    /\ \A k \in DOMAIN occ : occ[k].state \notin Open => occ'[k] = occ[k]

LEMMA ReconcileOpen ==
    ASSUME TypeOK, NEW limit, Reconcile(limit)
    PROVE  OnlyOpenRows
  <1> PICK S \in Batches(LinkedOpen, limit, BySlot) :
             occ' = [k \in DOMAIN occ |-> IF k \in S THEN Mirror(k) ELSE occ[k]]
    BY DEF Reconcile
  <1>1. \A k \in S : occ[k].state \in Open
    BY BatchWithin DEF LinkedOpen, Open
  <1> QED BY <1>1 DEF OnlyOpenRows

LEMMA GrantOpen ==
    ASSUME TypeOK, NEW t \in Ticks, ReclaimExpired(t) \/ ClaimDue(t)
    PROVE  OnlyOpenRows
  <1>1. CASE ReclaimExpired(t)
    <2> PICK S \in Batches(ExpiredClaims(now[t]), MaxBatchSize, ByExpiry) :
               occ' = [k \in DOMAIN occ |-> IF k \in S THEN Granted(t, k) ELSE occ[k]]
      BY <1>1 DEF ReclaimExpired
    <2>1. \A k \in S : occ[k].state \in Open
      BY BatchWithin DEF ExpiredClaims, Open
    <2> QED BY <2>1 DEF OnlyOpenRows
  <1>2. CASE ClaimDue(t)
    <2> PICK S \in Batches(Claimable(now[t]), Smaller(MaxBatchSize, Room), BySlot) :
               occ' = [k \in DOMAIN occ |-> IF k \in S THEN Granted(t, k) ELSE occ[k]]
      BY <1>2 DEF ClaimDue
    <2>1. \A k \in S : occ[k].state \in Open
      BY BatchWithin DEF Claimable, Open
    <2> QED BY <2>1 DEF OnlyOpenRows
  <1> QED BY <1>1, <1>2

LEMMA LinkOpen ==
    ASSUME TypeOK, NEW t \in Ticks, Link(t)
    PROVE  OnlyOpenRows
  <1>1. CASE occ' = occ
    BY <1>1 DEF OnlyOpenRows
  <1>2. ASSUME NEW c \in work[t], LinkRun(t, c)
        PROVE  OnlyOpenRows
    <2>1. occ[c.key].state \in Open
      BY <1>2 DEF LinkRun, ValidClaim, HoldsLease, Open
    <2>2. DOMAIN occ' = DOMAIN occ /\ \A k \in DOMAIN occ : k # c.key => occ'[k] = occ[k]
      BY <1>2 DEF LinkRun, CreateAndLink, TypeOK, RowsOK
    <2> QED BY <2>1, <2>2 DEF OnlyOpenRows
  <1> QED
    BY <1>1, <1>2 DEF Link, LinkReplay, LinkCommitLost, LinkOverCapacity, LinkFenced,
                      LinkTransient, LinkRefused, dbVars

LEMMA HandleOpen ==
    ASSUME TypeOK, NEW t \in Ticks, Handle(t)
    PROVE  OnlyOpenRows
  <1>1. CASE occ' = occ
    BY <1>1 DEF OnlyOpenRows
  <1>2. CASE \E row : occ' = [occ EXCEPT ![cur[t]] = row] /\ occ[cur[t]].state \in Open
    BY <1>2 DEF OnlyOpenRows, TypeOK, RowsOK
  <1>3. CASE DeferCapacity(t) \/ DeferRetry(t)
    BY <1>2, <1>3 DEF DeferCapacity, DeferRetry, CanDefer, Open
  <1>4. CASE FailClosed(t)
    <2>1. cur[t] \in DOMAIN occ
      BY <1>4 DEF FailClosed, TypeOK, TicksOK, Handling
    <2>2. occ[cur[t]].state \notin Terminal => occ[cur[t]].state \in Open
      BY <2>1 DEF TypeOK, RowsOK, OccurrenceRow, OccurrenceStates
    <2> QED BY <1>1, <1>2, <1>4, <2>2 DEF FailClosed
  <1> QED
    BY <1>1, <1>3, <1>4 DEF Handle, Recheck, AbortTick, Stop, dbVars

\* Materialization inserts rows; every other step leaves settled rows alone.
LEMMA OpenStep ==
    ASSUME TypeOK, [Next]_vars
    PROVE  OnlyOpenRows \/ \E t \in Ticks : MaterializeDue(t)
  <1>1. ASSUME occ' = occ PROVE OnlyOpenRows
    BY <1>1 DEF OnlyOpenRows
  <1>2. CASE Environment
    BY <1>1, <1>2 DEF Environment, Advance, CreateManualRun, RunEnds, Crash, Stop,
       dbVars, Operator, Edit, CreateAutomation, UpdateLabel, UpdateDefinition,
       UpdateSchedule, SetExecutionMode, EnableAutomation, ResumeAutomation, Activate,
       PauseAutomation, CancelAutomation
  <1>3. ASSUME NEW t \in Ticks, BeginTick(t) \/ TickStep(t), ~MaterializeDue(t)
        PROVE  OnlyOpenRows
    <2>1. CASE BeginTick(t) \/ Settle(t)
      BY <2>1, ReconcileOpen DEF BeginTick, Settle
    <2>2. CASE LinksDone(t) \/ EndTick(t) \/ \E c \in work[t] : Coordinate(t, c)
      BY <1>1, <2>2 DEF LinksDone, EndTick, Stop, Coordinate, dbVars
    <2>3. CASE Drive(t)
      BY <1>1, <2>3 DEF Drive
    <2> QED BY <1>3, <2>1, <2>2, <2>3, GrantOpen, LinkOpen, HandleOpen DEF TickStep
  <1>4. CASE UNCHANGED vars
    BY <1>1, <1>4 DEF vars
  <1> QED BY <1>2, <1>3, <1>4 DEF Next

\* Terminal occurrences are immutable in every step of the system: late handlers,
\* reconciliation, reclaiming and materializing ticks never reopen or rewrite one.
THEOREM TerminalImmutable == Spec => TerminalForever
  <1>1. TypeOK /\ [Next]_vars => [TerminalKept]_vars
    <2> SUFFICES ASSUME TypeOK, [Next]_vars, NEW k \in DOMAIN occ
                 PROVE  k \in DOMAIN occ' /\ (occ[k].state \in Terminal => occ'[k] = occ[k])
      BY DEF TerminalKept
    <2>1. CASE OnlyOpenRows
      BY <2>1 DEF OnlyOpenRows, Open, Terminal
    <2>2. CASE \E t \in Ticks : MaterializeDue(t)
      BY <2>2 DEF MaterializeDue
    <2> QED BY <2>1, <2>2, OpenStep
  <1> QED BY <1>1, TypeCorrect, PTL DEF Spec, TerminalForever

-----------------------------------------------------------------------------
(* Slots: one open occurrence, and the cached slot always ahead.           *)

\* What a step other than materialization may do to the cached slot.
ScheduleKept(a) ==
    \/ auto'[a].schedRev > auto[a].schedRev
    \/ /\ auto'[a].schedRev = auto[a].schedRev
       /\ \/ auto'[a].next = auto[a].next
          \/ auto'[a].next = None
          \/ auto'[a].next > clock

\* The numbers in a row.
LEMMA AutomationRowNumbers ==
    \A row \in AutomationRow :
        row.schedRev \in Nat /\ row.next \in Nat /\ row.schedule \in Schedules
BY ConstantsAssumption DEF AutomationRow, AutomationColumns

\* The parts of an occurrence key.
LEMMA KeyParts ==
    \A k \in Keys : AutomationOf(k) \in Automations /\ SlotOf(k) \in Nat /\ SchedRevOf(k) \in Nat
BY ConstantsAssumption DEF Keys, AutomationOf, SlotOf, SchedRevOf

\* Such steps, with no new rows and time moving forward, keep the invariant.
LEMMA QuietStep ==
    ASSUME SlotInv, TypeOK', OnlyOpenRows,
           \A a \in Automations : ScheduleKept(a),
           clock' \in {clock, clock + 1},
           \A t \in Ticks : now'[t] \in {now[t], clock, 0}
    PROVE  SlotInv'
  <1>1. clock \in Nat /\ clock' \in Nat /\ clock <= clock'
    BY ConstantsAssumption DEF SlotInv, TypeOK, Times
  <1>2. \A k \in DOMAIN occ : AutomationOf(k) \in Automations /\ SlotOf(k) \in Nat
                               /\ SchedRevOf(k) \in Nat
    <2>1. \A k \in DOMAIN occ : k \in Keys
      BY DEF SlotInv, TypeOK, RowsOK
    <2> QED BY <2>1, KeyParts
  <1>3. \A a \in Automations : /\ auto[a].schedRev \in Nat /\ auto'[a].schedRev \in Nat
                               /\ auto[a].next \in Nat /\ auto'[a].next \in Nat
    <2>1. \A row \in AutomationRow : row.schedRev \in Nat /\ row.next \in Nat
      BY AutomationRowNumbers
    <2>2. \A a \in Automations : auto[a] \in AutomationRow /\ auto'[a] \in AutomationRow
      BY DEF SlotInv, TypeOK, RowsOK
    <2> QED BY <2>1, <2>2
  <1>4. NothingAhead'
    <2>1. \A t \in Ticks : now'[t] <= clock'
      <3> SUFFICES ASSUME NEW t \in Ticks PROVE now'[t] <= clock'
        OBVIOUS
      <3>1. now[t] \in Nat /\ now[t] <= clock
        BY ConstantsAssumption DEF SlotInv, NothingAhead, TypeOK, TicksOK, Times
      <3> QED BY <1>1, <3>1
    <2>2. \A k \in DOMAIN occ : SlotOf(k) <= clock'
      BY <1>1, <1>2 DEF SlotInv, NothingAhead
    <2>3. \A k \in DOMAIN occ : SchedRevOf(k) <= auto'[AutomationOf(k)].schedRev
      <3> SUFFICES ASSUME NEW k \in DOMAIN occ
                   PROVE  SchedRevOf(k) <= auto'[AutomationOf(k)].schedRev
        OBVIOUS
      <3>1. auto[AutomationOf(k)].schedRev <= auto'[AutomationOf(k)].schedRev
        BY <1>2, <1>3 DEF ScheduleKept
      <3> QED BY <1>2, <1>3, <3>1 DEF SlotInv, NothingAhead
    <2> QED BY <2>1, <2>2, <2>3 DEF NothingAhead, OnlyOpenRows, SlotOf, SchedRevOf, AutomationOf
  <1>5. NextAhead'
    <2> SUFFICES ASSUME NEW a \in Automations, NEW k \in DOMAIN occ,
                        AutomationOf(k) = a, SchedRevOf(k) = auto'[a].schedRev,
                        auto'[a].next # None
                 PROVE  SlotOf(k) < auto'[a].next
      BY DEF NextAhead, OnlyOpenRows, SlotOf, SchedRevOf, AutomationOf
    <2>1. SchedRevOf(k) <= auto[a].schedRev /\ SlotOf(k) <= clock
      BY DEF SlotInv, NothingAhead
    <2>2. auto'[a].schedRev = auto[a].schedRev
      BY <1>2, <1>3, <2>1 DEF ScheduleKept
    <2>3. CASE auto'[a].next = auto[a].next
      BY <2>2, <2>3 DEF SlotInv, NextAhead
    <2>4. CASE auto'[a].next > clock
      BY <1>1, <1>2, <1>3, <2>1, <2>4
    <2> QED BY <1>3, <2>2, <2>3, <2>4 DEF ScheduleKept
  <1>6. SingleOpenOccurrence'
    BY DEF SlotInv, SingleOpenOccurrence, OnlyOpenRows, AutomationOf
  <1> QED BY <1>4, <1>5, <1>6 DEF SlotInv

\* Operator commands move the schedule revision, drop the slot, or compute a later one.
LEMMA OperatorSchedules ==
    ASSUME TypeOK, NEW b \in Automations, Operator(b)
    PROVE  \A a \in Automations : ScheduleKept(a)
  <1> SUFFICES ASSUME NEW a \in Automations PROVE ScheduleKept(a)
    OBVIOUS
  <1>1. /\ auto \in [Automations -> AutomationRow]
        /\ auto[b].schedRev \in Nat /\ auto[b].schedule \in Schedules /\ clock \in Nat
    <2>1. auto \in [Automations -> AutomationRow] /\ auto[b] \in AutomationRow /\ clock \in Nat
      BY ConstantsAssumption DEF TypeOK, RowsOK, Times
    <2> QED BY <2>1, AutomationRowNumbers
  <1>2. CASE a # b
    BY <1>1, <1>2 DEF ScheduleKept, Operator, Edit, CreateAutomation, UpdateLabel,
       UpdateDefinition, UpdateSchedule, SetExecutionMode, EnableAutomation,
       ResumeAutomation, Activate, PauseAutomation, CancelAutomation
  <1>3. ASSUME NEW row, Edit(b, row), a = b,
               \/ row.schedRev > auto[b].schedRev
               \/ /\ row.schedRev = auto[b].schedRev
                  /\ row.next = auto[b].next \/ row.next = None \/ row.next > clock
        PROVE  ScheduleKept(a)
    BY <1>1, <1>3 DEF Edit, ScheduleKept
  <1>4. auto[b] \in AutomationColumns
    BY <1>1 DEF AutomationRow
  <1>5. CASE a = b /\ CreateAutomation(b)
    <2> PICK s \in Schedules, m \in Modes, p \in Policies, n \in RetryLimits :
               Edit(b, [NoAutomation EXCEPT !.lifecycle = "draft", !.schedule = s,
                                            !.mode = m, !.policy = p, !.retryLimit = n])
      BY <1>5 DEF CreateAutomation
    <2>1. auto[b].schedRev = 0
      BY <1>1, <1>5 DEF CreateAutomation, AutomationRow
    <2> QED BY <1>3, <1>5, <2>1 DEF NoAutomation, None
  <1>6. CASE a = b /\ UpdateSchedule(b)
    <2> PICK s \in Schedules :
               Edit(b, [Revised(b) EXCEPT
                          !.schedule = s, !.schedRev = @ + 1,
                          !.next = IF auto[b].lifecycle = "paused"
                                   THEN NextPoint(s, clock) ELSE None])
      <3>1. UpdateSchedule(b)
        BY <1>6
      <3> QED BY <3>1 DEF UpdateSchedule
    <2> DEFINE n   == IF auto[b].lifecycle = "paused" THEN NextPoint(s, clock) ELSE None
               row == [Revised(b) EXCEPT !.schedule = s, !.schedRev = @ + 1, !.next = n]
    <2>1. row.schedRev = auto[b].schedRev + 1
      BY <1>4 DEF Revised, AutomationColumns
    <2>2. row.schedRev > auto[b].schedRev
      BY <1>1, <2>1
    <2>3. Edit(b, row)
      OBVIOUS
    <2> HIDE DEF row
    <2> QED BY <1>3, <1>6, <2>2, <2>3
  <1>7. CASE a = b /\ (EnableAutomation(b) \/ ResumeAutomation(b))
    BY <1>1, <1>3, <1>4, <1>7, NextPointLater
       DEF EnableAutomation, ResumeAutomation, Activate, Revised, AutomationColumns
  <1>8. CASE a = b /\ (UpdateLabel(b) \/ UpdateDefinition(b) \/ SetExecutionMode(b)
                        \/ PauseAutomation(b) \/ CancelAutomation(b))
    BY <1>1, <1>3, <1>4, <1>8 DEF UpdateLabel, UpdateDefinition, SetExecutionMode,
       PauseAutomation, CancelAutomation, Revised, AutomationColumns, None
  <1> QED BY <1>2, <1>5, <1>6, <1>7, <1>8 DEF Operator

\* Of an Automation that is due, no occurrence is open and none has a later slot.
LEMMA DueMeansClear ==
    ASSUME SlotInv, NEW t \in Ticks, NEW a \in DueAutomations(now[t]),
           NEW k \in DOMAIN occ, AutomationOf(k) = a
    PROVE  /\ occ[k].state \notin Open
           /\ SchedRevOf(k) = auto[a].schedRev => SlotOf(k) < auto[a].next
  <1>1. a \in Automations /\ auto[a].next # None /\ auto[a].next \in Nat /\ SlotOf(k) \in Nat
    <2>1. a \in Automations /\ auto[a].next # None
      BY DEF DueAutomations
    <2>2. auto[a] \in AutomationColumns
      BY <2>1 DEF SlotInv, TypeOK, RowsOK, AutomationRow
    <2>3. k \in Keys
      BY DEF SlotInv, TypeOK, RowsOK
    <2> QED BY <2>1, <2>2, <2>3, ConstantsAssumption DEF AutomationColumns, Keys, SlotOf
  <1>2. SchedRevOf(k) = auto[a].schedRev => SlotOf(k) < auto[a].next
    BY <1>1 DEF SlotInv, NextAhead
  <1>3. occ[k].state \in Open => SchedRevOf(k) = auto[a].schedRev /\ SlotOf(k) = auto[a].next
    BY DEF DueAutomations
  <1> QED BY <1>1, <1>2, <1>3

LEMMA MaterializeSlots ==
    ASSUME SlotInv, NEW t \in Ticks, MaterializeDue(t)
    PROVE  SlotInv'
  <1> DEFINE slots(S) == {SlotKey(a, now[t]) : a \in S}
  <1> PICK S \in Batches(DueAutomations(now[t]), MaxBatchSize, ByNext) :
             /\ occ' = [k \in DOMAIN occ \cup slots(S) |->
                          IF k \in DOMAIN occ THEN occ[k]
                          ELSE NewOccurrence(AutomationOf(k))]
             /\ auto' = [a \in Automations |->
                           IF a \in S THEN [auto[a] EXCEPT !.next = Following(a, now[t])]
                           ELSE auto[a]]
    BY DEF MaterializeDue
  <1>0. TypeOK'
    BY MaterializeTypes DEF SlotInv
  <1>1. S \subseteq DueAutomations(now[t]) /\ clock' = clock /\ now' = now
    BY BatchWithin DEF MaterializeDue
  <1>2. clock \in Nat /\ now[t] \in Nat /\ now[t] <= clock
    BY ConstantsAssumption DEF SlotInv, NothingAhead, TypeOK, TicksOK, Times
  <1>3. \A a \in Automations :
           /\ auto[a] \in AutomationColumns /\ auto[a].schedRev \in Nat
           /\ auto'[a].schedRev = auto[a].schedRev
           /\ a \notin S => auto'[a] = auto[a]
           /\ a \in S => auto'[a].next = Following(a, now[t])
    BY ConstantsAssumption DEF SlotInv, TypeOK, RowsOK, AutomationRow, AutomationColumns
  <1>4. \A a \in S : /\ a \in Automations
                     /\ AutomationOf(SlotKey(a, now[t])) = a
                     /\ SchedRevOf(SlotKey(a, now[t])) = auto[a].schedRev
                     /\ SlotOf(SlotKey(a, now[t])) \in Nat
                     /\ SlotOf(SlotKey(a, now[t])) <= now[t]
    <2> SUFFICES ASSUME NEW a \in S
                 PROVE  /\ a \in Automations
                        /\ AutomationOf(SlotKey(a, now[t])) = a
                        /\ SchedRevOf(SlotKey(a, now[t])) = auto[a].schedRev
                        /\ SlotOf(SlotKey(a, now[t])) \in Nat
                        /\ SlotOf(SlotKey(a, now[t])) <= now[t]
      OBVIOUS
    <2>1. a \in DueAutomations(now[t])
      BY <1>1
    <2>2. /\ a \in Automations /\ AutomationOf(SlotKey(a, now[t])) = a
          /\ SlotOf(SlotKey(a, now[t])) \in auto[a].next..now[t]
      BY <2>1, MaterializedSlot DEF SlotInv
    <2>3. auto[a].next \in Nat
      BY <1>3, <2>2 DEF AutomationColumns
    <2>4. SchedRevOf(SlotKey(a, now[t])) = auto[a].schedRev
      BY DEF SlotKey, SchedRevOf
    <2> QED BY <1>2, <2>2, <2>3, <2>4
  <1>5. \A a \in S : Following(a, now[t]) \in Nat
                     /\ (Following(a, now[t]) # None => Following(a, now[t]) > now[t])
    <2> SUFFICES ASSUME NEW a \in S
                 PROVE  Following(a, now[t]) \in Nat
                        /\ (Following(a, now[t]) # None => Following(a, now[t]) > now[t])
      OBVIOUS
    <2>1. auto[a].next \in Nat /\ auto[a].next <= now[t] /\ auto[a].schedule \in Schedules
      BY <1>1, <1>3, <1>4 DEF DueAutomations, AutomationColumns
    <2> QED BY <1>2, <2>1, DueSlot
  <1>6. \A k \in DOMAIN occ' : \/ k \in DOMAIN occ /\ occ'[k] = occ[k]
                               \/ \E a \in S : k = SlotKey(a, now[t])
    OBVIOUS
  <1>7. \A k \in DOMAIN occ : AutomationOf(k) \in Automations /\ SlotOf(k) \in Nat
    BY ConstantsAssumption DEF SlotInv, TypeOK, RowsOK, Keys, AutomationOf, SlotOf
  <1>8. NothingAhead'
    <2>1. \A k \in DOMAIN occ' : SlotOf(k) <= clock
      BY <1>2, <1>4, <1>6 DEF SlotInv, NothingAhead
    <2>2. \A k \in DOMAIN occ' : SchedRevOf(k) <= auto'[AutomationOf(k)].schedRev
      BY <1>3, <1>4, <1>6, <1>7 DEF SlotInv, NothingAhead
    <2> QED BY <1>1, <2>1, <2>2 DEF SlotInv, NothingAhead, SlotOf, SchedRevOf, AutomationOf
  <1>9. NextAhead'
    <2> SUFFICES ASSUME NEW a \in Automations, NEW k \in DOMAIN occ',
                        AutomationOf(k) = a, SchedRevOf(k) = auto'[a].schedRev,
                        auto'[a].next # None
                 PROVE  SlotOf(k) < auto'[a].next
      BY DEF NextAhead, SlotOf, SchedRevOf, AutomationOf
    <2>1. CASE a \in S
      <3>1. auto'[a].next \in Nat /\ auto'[a].next > now[t]
        BY <1>3, <1>5, <2>1
      <3>2. CASE k \in DOMAIN occ
        <4>1. SlotOf(k) < auto[a].next
          BY <1>1, <1>3, <2>1, <3>2, DueMeansClear
        <4>2. auto[a].next \in Nat /\ auto[a].next <= now[t]
          BY <1>1, <1>3, <2>1 DEF DueAutomations, AutomationColumns
        <4> QED BY <1>2, <1>7, <3>1, <3>2, <4>1, <4>2
      <3>3. CASE \E b \in S : k = SlotKey(b, now[t])
        BY <1>2, <1>4, <3>1, <3>3
      <3> QED BY <1>6, <3>2, <3>3
    <2>2. CASE a \notin S
      <3>1. k \in DOMAIN occ
        BY <1>4, <1>6, <2>2
      <3> QED BY <1>3, <2>2, <3>1 DEF SlotInv, NextAhead
    <2> QED BY <2>1, <2>2
  <1>10. SingleOpenOccurrence'
    <2> SUFFICES ASSUME NEW j \in DOMAIN occ', NEW k \in DOMAIN occ',
                        AutomationOf(j) = AutomationOf(k),
                        occ'[j].state \in Open, occ'[k].state \in Open
                 PROVE  j = k
      BY ZenonT(30) DEF SingleOpenOccurrence, AutomationOf
    <2>1. \A i \in DOMAIN occ' :
             AutomationOf(i) \in S /\ occ'[i].state \in Open
               => i = SlotKey(AutomationOf(i), now[t])
      BY <1>1, <1>4, <1>6, DueMeansClear
    <2>2. CASE AutomationOf(k) \in S
      BY <2>1, <2>2
    <2>3. CASE AutomationOf(k) \notin S
      <3>1. /\ j \in DOMAIN occ /\ occ'[j] = occ[j]
            /\ k \in DOMAIN occ /\ occ'[k] = occ[k]
        BY <1>4, <1>6, <2>3
      <3> QED BY <3>1 DEF SlotInv, SingleOpenOccurrence
    <2> QED BY <2>2, <2>3
  <1> QED BY <1>0, <1>8, <1>9, <1>10 DEF SlotInv

LEMMA SlotInit == Init => SlotInv
  <1> SUFFICES ASSUME Init PROVE SlotInv
    OBVIOUS
  <1>1. TypeOK
    BY TypeInit
  <1>2. DOMAIN occ = {}
    BY DEF Init
  <1>3. NothingAhead
    BY <1>2 DEF Init, NothingAhead
  <1> QED BY <1>1, <1>2, <1>3 DEF SlotInv, NextAhead, SingleOpenOccurrence

LEMMA SlotStep ==
    ASSUME SlotInv, [Next]_vars
    PROVE  SlotInv'
  <1>1. TypeOK /\ TypeOK'
    BY TypeStep DEF SlotInv
  <1>2. CASE \E t \in Ticks : MaterializeDue(t)
    BY <1>2, MaterializeSlots
  <1>3. CASE ~\E t \in Ticks : MaterializeDue(t)
    <2>1. OnlyOpenRows
      BY <1>1, <1>3, OpenStep
    <2>2. ASSUME auto' = auto PROVE \A a \in Automations : ScheduleKept(a)
      BY <2>2 DEF ScheduleKept
    <2>3. CASE UNCHANGED vars
      BY <1>1, <2>1, <2>2, <2>3, QuietStep DEF vars
    <2>4. CASE Advance
      BY <1>1, <2>1, <2>2, <2>4, QuietStep DEF Advance, dbVars, tickVars
    <2>5. CASE CreateManualRun \/ \E i \in DOMAIN runs : RunEnds(i)
      BY <1>1, <2>1, <2>2, <2>5, QuietStep DEF CreateManualRun, RunEnds, tickVars
    <2>6. ASSUME NEW a \in Automations, Operator(a) PROVE SlotInv'
      <3>1. clock' = clock /\ now' = now
        BY <2>6 DEF Operator, Edit, CreateAutomation, UpdateLabel, UpdateDefinition,
           UpdateSchedule, SetExecutionMode, EnableAutomation, ResumeAutomation, Activate,
           PauseAutomation, CancelAutomation, tickVars
      <3> QED BY <1>1, <2>1, <2>6, <3>1, OperatorSchedules, QuietStep
    <2>7. ASSUME NEW t \in Ticks, BeginTick(t) \/ TickStep(t) \/ Crash(t) PROVE SlotInv'
      <3>1. now \in [Ticks -> Times]
        BY <1>1 DEF TypeOK, TicksOK
      <3>2. /\ clock' = clock /\ auto' = auto
            /\ \A u \in Ticks : now'[u] \in {now[u], clock, 0}
        <4>1. CASE BeginTick(t)
          BY <3>1, <4>1 DEF BeginTick, Reconcile
        <4>2. CASE ReclaimExpired(t) \/ ClaimDue(t)
          BY <4>2 DEF ReclaimExpired, ClaimDue
        <4>3. CASE Link(t)
          BY <4>3 DEF Link, LinkReplay, LinkRun, CreateAndLink, LinkCommitLost,
             LinkOverCapacity, LinkFenced, LinkTransient, LinkRefused, Visit, dbVars
        <4>4. CASE EndTick(t) \/ Crash(t) \/ AbortTick(t)
          BY <3>1, <4>4 DEF EndTick, Crash, AbortTick, Stop, dbVars
        <4>5. CASE DeferCapacity(t) \/ DeferRetry(t) \/ FailClosed(t) \/ Recheck(t)
          BY <4>5 DEF DeferCapacity, DeferRetry, FailClosed, Recheck, Handled, dbVars
        <4>6. CASE LinksDone(t) \/ \E c \in work[t] : Coordinate(t, c)
          BY <4>6 DEF LinksDone, Coordinate, dbVars
        <4>7. CASE Drive(t) \/ Settle(t)
          BY <4>7 DEF Drive, Settle, Reconcile
        <4> QED BY <1>3, <2>7, <4>1, <4>2, <4>3, <4>4, <4>5, <4>6, <4>7 DEF TickStep, Handle
      <3> QED BY <1>1, <2>1, <2>2, <3>2, QuietStep
    <2> QED BY <1>3, <2>3, <2>4, <2>5, <2>6, <2>7 DEF Next, Environment
  <1> QED BY <1>2, <1>3

LEMMA SlotInvariant == Spec => []SlotInv
  BY SlotInit, SlotStep, PTL DEF Spec

\* However many ticks materialize concurrently, and however often the operator pauses,
\* resumes and reschedules, an Automation has at most one open occurrence.
THEOREM SingleOpen == Spec => []SingleOpenOccurrence
  <1>1. SlotInv => SingleOpenOccurrence
    BY DEF SlotInv
  <1> QED BY <1>1, SlotInvariant, PTL

\* The cached next_occurrence_at stays beyond every slot recorded for the current
\* schedule revision, so a stale tick cannot materialize a slot a second time.
THEOREM NextSlotAhead == Spec => []NextAhead
  <1>1. SlotInv => NextAhead
    BY DEF SlotInv
  <1> QED BY <1>1, SlotInvariant, PTL

=============================================================================
