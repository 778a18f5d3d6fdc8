---------------------- MODULE AutomationOutcomeProofs ----------------------
(***************************************************************************)
(* What an occurrence ends as, for every value of the constants: the Run   *)
(* it is linked to, the notices its outcome posts, the setup attempts it   *)
(* uses.  Every step of the system moves a row in one of the few ways of   *)
(* RowStep; the invariants follow from those moves, action by action.      *)
(***************************************************************************)
EXTENDS AutomationSchedulerProofs, FiniteSetTheorems

\* A row that still waits for its Run has none, so a linked row is never deferred,
\* reclaimed or failed closed a second time.
WaitingUnlinked ==
    \A k \in DOMAIN occ : occ[k].state \in {"due", "claimed"} => occ[k].run = None

WorkInv == SlotInv /\ OneRunPerOccurrence /\ WaitingUnlinked /\ OutcomesReported
                   /\ RetriesBounded

\* The notices that report an outcome of k.
Notices(k) == {e \in EventKinds \ {"capacity_delayed"} : <<k, e>> \in notif}

Linking(t, c) == t \in Ticks /\ c \in work[t] /\ LinkRun(t, c)

\* How a step may move an open row without linking it.
Moves(k) ==
    /\ occ[k].state \in Open /\ occ'[k].run = occ[k].run
    /\ occ[k].state = "due" /\ occ'[k].state = "claimed" => \E t \in Ticks : ClaimDue(t)
    /\ \/ /\ occ'[k].state \in {"due", "claimed"} /\ occ[k].run = None
          /\ Notices(k)' = Notices(k)
       \/ /\ occ'[k].state = "run_created" /\ occ[k].run # None
          /\ Notices(k)' = Notices(k)
       \/ /\ occ'[k].state = "completed" /\ occ[k].run # None
          /\ Notices(k)' = Notices(k) \cup {"run_completed"}
       \/ /\ occ'[k].state = "failed"
          /\ \E e \in {"occurrence_failed", "retry_exhausted"} :
                Notices(k)' = Notices(k) \cup {e}
    /\ \/ occ'[k].attempts = occ[k].attempts
       \/ /\ occ'[k].attempts = occ[k].attempts + 1
          /\ occ'[k].state = "failed" \/ occ'[k].attempts < MaxSetupAttempts

Stays(k) == occ'[k] = occ[k] /\ Notices(k)' = Notices(k)

RowStep(k) ==
    k \in DOMAIN occ' /\ (Stays(k) \/ Moves(k) \/ \E t, c : c.key = k /\ Linking(t, c))

\* A row that did not exist before: waiting, or missed and reported so.
Born(k) ==
    /\ occ'[k].run = None /\ occ'[k].attempts = 0
    /\ \/ occ'[k].state = "due" /\ Notices(k)' = {}
       \/ occ'[k].state = "missed" /\ Notices(k)' = {"occurrence_missed"}

-----------------------------------------------------------------------------
(* Each action moves rows in these ways.                                   *)

LEMMA QuietRows ==
    ASSUME occ' = occ, notif' = notif
    PROVE  \A k \in DOMAIN occ : RowStep(k)
  BY DEF RowStep, Stays, Notices

\* A linked row names a Run whose state is one of the four.
LEMMA LinkedRun ==
    ASSUME WorkInv, NEW k \in DOMAIN occ, occ[k].run # None
    PROVE  /\ occ[k].run \in DOMAIN runs
           /\ runs[occ[k].run].state \in {"active", "completed", "failed", "stopped"}
  <1>1. occ[k].run \in DOMAIN runs
    BY DEF WorkInv, OneRunPerOccurrence
  <1>2. runs[occ[k].run] \in RunRow
    BY <1>1 DEF WorkInv, SlotInv, TypeOK, RowsOK
  <1> QED BY <1>1, <1>2 DEF RunRow, RunOutcomes

LEMMA ReconcileRows ==
    ASSUME WorkInv, NEW limit, Reconcile(limit)
    PROVE  \A k \in DOMAIN occ : RowStep(k)
  <1> PICK S \in Batches(LinkedOpen, limit, BySlot) :
             /\ occ' = [k \in DOMAIN occ |-> IF k \in S THEN Mirror(k) ELSE occ[k]]
             /\ notif' = notif \cup MirrorNotices(S)
    BY DEF Reconcile
  <1>1. S \subseteq LinkedOpen
    BY BatchWithin
  <1> SUFFICES ASSUME NEW k \in DOMAIN occ PROVE RowStep(k)
    OBVIOUS
  <1>2. occ[k] \in OccurrenceRow
    BY DEF WorkInv, SlotInv, TypeOK, RowsOK
  <1>3. CASE k \notin S
    <2>1. \A e : <<k, e>> \notin MirrorNotices(S)
      BY <1>3 DEF MirrorNotices
    <2> QED BY <1>3, <2>1 DEF RowStep, Stays, Notices
  <1>4. CASE k \in S
    <2> DEFINE s == runs[occ[k].run].state
    <2>1. /\ occ[k].run # None /\ occ[k].state \in Open
          /\ s \in {"active", "completed", "failed", "stopped"}
      BY <1>1, <1>4, LinkedRun DEF LinkedOpen, Open
    <2>2. \A e : <<k, e>> \in MirrorNotices(S) <=>
             \/ e = "run_completed" /\ s = "completed"
             \/ e = "occurrence_failed" /\ s \in {"failed", "stopped"}
      BY <1>4 DEF MirrorNotices
    <2>3. /\ occ'[k] = Mirror(k) /\ k \in DOMAIN occ'
      BY <1>4
    <2>4. /\ Mirror(k).run = occ[k].run /\ Mirror(k).attempts = occ[k].attempts
          /\ s = "active" => Mirror(k).state = "run_created"
          /\ s = "completed" => Mirror(k).state = "completed"
          /\ s \in {"failed", "stopped"} => Mirror(k).state = "failed"
      BY <1>2, <2>1 DEF Mirror, OccurrenceRow
    <2>5. Notices(k)' = Notices(k) \cup {e \in {"run_completed"} : s = "completed"}
                           \cup {e \in {"occurrence_failed"} : s \in {"failed", "stopped"}}
      BY <2>2 DEF Notices, EventKinds
    <2> HIDE DEF s
    <2>6. Moves(k)
      <3>1. CASE s = "active"
        BY <2>1, <2>3, <2>4, <2>5, <3>1 DEF Moves
      <3>2. CASE s = "completed"
        BY <2>1, <2>3, <2>4, <2>5, <3>2 DEF Moves
      <3>3. CASE s \in {"failed", "stopped"}
        BY <2>1, <2>3, <2>4, <2>5, <3>3 DEF Moves
      <3> QED BY <2>1, <3>1, <3>2, <3>3
    <2> QED BY <2>3, <2>6 DEF RowStep
  <1> QED BY <1>3, <1>4

\* A lease is granted only on a row that waits.
LEMMA GrantRows ==
    ASSUME WorkInv, NEW t \in Ticks, ReclaimExpired(t) \/ ClaimDue(t)
    PROVE  \A k \in DOMAIN occ : RowStep(k)
  <1>1. \E S : /\ \A k \in S : /\ k \in DOMAIN occ /\ occ[k].state \in {"due", "claimed"}
                               /\ occ[k].state = "due" => ClaimDue(t)
               /\ occ' = [k \in DOMAIN occ |-> IF k \in S THEN Granted(t, k) ELSE occ[k]]
    <2>1. CASE ReclaimExpired(t)
      <3> PICK S \in Batches(ExpiredClaims(now[t]), MaxBatchSize, ByExpiry) :
                 occ' = [k \in DOMAIN occ |-> IF k \in S THEN Granted(t, k) ELSE occ[k]]
        BY <2>1 DEF ReclaimExpired
      <3>1. \A k \in S : k \in DOMAIN occ /\ occ[k].state = "claimed"
        BY BatchWithin DEF ExpiredClaims
      <3> QED BY <3>1
    <2>2. CASE ClaimDue(t)
      <3> PICK S \in Batches(Claimable(now[t]), Smaller(MaxBatchSize, Room), BySlot) :
                 occ' = [k \in DOMAIN occ |-> IF k \in S THEN Granted(t, k) ELSE occ[k]]
        BY <2>2 DEF ClaimDue
      <3>1. \A k \in S : k \in DOMAIN occ /\ occ[k].state = "due"
        BY BatchWithin DEF Claimable
      <3> QED BY <2>2, <3>1
    <2> QED BY <2>1, <2>2
  <1> PICK S : /\ \A k \in S : /\ k \in DOMAIN occ /\ occ[k].state \in {"due", "claimed"}
                               /\ occ[k].state = "due" => ClaimDue(t)
               /\ occ' = [k \in DOMAIN occ |-> IF k \in S THEN Granted(t, k) ELSE occ[k]]
    BY <1>1
  <1> SUFFICES ASSUME NEW k \in DOMAIN occ PROVE RowStep(k)
    OBVIOUS
  <1>2. Notices(k)' = Notices(k)
    BY DEF ReclaimExpired, ClaimDue, Notices
  <1>3. CASE k \notin S
    BY <1>2, <1>3 DEF RowStep, Stays
  <1>4. CASE k \in S
    <2>1. occ[k] \in OccurrenceRow /\ occ[k].run = None
      BY <1>4 DEF WorkInv, WaitingUnlinked, SlotInv, TypeOK, RowsOK
    <2>2. /\ Granted(t, k).run = occ[k].run /\ Granted(t, k).attempts = occ[k].attempts
          /\ Granted(t, k).state = "claimed"
      BY <2>1 DEF Granted, OccurrenceRow
    <2>3. occ[k].state = "due" => ClaimDue(t)
      BY <1>4
    <2> QED BY <1>2, <1>4, <2>1, <2>2, <2>3 DEF RowStep, Moves, Open
  <1> QED BY <1>3, <1>4

LEMMA LinkRows ==
    ASSUME WorkInv, NEW t \in Ticks, Link(t)
    PROVE  \A k \in DOMAIN occ : RowStep(k)
  <1>1. CASE occ' = occ /\ notif' = notif
    BY <1>1, QuietRows
  <1>2. ASSUME NEW c \in work[t], LinkRun(t, c)
        PROVE  \A k \in DOMAIN occ : RowStep(k)
    <2>1. /\ DOMAIN occ' = DOMAIN occ /\ notif' = notif
          /\ \A k \in DOMAIN occ : k # c.key => occ'[k] = occ[k]
      BY <1>2 DEF LinkRun, CreateAndLink, WorkInv, SlotInv, TypeOK, RowsOK
    <2> QED BY <1>2, <2>1 DEF RowStep, Stays, Linking, Notices
  <1> QED
    BY <1>1, <1>2 DEF Link, LinkReplay, LinkCommitLost, LinkOverCapacity, LinkFenced,
                      LinkTransient, LinkRefused, dbVars

\* A handler settles the row, or returns it to due with one attempt more at most.
LEMMA HandlerRows ==
    ASSUME WorkInv, NEW k \in DOMAIN occ, NEW row, Moves(k),
           occ' = [occ EXCEPT ![k] = row],
           \A j \in DOMAIN occ : j # k => Notices(j)' = Notices(j)
    PROVE  \A j \in DOMAIN occ : RowStep(j)
  BY DEF RowStep, Stays

LEMMA DeferRows ==
    ASSUME WorkInv, NEW t \in Ticks, DeferCapacity(t) \/ DeferRetry(t)
    PROVE  \A j \in DOMAIN occ : RowStep(j)
  <1>0. cur[t] \in DOMAIN occ
    BY DEF DeferCapacity, DeferRetry, Handling, WorkInv, SlotInv, TypeOK, TicksOK
  <1> PICK k \in DOMAIN occ : k = cur[t]
    BY <1>0
  <1>1. k \in DOMAIN occ /\ occ[k] \in OccurrenceRow
    BY DEF WorkInv, SlotInv, TypeOK, RowsOK
  <1>2. occ[k].run = None /\ occ[k].state = "claimed"
    BY DEF DeferCapacity, DeferRetry, CanDefer
  <1>3. CASE DeferCapacity(t)
    <2> DEFINE row == [Released(t, k) EXCEPT !.deferred = TRUE]
    <2>1. occ' = [occ EXCEPT ![k] = row] /\ occ'[k] = row
      BY <1>1, <1>3 DEF DeferCapacity
    <2>2. row.state = "due" /\ row.run = occ[k].run /\ row.attempts = occ[k].attempts
      BY <1>1 DEF Released, OccurrenceRow
    <2>3. \A j : Notices(j)' = Notices(j)
      BY <1>3 DEF DeferCapacity, Notices
    <2> HIDE DEF row
    <2>4. Moves(k)
      BY <1>2, <2>1, <2>2, <2>3 DEF Moves, Open
    <2> QED BY <1>1, <2>1, <2>3, <2>4, HandlerRows
  <1>4. CASE DeferRetry(t)
    <2> DEFINE exhausted == occ[k].attempts + 1 >= AttemptLimit(k)
               base == IF exhausted THEN Failed(k)
                       ELSE [Released(t, k) EXCEPT !.deferred = FALSE]
               row  == [base EXCEPT !.attempts = @ + 1]
    <2>1. /\ occ' = [occ EXCEPT ![k] = row] /\ occ'[k] = row
          /\ notif' = notif \cup (IF exhausted THEN {<<k, "retry_exhausted">>} ELSE {})
      BY <1>1, <1>4 DEF DeferRetry
    <2>2. /\ row.run = occ[k].run /\ row.attempts = occ[k].attempts + 1
          /\ row.state = IF exhausted THEN "failed" ELSE "due"
      BY <1>1 DEF Released, Failed, OccurrenceRow
    <2>3. /\ \A j : j # k => Notices(j)' = Notices(j)
          /\ Notices(k)' = Notices(k) \cup (IF exhausted THEN {"retry_exhausted"} ELSE {})
      BY <2>1 DEF Notices, EventKinds
    <2>4. AttemptLimit(k) \in Nat /\ AttemptLimit(k) <= MaxSetupAttempts
      <3>1. k \in Keys
        BY <1>1 DEF WorkInv, SlotInv, TypeOK, RowsOK
      <3>2. AutomationOf(k) \in Automations
        BY <3>1, KeyParts
      <3>3. auto[AutomationOf(k)] \in AutomationColumns
        BY <3>2 DEF WorkInv, SlotInv, TypeOK, RowsOK, AutomationRow
      <3>4. auto[AutomationOf(k)].retryLimit \in Nat
        BY <3>3, ConstantsAssumption DEF AutomationColumns
      <3>5. MaxSetupAttempts \in Nat
        BY ConstantsAssumption
      <3> QED BY <3>4, <3>5 DEF AttemptLimit, Smaller
    <2>5. ~exhausted => occ[k].attempts + 1 < MaxSetupAttempts
      BY <1>1, <2>4, ConstantsAssumption DEF OccurrenceRow
    <2> HIDE DEF row, exhausted
    <2>6. Moves(k)
      <3>1. CASE exhausted
        BY <1>2, <2>1, <2>2, <2>3, <3>1 DEF Moves, Open
      <3>2. CASE ~exhausted
        BY <1>2, <2>1, <2>2, <2>3, <2>5, <3>2 DEF Moves, Open
      <3> QED BY <3>1, <3>2
    <2> QED BY <1>1, <2>1, <2>3, <2>6, HandlerRows
  <1> QED BY <1>3, <1>4

LEMMA FailRows ==
    ASSUME WorkInv, NEW t \in Ticks, FailClosed(t)
    PROVE  \A j \in DOMAIN occ : RowStep(j)
  <1>0. cur[t] \in DOMAIN occ
    BY DEF FailClosed, Handling, WorkInv, SlotInv, TypeOK, TicksOK
  <1> PICK k \in DOMAIN occ : k = cur[t]
    BY <1>0
  <1>1. k \in DOMAIN occ /\ occ[k] \in OccurrenceRow
    BY DEF WorkInv, SlotInv, TypeOK, RowsOK
  <1>2. CASE occ[k].state \in Terminal
    BY <1>2, QuietRows DEF FailClosed
  <1>3. CASE occ[k].state \notin Terminal
    <2>1. /\ occ' = [occ EXCEPT ![k] = Failed(k)] /\ occ'[k] = Failed(k)
          /\ notif' = notif \cup {<<k, "occurrence_failed">>}
          /\ occ[k].run = None
      BY <1>1, <1>3 DEF FailClosed
    <2>2. /\ Failed(k).run = occ[k].run /\ Failed(k).attempts = occ[k].attempts
          /\ Failed(k).state = "failed" /\ occ[k].state \in Open
      BY <1>1, <1>3 DEF Failed, OccurrenceRow, OccurrenceStates
    <2>3. /\ \A j : j # k => Notices(j)' = Notices(j)
          /\ Notices(k)' = Notices(k) \cup {"occurrence_failed"}
      BY <2>1 DEF Notices, EventKinds
    <2>4. Moves(k)
      BY <2>1, <2>2, <2>3 DEF Moves
    <2> QED BY <1>1, <2>1, <2>3, <2>4, HandlerRows
  <1> QED BY <1>2, <1>3

\* A due Automation's slot is recorded for the first time.
LEMMA SlotIsNew ==
    ASSUME SlotInv, NEW t \in Ticks, NEW a \in DueAutomations(now[t])
    PROVE  SlotKey(a, now[t]) \notin DOMAIN occ
  <1> DEFINE k == SlotKey(a, now[t])
  <1> SUFFICES ASSUME k \in DOMAIN occ PROVE FALSE
    OBVIOUS
  <1>1. /\ AutomationOf(k) = a /\ SlotOf(k) \in auto[a].next..now[t] /\ a \in Automations
    BY MaterializedSlot DEF SlotInv
  <1>2. SchedRevOf(k) = auto[a].schedRev
    BY DEF SlotKey, SchedRevOf
  <1>3. auto[a].next \in Nat /\ now[t] \in Nat
    BY <1>1, ConstantsAssumption
       DEF SlotInv, TypeOK, RowsOK, TicksOK, Times, AutomationRow, AutomationColumns
  <1> HIDE DEF k
  <1>4. SlotOf(k) < auto[a].next
    BY <1>1, <1>2, DueMeansClear
  <1> QED BY <1>1, <1>3, <1>4

\* Materialization leaves the rows there are, and reports what it skips.
LEMMA MaterializeRows ==
    ASSUME WorkInv, NEW t \in Ticks, MaterializeDue(t)
    PROVE  /\ \A k \in DOMAIN occ : RowStep(k)
           /\ \A k \in DOMAIN occ' \ DOMAIN occ : Born(k)
  <1> DEFINE slots(S) == {SlotKey(a, now[t]) : a \in S}
  <1> PICK S \in Batches(DueAutomations(now[t]), MaxBatchSize, ByNext) :
             /\ occ' = [k \in DOMAIN occ \cup slots(S) |->
                          IF k \in DOMAIN occ THEN occ[k]
                          ELSE NewOccurrence(AutomationOf(k))]
             /\ notif' = notif \cup {<<SlotKey(a, now[t]), "occurrence_missed">> :
                                      a \in {x \in S : auto[x].policy = "skip"}}
    BY DEF MaterializeDue
  <1>1. \A a \in S : /\ SlotKey(a, now[t]) \notin DOMAIN occ
                     /\ AutomationOf(SlotKey(a, now[t])) = a
    BY BatchWithin, SlotIsNew, MaterializedSlot DEF WorkInv, SlotInv
  <1>2. ASSUME NEW k \in DOMAIN occ PROVE RowStep(k)
    <2>1. Notices(k)' = Notices(k)
      BY <1>1 DEF Notices
    <2> QED BY <2>1 DEF RowStep, Stays
  <1>3. ASSUME NEW k \in DOMAIN occ' \ DOMAIN occ PROVE Born(k)
    <2> PICK a \in S : k = SlotKey(a, now[t])
      OBVIOUS
    <2>1. AutomationOf(k) = a /\ occ'[k] = NewOccurrence(a)
      BY <1>1
    <2>2. \A e : <<k, e>> \notin notif
      BY DEF WorkInv, SlotInv, TypeOK, RowsOK
    <2>3. Notices(k)' = {e \in {"occurrence_missed"} : auto[a].policy = "skip"}
      BY <1>1, <2>1, <2>2 DEF Notices, EventKinds
    <2> QED BY <2>1, <2>3 DEF Born, NewOccurrence
  <1> QED BY <1>2, <1>3

\* Every step of the system.
LEMMA RowsStep ==
    ASSUME WorkInv, [Next]_vars
    PROVE  /\ \A k \in DOMAIN occ : RowStep(k)
           /\ \A k \in DOMAIN occ' \ DOMAIN occ : Born(k)
  <1>0. ASSUME ~\E t \in Ticks : MaterializeDue(t) PROVE DOMAIN occ' = DOMAIN occ
    BY <1>0, OpenStep DEF OnlyOpenRows, WorkInv, SlotInv
  <1>1. CASE Environment
    BY <1>1, QuietRows DEF Environment, Advance, CreateManualRun, RunEnds, Crash, Stop,
       dbVars, Operator, Edit, CreateAutomation, UpdateLabel, UpdateDefinition,
       UpdateSchedule, SetExecutionMode, EnableAutomation, ResumeAutomation, Activate,
       PauseAutomation, CancelAutomation
  <1>2. ASSUME NEW t \in Ticks, BeginTick(t) \/ TickStep(t), ~MaterializeDue(t)
        PROVE  \A k \in DOMAIN occ : RowStep(k)
    <2>1. CASE BeginTick(t) \/ Settle(t)
      BY <2>1, ReconcileRows DEF BeginTick, Settle
    <2>2. CASE LinksDone(t) \/ EndTick(t) \/ AbortTick(t) \/ Recheck(t) \/ Drive(t)
               \/ \E c \in work[t] : Coordinate(t, c)
      BY <2>2, QuietRows DEF LinksDone, EndTick, AbortTick, Stop, Recheck, Drive,
         Coordinate, dbVars
    <2> QED BY <1>2, <2>1, <2>2, GrantRows, LinkRows, DeferRows, FailRows
            DEF TickStep, Handle
  <1>3. CASE UNCHANGED vars
    BY <1>3, QuietRows DEF vars
  <1>4. \A k \in DOMAIN occ : RowStep(k)
    BY <1>1, <1>2, <1>3, MaterializeRows DEF Next
  <1> QED BY <1>0, <1>4, MaterializeRows

-----------------------------------------------------------------------------
(* Runs and occurrences are linked one to one.                             *)

\* An occurrence key is not the key of a Run made by hand.
LEMMA KeyIsSomeKey == \A k \in Keys : k # NoKey
  <1> SUFFICES ASSUME NEW a, NEW r, NEW i PROVE <<a, r, i>> # NoKey
    BY DEF Keys
  <1>1. Len(<<a, r, i>>) = 3 /\ Len(<<>>) = 0
    OBVIOUS
  <1> QED BY <1>1 DEF NoKey

\* Linking appends a Run for a claimed row that had none, nor an orphan to replay.
LEMMA LinkingRow ==
    ASSUME WorkInv, NEW t, NEW c, Linking(t, c)
    PROVE  /\ c.key \in DOMAIN occ /\ occ[c.key].state = "claimed" /\ occ[c.key].run = None
           /\ RunsOf(c.key) = {} /\ SameAuthority(c.key)
           /\ Cardinality(ActiveRuns) < MaxActiveRuns
           /\ runs' = Append(runs, [key |-> c.key, state |-> "active"])
           /\ DOMAIN occ' = DOMAIN occ /\ notif' = notif
           /\ \A k \in DOMAIN occ : k # c.key => occ'[k] = occ[k]
           /\ occ'[c.key].run = Len(runs) + 1 /\ occ'[c.key].state = "run_created"
           /\ occ'[c.key].attempts = occ[c.key].attempts
  <1> DEFINE k == c.key
  <1>1. k \in DOMAIN occ /\ occ[k] \in OccurrenceRow /\ k # NoKey
    <2>1. k \in DOMAIN occ
      BY DEF Linking, WorkInv, SlotInv, TypeOK, TicksOK
    <2> QED BY <2>1, KeyIsSomeKey DEF WorkInv, SlotInv, TypeOK, RowsOK
  <1>2. occ[k].state = "claimed" /\ SameAuthority(k)
    BY DEF Linking, LinkRun, ValidClaim, HoldsLease
  <1>3. occ[k].run = None
    BY <1>1, <1>2 DEF WorkInv, WaitingUnlinked
  <1>4. RunsOf(k) = {}
    <2> SUFFICES ASSUME NEW i \in RunsOf(k) PROVE FALSE
      OBVIOUS
    <2>1. i \in DOMAIN runs /\ runs[i].key = k
      BY DEF RunsOf
    <2>2. occ[k].run = i
      BY <1>1, <2>1 DEF WorkInv, OneRunPerOccurrence
    <2>3. i \in 1..Len(runs)
      BY <2>1 DEF WorkInv, SlotInv, TypeOK, RowsOK
    <2> QED BY <1>3, <2>2, <2>3 DEF None
  <1>5. /\ runs' = Append(runs, [key |-> k, state |-> "active"])
        /\ occ' = [occ EXCEPT ![k].run = Len(runs) + 1, ![k].state = "run_created",
                              ![k].deferred = FALSE]
        /\ notif' = notif
    BY <1>4 DEF Linking, LinkRun, CreateAndLink
  <1>7. Cardinality(ActiveRuns) < MaxActiveRuns
    BY <1>4 DEF Linking, LinkRun, RunAvailable
  <1>6. /\ DOMAIN occ' = DOMAIN occ
        /\ \A j \in DOMAIN occ : j # k => occ'[j] = occ[j]
        /\ occ'[k].run = Len(runs) + 1 /\ occ'[k].state = "run_created"
        /\ occ'[k].attempts = occ[k].attempts
    BY <1>1, <1>5 DEF WorkInv, SlotInv, TypeOK, RowsOK, OccurrenceRow
  <1> QED BY <1>1, <1>2, <1>3, <1>4, <1>5, <1>6, <1>7

\* What every step that links nothing does to the Runs: their keys stay, none becomes
\* active again, and one may be added by hand where there is room.
RunsKept ==
    \/ /\ DOMAIN runs' = DOMAIN runs
       /\ \A i \in DOMAIN runs :
             /\ runs'[i].key = runs[i].key
             /\ runs'[i].state = "active" => runs[i].state = "active"
    \/ /\ runs' = Append(runs, [key |-> NoKey, state |-> "active"])
       /\ Cardinality(ActiveRuns) < MaxActiveRuns

LEMMA StateKeepsKeys ==
    ASSUME TypeOK, NEW i, NEW s, runs' = [runs EXCEPT ![i].state = s],
           runs[i].state = "active" \/ s = runs[i].state
    PROVE  RunsKept
  <1>1. DOMAIN runs' = DOMAIN runs
    BY DEF TypeOK, RowsOK
  <1>2. ASSUME NEW j \in DOMAIN runs
        PROVE  /\ runs'[j].key = runs[j].key
               /\ runs'[j].state = "active" => runs[j].state = "active"
    <2>1. runs[j] \in RunRow
      BY DEF TypeOK, RowsOK
    <2> QED BY <2>1 DEF RunRow, TypeOK, RowsOK
  <1> QED BY <1>1, <1>2 DEF RunsKept

LEMMA RunsStep ==
    ASSUME TypeOK, [Next]_vars, ~\E t, c : Linking(t, c)
    PROVE  RunsKept
  <1>1. CASE runs' = runs
    BY <1>1 DEF RunsKept
  <1>2. CASE Environment
    <2>1. CASE CreateManualRun
      BY <2>1 DEF CreateManualRun, RunsKept
    <2>2. CASE \E i \in DOMAIN runs : RunEnds(i)
      BY <2>2, StateKeepsKeys DEF RunEnds
    <2>3. CASE Advance \/ \E t \in Ticks : Crash(t)
      BY <1>1, <2>3 DEF Advance, Crash, Stop, dbVars
    <2>4. CASE \E a \in Automations : Operator(a)
      BY <1>1, <2>4 DEF Operator, Edit, CreateAutomation, UpdateLabel,
         UpdateDefinition, UpdateSchedule, SetExecutionMode, EnableAutomation,
         ResumeAutomation, Activate, PauseAutomation, CancelAutomation
    <2> QED BY <1>2, <2>1, <2>2, <2>3, <2>4 DEF Environment
  <1>3. ASSUME NEW t \in Ticks, BeginTick(t) \/ TickStep(t)
        PROVE  RunsKept
    <2>1. CASE Drive(t)
      BY <2>1, StateKeepsKeys DEF Drive
    <2>2. CASE Link(t)
      BY <1>1, <2>2 DEF Link, LinkReplay, LinkCommitLost, LinkOverCapacity, LinkFenced,
         LinkTransient, LinkRefused, Linking, dbVars
    <2>3. CASE BeginTick(t) \/ Settle(t) \/ ReclaimExpired(t) \/ MaterializeDue(t)
               \/ ClaimDue(t)
      BY <1>1, <2>3 DEF BeginTick, Settle, Reconcile, ReclaimExpired, MaterializeDue,
         ClaimDue
    <2>4. CASE Handle(t)
      BY <1>1, <2>4 DEF Handle, DeferCapacity, DeferRetry, FailClosed, Recheck,
         AbortTick, Stop, dbVars
    <2>5. CASE LinksDone(t) \/ EndTick(t) \/ \E c \in work[t] : Coordinate(t, c)
      BY <1>1, <2>5 DEF LinksDone, EndTick, Stop, Coordinate, dbVars
    <2> QED BY <1>3, <2>1, <2>2, <2>3, <2>4, <2>5 DEF TickStep
  <1>4. CASE UNCHANGED vars
    BY <1>1, <1>4 DEF vars
  <1> QED BY <1>2, <1>3, <1>4 DEF Next

\* An appended Run is the only new entry, at the end.
LEMMA Appended ==
    ASSUME TypeOK, NEW r, runs' = Append(runs, r)
    PROVE  /\ Len(runs) \in Nat /\ DOMAIN runs = 1..Len(runs)
           /\ DOMAIN runs' = DOMAIN runs \cup {Len(runs) + 1}
           /\ Len(runs) + 1 \notin DOMAIN runs
           /\ \A i \in DOMAIN runs : runs'[i] = runs[i]
           /\ runs'[Len(runs) + 1] = r
  BY DEF TypeOK, RowsOK

LEMMA LinksStep ==
    ASSUME WorkInv, [Next]_vars
    PROVE  OneRunPerOccurrence' /\ WaitingUnlinked'
  <1>1. CASE \E t, c : Linking(t, c)
    <2> PICK t, c : Linking(t, c)
      BY <1>1
    <2> DEFINE n == Len(runs) + 1
    <2>1. /\ c.key \in DOMAIN occ /\ occ[c.key].run = None /\ RunsOf(c.key) = {}
          /\ runs' = Append(runs, [key |-> c.key, state |-> "active"])
          /\ DOMAIN occ' = DOMAIN occ
          /\ \A k \in DOMAIN occ : k # c.key => occ'[k] = occ[k]
          /\ occ'[c.key].run = n /\ occ'[c.key].state = "run_created"
      BY LinkingRow
    <2>2. /\ n \in Nat /\ n # None /\ DOMAIN runs' = DOMAIN runs \cup {n}
          /\ \A i \in DOMAIN runs : runs'[i] = runs[i]
          /\ runs'[n].key = c.key
      BY <2>1, Appended DEF WorkInv, SlotInv, None
    <2> HIDE DEF n
    <2>3. ASSUME NEW i \in DOMAIN runs', runs'[i].key # NoKey
          PROVE  runs'[i].key \in DOMAIN occ' /\ occ'[runs'[i].key].run = i
      <3>1. CASE i = n
        BY <2>1, <2>2, <3>1
      <3>2. CASE i \in DOMAIN runs
        <4>1. runs[i].key \in DOMAIN occ /\ occ[runs[i].key].run = i
          BY <2>2, <2>3, <3>2 DEF WorkInv, OneRunPerOccurrence
        <4>2. runs[i].key # c.key
          BY <2>1, <3>2 DEF RunsOf
        <4> QED BY <2>1, <2>2, <3>2, <4>1, <4>2
      <3> QED BY <2>2, <3>1, <3>2
    <2>4. ASSUME NEW k \in DOMAIN occ', occ'[k].run # None
          PROVE  occ'[k].run \in DOMAIN runs' /\ runs'[occ'[k].run].key = k
      <3>1. CASE k = c.key
        BY <2>1, <2>2, <3>1
      <3>2. CASE k # c.key
        <4>1. occ'[k] = occ[k] /\ k \in DOMAIN occ
          BY <2>1, <3>2
        <4>2. occ[k].run \in DOMAIN runs /\ runs[occ[k].run].key = k
          BY <2>4, <4>1 DEF WorkInv, OneRunPerOccurrence
        <4> QED BY <2>2, <4>1, <4>2
      <3> QED BY <3>1, <3>2
    <2>5. WaitingUnlinked'
      BY <2>1 DEF WorkInv, WaitingUnlinked
    <2> QED BY <2>3, <2>4, <2>5 DEF OneRunPerOccurrence
  <1>2. CASE ~\E t, c : Linking(t, c)
    <2>1. \A k \in DOMAIN occ : k \in DOMAIN occ' /\ (Stays(k) \/ Moves(k))
      BY <1>2, RowsStep DEF RowStep
    <2>2. \A k \in DOMAIN occ : occ'[k].run = occ[k].run
      BY <2>1 DEF Stays, Moves
    <2>3. \A k \in DOMAIN occ' \ DOMAIN occ : occ'[k].run = None
      BY RowsStep DEF Born
    <2>4. RunsKept
      BY <1>2, RunsStep DEF WorkInv, SlotInv
    <2>5. ASSUME NEW i \in DOMAIN runs', runs'[i].key # NoKey
          PROVE  i \in DOMAIN runs /\ runs'[i].key = runs[i].key
      BY <2>4, <2>5, Appended DEF RunsKept, WorkInv, SlotInv
    <2>6. \A i \in DOMAIN runs : i \in DOMAIN runs' /\ runs'[i].key = runs[i].key
      BY <2>4, Appended DEF RunsKept, WorkInv, SlotInv
    <2>7. ASSUME NEW i \in DOMAIN runs', runs'[i].key # NoKey
          PROVE  runs'[i].key \in DOMAIN occ' /\ occ'[runs'[i].key].run = i
      <3>1. i \in DOMAIN runs /\ runs'[i].key = runs[i].key
        BY <2>5, <2>7
      <3>2. runs[i].key \in DOMAIN occ /\ occ[runs[i].key].run = i
        BY <2>7, <3>1 DEF WorkInv, OneRunPerOccurrence
      <3> QED BY <2>1, <2>2, <3>1, <3>2
    <2>8. ASSUME NEW k \in DOMAIN occ', occ'[k].run # None
          PROVE  occ'[k].run \in DOMAIN runs' /\ runs'[occ'[k].run].key = k
      <3>1. k \in DOMAIN occ /\ occ[k].run # None /\ occ'[k].run = occ[k].run
        BY <2>2, <2>3, <2>8
      <3>2. occ[k].run \in DOMAIN runs /\ runs[occ[k].run].key = k
        BY <3>1 DEF WorkInv, OneRunPerOccurrence
      <3> QED BY <2>6, <3>1, <3>2
    <2>9. WaitingUnlinked'
      <3> SUFFICES ASSUME NEW k \in DOMAIN occ', occ'[k].state \in {"due", "claimed"}
                   PROVE  occ'[k].run = None
        BY DEF WaitingUnlinked
      <3>1. CASE k \in DOMAIN occ
        BY <2>1, <3>1 DEF Stays, Moves, WorkInv, WaitingUnlinked
      <3> QED BY <2>3, <3>1
    <2> QED BY <2>7, <2>8, <2>9 DEF OneRunPerOccurrence
  <1> QED BY <1>1, <1>2

-----------------------------------------------------------------------------
(* Outcomes, notices and attempts.                                         *)

LEMMA ReportedByNotices ==
    OutcomesReported <=>
      \A k \in DOMAIN occ :
        /\ occ[k].state = "failed" <=>
              "occurrence_failed" \in Notices(k) \/ "retry_exhausted" \in Notices(k)
        /\ occ[k].state = "missed" <=> "occurrence_missed" \in Notices(k)
        /\ occ[k].state = "completed" <=> "run_completed" \in Notices(k)
  BY DEF OutcomesReported, Notices, EventKinds

LEMMA ReportedByNoticesNext ==
    OutcomesReported' <=>
      \A k \in DOMAIN occ' :
        /\ occ'[k].state = "failed" <=>
              "occurrence_failed" \in Notices(k)' \/ "retry_exhausted" \in Notices(k)'
        /\ occ'[k].state = "missed" <=> "occurrence_missed" \in Notices(k)'
        /\ occ'[k].state = "completed" <=> "run_completed" \in Notices(k)'
  BY DEF OutcomesReported, Notices, EventKinds

\* An open row has posted no notice of an outcome.
LEMMA OpenIsSilent ==
    ASSUME WorkInv, NEW k \in DOMAIN occ, occ[k].state \in Open
    PROVE  Notices(k) = {}
  BY DEF WorkInv, OutcomesReported, Notices, EventKinds, Open

LEMMA OutcomesStep ==
    ASSUME WorkInv, [Next]_vars
    PROVE  OutcomesReported' /\ RetriesBounded'
  <1>1. \A k \in DOMAIN occ' : k \in DOMAIN occ \/ Born(k)
    BY RowsStep
  <1>2. ASSUME NEW k \in DOMAIN occ'
        PROVE  /\ occ'[k].state = "failed" <=>
                     "occurrence_failed" \in Notices(k)' \/ "retry_exhausted" \in Notices(k)'
               /\ occ'[k].state = "missed" <=> "occurrence_missed" \in Notices(k)'
               /\ occ'[k].state = "completed" <=> "run_completed" \in Notices(k)'
               /\ occ'[k].attempts <= MaxSetupAttempts
               /\ occ'[k].attempts = MaxSetupAttempts => occ'[k].state = "failed"
    <2>0. MaxSetupAttempts \in Nat \ {0}
      BY ConstantsAssumption
    <2>1. CASE Born(k)
      BY <2>0, <2>1 DEF Born
    <2>2. CASE k \in DOMAIN occ
      <3>1. /\ occ[k].attempts \in Nat /\ occ[k].attempts <= MaxSetupAttempts
            /\ occ[k].attempts = MaxSetupAttempts => occ[k].state = "failed"
        BY <2>2 DEF WorkInv, RetriesBounded, SlotInv, TypeOK, RowsOK, OccurrenceRow
      <3>2. CASE Stays(k)
        BY <2>2, <3>1, <3>2, ReportedByNotices DEF Stays, WorkInv
      <3>3. CASE Moves(k)
        <4>1. Notices(k) = {} /\ occ[k].state # "failed"
          BY <2>2, <3>3, OpenIsSilent DEF Moves, Open
        <4>2. /\ occ'[k].attempts <= MaxSetupAttempts
              /\ occ'[k].attempts = MaxSetupAttempts => occ'[k].state = "failed"
          BY <2>0, <3>1, <3>3, <4>1 DEF Moves
        <4> QED BY <3>3, <4>1, <4>2 DEF Moves
      <3>4. CASE \E t, c : c.key = k /\ Linking(t, c)
        <4>1. /\ occ[k].state = "claimed" /\ occ'[k].state = "run_created"
              /\ occ'[k].attempts = occ[k].attempts /\ Notices(k)' = Notices(k)
          BY <3>4, LinkingRow DEF Notices
        <4>2. Notices(k) = {}
          BY <2>2, <4>1, OpenIsSilent DEF Open
        <4> QED BY <3>1, <4>1, <4>2
      <3> QED BY <2>2, <3>2, <3>3, <3>4, RowsStep DEF RowStep
    <2> QED BY <1>1, <2>1, <2>2
  <1> QED BY <1>2, ReportedByNoticesNext DEF RetriesBounded

LEMMA WorkInit == Init => WorkInv
  BY SlotInit DEF Init, WorkInv, OneRunPerOccurrence, WaitingUnlinked, OutcomesReported,
     RetriesBounded

LEMMA WorkInvariant == Spec => []WorkInv
  <1>1. WorkInv /\ [Next]_vars => WorkInv'
    BY SlotStep, LinksStep, OutcomesStep DEF WorkInv
  <1> QED BY <1>1, WorkInit, PTL DEF Spec

\* Whatever commits are lost and whatever processes die between claiming an occurrence
\* and linking it, no Run is orphaned and no occurrence has two.
THEOREM LinkedOneToOne == Spec => []OneRunPerOccurrence
  <1>1. WorkInv => OneRunPerOccurrence
    BY DEF WorkInv
  <1> QED BY <1>1, WorkInvariant, PTL

\* The operator's notices and the occurrences never disagree: each failed, missed or
\* completed occurrence is reported, by whichever transaction settled it, and
\* nothing else is.
THEOREM EveryOutcomeReported == Spec => []OutcomesReported
  <1>1. WorkInv => OutcomesReported
    BY DEF WorkInv
  <1> QED BY <1>1, WorkInvariant, PTL

\* Retries end: however often ticks crash and the database fails, an occurrence that
\* has used MAX_SETUP_ATTEMPTS has failed.
THEOREM AttemptsBounded == Spec => []RetriesBounded
  <1>1. WorkInv => RetriesBounded
    BY DEF WorkInv
  <1> QED BY <1>1, WorkInvariant, PTL

\* A Run is linked only under the authority the occurrence captured: no other step of
\* the system, a replayed commit or a late handler included, ever sets the link.
THEOREM LinksUnderAuthority == Spec => LinkUnderAuthority
  <1>1. WorkInv /\ [Next]_vars =>
          [\A k \in DOMAIN occ :
              occ[k].run = None /\ occ'[k].run # None =>
                 LET a == AutomationOf(k)
                 IN /\ auto[a].lifecycle = "enabled"
                    /\ auto[a].revision = occ[k].autoRev
                    /\ auto[a].schedRev = SchedRevOf(k)
                    /\ auto[a].mode = occ[k].mode]_vars
    <2> SUFFICES ASSUME WorkInv, [Next]_vars, NEW k \in DOMAIN occ,
                        occ[k].run = None, occ'[k].run # None
                 PROVE  SameAuthority(k)
      BY DEF SameAuthority
    <2>1. ~Stays(k) /\ ~Moves(k)
      BY DEF Stays, Moves
    <2> PICK t, c : c.key = k /\ Linking(t, c)
      BY <2>1, RowsStep DEF RowStep
    <2> QED BY LinkingRow
  <1> QED BY <1>1, WorkInvariant, PTL DEF Spec, LinkUnderAuthority

-----------------------------------------------------------------------------
(* Capacity: the two caps hold together, whoever adds the next row.        *)

\* Finitely many Automations have finitely many slots.
LEMMA KeysFinite == IsFiniteSet(Keys)
  <1> DEFINE A == Automations
             B == 0..MaxRevision
             C == 1..MaxClock
             Key == [x \in (A \X B) \X C |-> <<x[1][1], x[1][2], x[2]>>]
  <1>1. IsFiniteSet(A) /\ IsFiniteSet(B) /\ IsFiniteSet(C)
    BY ConstantsAssumption, FS_Interval
  <1>2. IsFiniteSet((A \X B) \X C)
    BY <1>1, FS_Product
  <1>3. Key \in Surjection((A \X B) \X C, Keys)
    <2>1. Key \in [(A \X B) \X C -> Keys]
      BY DEF Keys
    <2>2. ASSUME NEW a \in A, NEW b \in B, NEW c \in C, NEW k, k = <<a, b, c>>
          PROVE  \E x \in (A \X B) \X C : Key[x] = k
      <3>1. <<<<a, b>>, c>> \in (A \X B) \X C
        OBVIOUS
      <3>2. Key[<<<<a, b>>, c>>] = k
        BY <2>2, <3>1
      <3> QED BY <3>1, <3>2
    <2>3. ASSUME NEW k \in Keys PROVE \E x \in (A \X B) \X C : Key[x] = k
      <3>1. PICK a \in A, b \in B, c \in C : k = <<a, b, c>>
        BY DEF Keys
      <3> QED BY <2>2, <3>1
    <2> QED BY <2>1, <2>3 DEF Surjection
  <1> QED BY <1>2, <1>3, FS_Surjection

LEMMA FiniteTables ==
    ASSUME TypeOK
    PROVE  /\ IsFiniteSet(DOMAIN occ) /\ IsFiniteSet(ActiveOccurrences)
           /\ IsFiniteSet(ActiveRuns)
           /\ Cardinality(ActiveOccurrences) \in Nat /\ Cardinality(ActiveRuns) \in Nat
  <1>1. IsFiniteSet(DOMAIN occ)
    BY KeysFinite, FS_Subset DEF TypeOK, RowsOK
  <1>2. IsFiniteSet(ActiveOccurrences)
    BY <1>1, FS_Subset DEF ActiveOccurrences
  <1>3. IsFiniteSet(ActiveRuns)
    <2>1. Len(runs) \in Nat /\ ActiveRuns \subseteq 1..Len(runs)
      BY DEF TypeOK, RowsOK, ActiveRuns
    <2>2. IsFiniteSet(1..Len(runs))
      BY <2>1, FS_Interval
    <2> QED BY <2>1, <2>2, FS_Subset
  <1> QED BY <1>1, <1>2, <1>3, FS_CardinalityType

\* A locked batch is no larger than its limit.
LEMMA BatchSize ==
    ASSUME NEW eligible, IsFiniteSet(eligible), NEW limit \in Nat, NEW rank,
           NEW S \in Batches(eligible, limit, rank)
    PROVE  IsFiniteSet(S) /\ Cardinality(S) <= limit
  <1>1. PICK seen \in SUBSET eligible : Cardinality(S) = Smaller(limit, Cardinality(seen))
    BY DEF Batches
  <1>2. IsFiniteSet(seen) /\ Cardinality(seen) \in Nat
    BY <1>1, FS_Subset, FS_CardinalityType
  <1>3. IsFiniteSet(S)
    BY BatchWithin, FS_Subset
  <1> QED BY <1>1, <1>2, <1>3 DEF Smaller

LEMMA OccurrencesCapped ==
    ASSUME WorkInv, CapacityRespected, [Next]_vars
    PROVE  Cardinality(ActiveOccurrences') <= MaxActiveOccurrences
  <1> DEFINE A == ActiveOccurrences
  <1>0. /\ IsFiniteSet(DOMAIN occ) /\ IsFiniteSet(A) /\ Cardinality(A) \in Nat
        /\ Cardinality(A) <= MaxActiveOccurrences /\ MaxActiveOccurrences \in Nat
    BY FiniteTables, ConstantsAssumption DEF WorkInv, SlotInv, CapacityRespected
  <1>1. CASE ~\E t \in Ticks : ClaimDue(t)
    <2>1. ASSUME NEW k \in ActiveOccurrences' PROVE k \in A
      <3>1. k \in DOMAIN occ' /\ occ'[k].state \in {"claimed", "run_created"}
        BY DEF ActiveOccurrences
      <3>2. k \in DOMAIN occ /\ RowStep(k)
        BY <3>1, RowsStep DEF Born
      <3>3. CASE Stays(k)
        BY <3>1, <3>2, <3>3 DEF Stays, ActiveOccurrences
      <3>4. CASE Moves(k)
        BY <1>1, <3>1, <3>2, <3>4
           DEF Moves, Open, ActiveOccurrences, WorkInv, WaitingUnlinked
      <3>5. CASE \E t, c : c.key = k /\ Linking(t, c)
        BY <3>2, <3>5, LinkingRow DEF ActiveOccurrences
      <3> QED BY <3>2, <3>3, <3>4, <3>5 DEF RowStep
    <2>2. ActiveOccurrences' \subseteq A
      BY <2>1
    <2>3. Cardinality(ActiveOccurrences') \in Nat
          /\ Cardinality(ActiveOccurrences') <= Cardinality(A)
      BY <1>0, <2>2, FS_Subset, FS_CardinalityType
    <2> QED BY <1>0, <2>3
  <1>2. ASSUME NEW t \in Ticks, ClaimDue(t)
        PROVE  Cardinality(ActiveOccurrences') <= MaxActiveOccurrences
    <2> DEFINE limit == Smaller(MaxBatchSize, Room)
    <2> PICK S \in Batches(Claimable(now[t]), limit, BySlot) :
               occ' = [k \in DOMAIN occ |-> IF k \in S THEN Granted(t, k) ELSE occ[k]]
      BY <1>2 DEF ClaimDue
    <2>1. Room \in Nat /\ Cardinality(A) + Room <= MaxActiveOccurrences
      BY <1>0 DEF Room
    <2>2. limit \in Nat /\ limit <= Room
      BY <2>1, ConstantsAssumption DEF Smaller
    <2> HIDE DEF limit
    <2>3. IsFiniteSet(Claimable(now[t]))
      BY <1>0, FS_Subset DEF Claimable
    <2>4. IsFiniteSet(S) /\ Cardinality(S) <= limit /\ Cardinality(S) \in Nat
      BY <2>2, <2>3, BatchSize, FS_CardinalityType
    <2>5. ActiveOccurrences' \subseteq A \cup S
      BY DEF ActiveOccurrences
    <2>6. /\ IsFiniteSet(A \cup S) /\ Cardinality(A \cup S) \in Nat
          /\ Cardinality(A \cup S) <= Cardinality(A) + Cardinality(S)
      <3>1. IsFiniteSet(A \cap S) /\ Cardinality(A \cap S) \in Nat
        BY <1>0, FS_Subset, FS_CardinalityType
      <3>2. /\ IsFiniteSet(A \cup S)
            /\ Cardinality(A \cup S)
                 = Cardinality(A) + Cardinality(S) - Cardinality(A \cap S)
        BY <1>0, <2>4, FS_Union
      <3>3. Cardinality(A \cup S) \in Nat
        BY <3>2, FS_CardinalityType
      <3> QED BY <1>0, <2>4, <3>1, <3>2, <3>3
    <2>7. Cardinality(ActiveOccurrences') \in Nat
          /\ Cardinality(ActiveOccurrences') <= Cardinality(A \cup S)
      BY <2>5, <2>6, FS_Subset, FS_CardinalityType
    <2> QED BY <1>0, <2>1, <2>2, <2>4, <2>6, <2>7
  <1> QED BY <1>1, <1>2

LEMMA RunsCapped ==
    ASSUME WorkInv, CapacityRespected, [Next]_vars
    PROVE  Cardinality(ActiveRuns') <= MaxActiveRuns
  <1>0. /\ IsFiniteSet(ActiveRuns) /\ Cardinality(ActiveRuns) \in Nat
        /\ Cardinality(ActiveRuns) <= MaxActiveRuns /\ MaxActiveRuns \in Nat
    BY FiniteTables, ConstantsAssumption DEF WorkInv, SlotInv, CapacityRespected
  <1>1. \/ ActiveRuns' \subseteq ActiveRuns
        \/ /\ \E n : ActiveRuns' \subseteq ActiveRuns \cup {n}
           /\ Cardinality(ActiveRuns) < MaxActiveRuns
    <2>1. ASSUME NEW r, runs' = Append(runs, r)
          PROVE  ActiveRuns' \subseteq ActiveRuns \cup {Len(runs) + 1}
      BY <2>1, Appended DEF ActiveRuns, WorkInv, SlotInv
    <2>2. CASE \E t, c : Linking(t, c)
      BY <2>1, <2>2, LinkingRow
    <2>3. CASE ~\E t, c : Linking(t, c)
      <3>1. RunsKept
        BY <2>3, RunsStep DEF WorkInv, SlotInv
      <3> QED BY <2>1, <3>1 DEF RunsKept, ActiveRuns
    <2> QED BY <2>2, <2>3
  <1>2. CASE ActiveRuns' \subseteq ActiveRuns
    <2>1. Cardinality(ActiveRuns') \in Nat
          /\ Cardinality(ActiveRuns') <= Cardinality(ActiveRuns)
      BY <1>0, <1>2, FS_Subset, FS_CardinalityType
    <2> QED BY <1>0, <2>1
  <1>3. ASSUME NEW n, ActiveRuns' \subseteq ActiveRuns \cup {n},
               Cardinality(ActiveRuns) < MaxActiveRuns
        PROVE  Cardinality(ActiveRuns') <= MaxActiveRuns
    <2>1. /\ IsFiniteSet(ActiveRuns \cup {n})
          /\ Cardinality(ActiveRuns \cup {n}) <= Cardinality(ActiveRuns) + 1
          /\ Cardinality(ActiveRuns \cup {n}) \in Nat
      <3>1. /\ IsFiniteSet(ActiveRuns \cup {n})
            /\ Cardinality(ActiveRuns \cup {n}) =
                 IF n \in ActiveRuns THEN Cardinality(ActiveRuns)
                 ELSE Cardinality(ActiveRuns) + 1
        BY <1>0, FS_AddElement
      <3> QED BY <1>0, <3>1
    <2>2. Cardinality(ActiveRuns') \in Nat
          /\ Cardinality(ActiveRuns') <= Cardinality(ActiveRuns \cup {n})
      BY <1>3, <2>1, FS_Subset, FS_CardinalityType
    <2> QED BY <1>0, <1>3, <2>1, <2>2
  <1> QED BY <1>1, <1>2, <1>3

\* Both caps hold at once, for any number of ticks: claims are counted in the
\* transaction that grants them, a Run in the one that creates it, and a Run made by
\* hand takes the same room.
THEOREM CapsHold == Spec => []CapacityRespected
  <1>1. Init => CapacityRespected
    <2> SUFFICES ASSUME Init PROVE CapacityRespected
      OBVIOUS
    <2>1. ActiveOccurrences = {} /\ ActiveRuns = {}
      BY DEF Init, ActiveOccurrences, ActiveRuns
    <2> QED BY <2>1, FS_EmptySet, ConstantsAssumption DEF CapacityRespected
  <1>2. WorkInv /\ CapacityRespected /\ [Next]_vars => CapacityRespected'
    BY OccurrencesCapped, RunsCapped DEF CapacityRespected
  <1> QED BY <1>1, <1>2, WorkInvariant, PTL DEF Spec

=============================================================================
