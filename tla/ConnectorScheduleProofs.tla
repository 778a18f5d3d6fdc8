----------------------- MODULE ConnectorScheduleProofs -----------------------
(***************************************************************************)
(* Proofs about module ConnectorSchedule, for any accounts, ticks,         *)
(* schedules and leases.  A step either treats existing runs (RunsKept) or *)
(* claims one new run; and a tick past the fence stays with the run of its *)
(* occurrence, whoever takes the occurrence over meanwhile.                *)
(***************************************************************************)
EXTENDS ConnectorSchedule, FiniteSetTheorems, TLAPS

-----------------------------------------------------------------------------
(* The inductive invariant.                                                *)

Places == {"idle", "linked", "reclaim", "materialize", "claim", "next",
           "fence", "refresh", "running", "finalize"}

ClaimRows == [slot : Slots, gen : Nat]

TickRows == [at : Places, now : Nat, claims : SUBSET ClaimRows, slot : Slots,
             gen : Nat, refreshed : {None} \cup Runs]

AccountsTyped == account \in [Accounts -> AccountRows]

RunsTyped == run \in [Runs -> RunRows]

\* What a cached next slot says of the definition it was computed from.
NextFits(d, next) == IF d.kind = "daily" THEN next >= d.every ELSE next = d.at

SchedulesSound ==
    /\ sched \in [Accounts -> ScheduleRows]
    /\ \A a \in Accounts :
           /\ sched[a].srev <= sched[a].rev /\ sched[a].rev <= MaxScheduleRev
           /\ sched[a].next # None =>
                  sched[a].life = "enabled" /\ NextFits(sched[a].def, sched[a].next)

OccurrencesSound ==
    /\ occ \in [Slots -> OccurrenceRows] /\ notif \subseteq NoticeRows
    /\ \A k \in Slots : (occ[k].owner # Nobody) <=> (occ[k].state \in {"claimed", "sync_created"})

\* Past the fence a tick's occurrence has a run, and a refresh in progress is of that run.
WithRun(row) ==
    /\ row.at \in {"refresh", "running", "finalize"} => occ[row.slot].run # None
    /\ row.at = "running" => row.refreshed = occ[row.slot].run

TicksSound ==
    /\ clock \in 1 .. MaxClock
    /\ tick \in [Ticks -> TickRows]
    /\ \A t \in Ticks : tick[t].now <= clock /\ WithRun(tick[t])

\* An occurrence's run exists and was made for an occurrence.
RunsExist ==
    \A k \in Slots : occ[k].run # None =>
        run[occ[k].run].status # "none" /\ run[occ[k].run].trigger = "scheduled"

ScheduleInv ==
    /\ AccountsTyped /\ RunsTyped /\ SchedulesSound /\ OccurrencesSound /\ TicksSound
    /\ RunsExist /\ LinkedRuns /\ RunsCapped

LEMMA InvTypes == ScheduleInv => TypeOK
  BY DEF ScheduleInv, AccountsTyped, RunsTyped, SchedulesSound, OccurrencesSound,
         TicksSound, TickRows, ClaimRows, TypeOK

-----------------------------------------------------------------------------
(* Slots.                                                                  *)

LEMMA ScheduleShape ==
    ASSUME NEW d \in Schedules
    PROVE  \/ d.kind = "daily" /\ d.every \in Nat \ {0}
           \/ d.kind = "one_time" /\ d.at \in Nat \ {0}
  BY ScheduleAssumption

LEMMA Multiples ==
    ASSUME NEW n \in Nat, NEW e \in Nat \ {0}
    PROVE  /\ (n \div e) * e \in 0 .. n
           /\ n >= e => (n \div e) * e >= e
           /\ (n \div e + 1) * e \in Nat /\ (n \div e + 1) * e >= e
  <1> DEFINE q == n \div e
  <1>1. q \in Nat /\ n = q * e + (n % e) /\ n % e \in 0 .. e - 1
    OBVIOUS
  <1> HIDE DEF q
  <1>2. q * e \in Nat
    BY <1>1
  <1>3. (q + 1) * e = q * e + e
    BY <1>1
  <1>4. q * e <= n
    BY <1>1, <1>2
  <1>5. ASSUME n >= e PROVE q * e >= e
    <2>1. q # 0
      BY <1>1, <1>5
    <2>2. PICK p \in Nat : q = p + 1
      BY <1>1, <2>1
    <2>3. p * e \in Nat /\ q * e = p * e + e
      BY <2>2
    <2> QED  BY <2>3
  <1> QED  BY <1>1, <1>2, <1>3, <1>4, <1>5 DEF q

LEMMA NextPointFits ==
    ASSUME NEW d \in Schedules, NEW n \in Nat
    PROVE  /\ NextPoint(d, n) \in Nat
           /\ NextPoint(d, n) # None => NextFits(d, NextPoint(d, n))
  <1>1. CASE d.kind = "daily" /\ d.every \in Nat \ {0}
    BY <1>1, Multiples DEF NextPoint, NextFits
  <1>2. CASE d.kind = "one_time" /\ d.at \in Nat \ {0}
    BY <1>2 DEF NextPoint, NextFits, None
  <1> QED  BY <1>1, <1>2, ScheduleShape

LEMMA SlotsExist == Idle \in TickRows /\ Idle.at = "idle" /\ Idle.now = 0
  <1>1. Slots # {}
    <2>1. PICK a \in Accounts : TRUE
      BY ConnectorsAssumption
    <2>2. <<a, 0, 1>> \in Slots
      BY ScheduleAssumption DEF Slots
    <2> QED  BY <2>2
  <1>2. (CHOOSE k \in Slots : TRUE) \in Slots
    BY <1>1
  <1> QED  BY <1>2 DEF Idle, TickRows, Places, None

\* A tick that finds a schedule due records a slot of the clock's past.
LEMMA DueSlot ==
    ASSUME SchedulesSound, NEW a \in Accounts, NEW now \in Nat, now <= MaxClock,
           sched[a].next \in 1 .. now
    PROVE  /\ DueKey(a, now) \in Slots
           /\ LatestDue(a, now) \in Nat
  <1> DEFINE d == sched[a].def
  <1>1. d \in Schedules /\ NextFits(d, sched[a].next) /\ sched[a].srev \in 0 .. MaxScheduleRev
    BY ScheduleAssumption DEF SchedulesSound, ScheduleRows, None
  <1>2. LatestDue(a, now) \in 1 .. now
    <2>1. CASE d.kind = "daily" /\ d.every \in Nat \ {0}
      <3>1. now >= d.every
        BY <1>1, <2>1 DEF NextFits
      <3> QED  BY <2>1, <3>1, Multiples DEF LatestDue
    <2>2. CASE d.kind = "one_time" /\ d.at \in Nat \ {0}
      BY <1>1, <2>2 DEF NextFits, LatestDue
    <2> QED  BY <1>1, <2>1, <2>2, ScheduleShape
  <1> QED  BY <1>1, <1>2, ScheduleAssumption DEF DueKey, Slots

-----------------------------------------------------------------------------
(* What steps do to sync runs.                                             *)

\* Runs are marked and settled, none is claimed and none becomes active again.
RunsKept ==
    /\ run' \in [Runs -> RunRows]
    /\ \A r \in Runs :
           /\ (run'[r].status = "none") <=> (run[r].status = "none")
           /\ run'[r].account = run[r].account /\ run'[r].rev = run[r].rev
           /\ run'[r].trigger = run[r].trigger
           /\ run'[r].status \in Active => run[r].status \in Active

LEMMA SameRuns ==
    ASSUME RunsTyped, UNCHANGED run
    PROVE  RunsKept
  BY DEF RunsTyped, RunsKept

LEMMA SettleKeeps ==
    ASSUME RunsTyped, NEW r \in Runs, run[r].status # "none",
           NEW s \in Terminal, Settle(r, s)
    PROVE  RunsKept
  <1>1. run \in [Runs -> RunRows] /\ run[r] \in RunRows
    BY DEF RunsTyped
  <1>2. PICK complete \in BOOLEAN : complete = (s = "succeeded")
    OBVIOUS
  <1>3. run' = [run EXCEPT ![r] = [run[r] EXCEPT !.status = s, !.complete = complete]]
    BY <1>1, <1>2 DEF Settle, RunRows
  <1> DEFINE row == [run[r] EXCEPT !.status = s, !.complete = complete]
  <1>4. /\ row \in RunRows /\ row.status = s /\ row.account = run[r].account
        /\ row.rev = run[r].rev /\ row.trigger = run[r].trigger
    BY <1>1 DEF RunRows
  <1>5. s # "none" /\ s \notin Active
    BY DEF Terminal, Active
  <1> HIDE DEF row
  <1>6. run' \in [Runs -> RunRows] /\ run'[r] = row /\ \A q \in Runs : q # r => run'[q] = run[q]
    BY <1>1, <1>3, <1>4 DEF row
  <1> QED  BY <1>4, <1>5, <1>6 DEF RunsKept

LEMMA MarkKeeps ==
    ASSUME RunsTyped, NEW r \in Runs, MarkRunning(r)
    PROVE  RunsKept
  BY DEF RunsTyped, RunsKept, RunRows, MarkRunning, Terminal, Active

\* The one new run of a claim.
LEMMA ClaimAdds ==
    ASSUME RunsTyped, AccountsTyped, NEW r \in Runs, NEW a \in Accounts,
           NEW trigger \in {"manual", "scheduled"}, Claim(r, a, trigger)
    PROVE  /\ RunsTyped'
           /\ run[r].status = "none"
           /\ run'[r].status = "claimed" /\ run'[r].account = a
           /\ run'[r].rev = account[a].rev /\ run'[r].trigger = trigger
           /\ \A q \in Runs : q # r => run'[q] = run[q]
  BY DEF RunsTyped, AccountsTyped, RunRows, AccountRows, Claim, NextRun, Active

\* uq_connector_sync_runs_one_active_account and the capacity lock.
LEMMA KeptCapped ==
    ASSUME RunsKept, RunsCapped
    PROVE  RunsCapped'
  <1> DEFINE S == {r \in Runs : run[r].status \in Active}
  <1>1. IsFiniteSet(Runs)
    BY ConnectorsAssumption, FS_Interval DEF Runs
  <1>2. IsFiniteSet(S) /\ \A a \in Accounts : IsFiniteSet(ActiveRuns(a))
    BY <1>1, FS_Subset DEF ActiveRuns
  <1>3. S' \subseteq S /\ \A a \in Accounts : ActiveRuns(a)' \subseteq ActiveRuns(a)
    BY DEF RunsKept, ActiveRuns
  <1>4. /\ Cardinality(S') \in Nat /\ Cardinality(S) \in Nat /\ Cardinality(S') <= Cardinality(S)
    BY <1>2, <1>3, FS_Subset, FS_CardinalityType
  <1>5. ASSUME NEW a \in Accounts PROVE Cardinality(ActiveRuns(a)') <= 1
    <2>1. /\ Cardinality(ActiveRuns(a)') \in Nat /\ Cardinality(ActiveRuns(a)) \in Nat
          /\ Cardinality(ActiveRuns(a)') <= Cardinality(ActiveRuns(a))
      BY <1>2, <1>3, FS_Subset, FS_CardinalityType
    <2> QED  BY <2>1 DEF RunsCapped
  <1>6. ActiveCount = Cardinality(S) /\ ActiveCount' = Cardinality(S')
    BY DEF ActiveCount
  <1> HIDE DEF S
  <1>7. ActiveCount' <= GlobalCap
    BY <1>4, <1>6, ConnectorsAssumption DEF RunsCapped
  <1> QED  BY <1>5, <1>7 DEF RunsCapped

LEMMA ClaimCapped ==
    ASSUME RunsTyped, AccountsTyped, NEW r \in Runs, NEW a \in Accounts,
           NEW trigger \in {"manual", "scheduled"}, Claim(r, a, trigger), RunsCapped
    PROVE  RunsCapped'
  <1> DEFINE S == {q \in Runs : run[q].status \in Active}
  <1>1. IsFiniteSet(Runs)
    BY ConnectorsAssumption, FS_Interval DEF Runs
  <1>2. IsFiniteSet(S)
    BY <1>1, FS_Subset
  <1>3. S' = S \cup {r} /\ r \notin S
    BY ClaimAdds DEF Active
  <1>4. Cardinality(S') = Cardinality(S) + 1 /\ Cardinality(S) \in Nat
    BY <1>2, <1>3, FS_AddElement, FS_CardinalityType
  <1>5. ActiveCount = Cardinality(S) /\ ActiveCount' = Cardinality(S')
    BY DEF ActiveCount
  <1>6. ActiveCount < GlobalCap /\ ActiveRuns(a) = {}
    BY DEF Claim, Claimable
  <1>7. ASSUME NEW b \in Accounts PROVE Cardinality(ActiveRuns(b)') <= 1
    <2>1. CASE b = a
      <3>1. ActiveRuns(b)' = {r}
        BY <1>6, <2>1, ClaimAdds DEF ActiveRuns, Active
      <3> QED  BY <3>1, FS_Singleton
    <2>2. CASE b # a
      <3>1. ActiveRuns(b)' = ActiveRuns(b)
        BY <2>2, ClaimAdds DEF ActiveRuns, Active
      <3> QED  BY <3>1 DEF RunsCapped
    <2> QED  BY <2>1, <2>2
  <1> HIDE DEF S
  <1>8. ActiveCount' <= GlobalCap
    BY <1>4, <1>5, <1>6, ConnectorsAssumption
  <1> QED  BY <1>7, <1>8 DEF RunsCapped

-----------------------------------------------------------------------------
(* Runs and occurrences.                                                   *)

LinkedStates == {"sync_created"} \cup Terminal

\* No occurrence gains or loses its run, or passes the link without one.
LinksKept ==
    \A k \in Slots :
        /\ occ'[k].run = occ[k].run
        /\ occ[k].run # None => occ'[k].arev = occ[k].arev
        /\ (occ'[k].state \in LinkedStates) <=> (occ[k].state \in LinkedStates)

Linked == RunsExist /\ LinkedRuns

LEMMA SameLinks ==
    ASSUME UNCHANGED occ
    PROVE  LinksKept
  BY DEF LinksKept

LEMMA KeptLinked ==
    ASSUME OccurrencesSound, Linked, RunsKept, LinksKept
    PROVE  Linked'
  <1>1. \A k \in Slots : occ[k].run \in {None} \cup Runs
    BY DEF OccurrencesSound, OccurrenceRows
  <1>2. RunsExist'
    BY <1>1 DEF Linked, RunsExist, RunsKept, LinksKept
  <1>3. ASSUME NEW r \in Runs, run'[r].status # "none", run'[r].trigger = "scheduled"
        PROVE  \E k \in Slots :
                  /\ \A other \in Slots : occ'[other].run = r <=> other = k
                  /\ run'[r].account = k[1] /\ run'[r].rev = occ'[k].arev
    <2>1. PICK k \in Slots :
              /\ \A other \in Slots : occ[other].run = r <=> other = k
              /\ run[r].account = k[1] /\ run[r].rev = occ[k].arev
      BY <1>3 DEF Linked, LinkedRuns, RunsKept
    <2>2. occ[k].run # None
      BY <2>1 DEF None, Runs
    <2> QED  BY <2>1, <2>2 DEF LinksKept, RunsKept
  <1>4. \A k \in Slots : (occ'[k].run # None) <=> (occ'[k].state \in LinkedStates)
    BY DEF Linked, LinkedRuns, LinksKept, LinkedStates
  <1>5. LinkedRuns'
    BY <1>3, <1>4 DEF LinkedRuns, LinkedStates
  <1> QED  BY <1>2, <1>5 DEF Linked

\* A manual claim adds a run that no occurrence has.
LEMMA ManualLinked ==
    ASSUME RunsTyped, AccountsTyped, OccurrencesSound, Linked,
           NEW r \in Runs, NEW a \in Accounts, Claim(r, a, "manual"), UNCHANGED occ
    PROVE  Linked'
  <1>1. \A k \in Slots : occ[k].run \in {None} \cup Runs
    BY DEF OccurrencesSound, OccurrenceRows
  <1>2. \A q \in Runs : q # r => run'[q] = run[q]
    BY ClaimAdds
  <1>3. run[r].status = "none" /\ run'[r].trigger = "manual"
    BY ClaimAdds
  <1>4. RunsExist'
    BY <1>1, <1>2, <1>3 DEF Linked, RunsExist
  <1>5. LinkedRuns'
    BY <1>2, <1>3 DEF Linked, LinkedRuns
  <1> QED  BY <1>4, <1>5 DEF Linked

\* create_and_link_sync: the new run is the occurrence's alone.
LEMMA LinkLinked ==
    ASSUME RunsTyped, AccountsTyped, OccurrencesSound, Linked,
           NEW k \in Slots, NEW r \in Runs, Claim(r, k[1], "scheduled"),
           occ[k].state = "claimed", account[k[1]].rev = occ[k].arev,
           occ' = [occ EXCEPT ![k].run = r, ![k].state = "sync_created"]
    PROVE  Linked'
  <1>0. k[1] \in Accounts
    BY DEF Slots
  <1>1. \A j \in Slots : occ[j].run \in {None} \cup Runs
    BY DEF OccurrencesSound, OccurrenceRows
  <1>2. \A q \in Runs : q # r => run'[q] = run[q]
    BY <1>0, ClaimAdds
  <1>3. /\ run[r].status = "none" /\ run'[r].status = "claimed" /\ run'[r].account = k[1]
        /\ run'[r].rev = occ[k].arev /\ run'[r].trigger = "scheduled"
    BY <1>0, ClaimAdds
  <1>4. occ[k].run = None
    BY DEF Linked, LinkedRuns, Terminal
  <1>5. /\ occ'[k].run = r /\ occ'[k].state = "sync_created" /\ occ'[k].arev = occ[k].arev
        /\ \A j \in Slots : j # k => occ'[j] = occ[j]
    BY DEF OccurrencesSound, OccurrenceRows
  <1>6. r # None
    BY DEF Runs, None
  <1>7. \A j \in Slots : occ[j].run # r
    BY <1>1, <1>3, <1>6 DEF Linked, RunsExist
  <1>8. RunsExist'
    <2>1. SUFFICES ASSUME NEW j \in Slots, occ'[j].run # None
                   PROVE  run'[occ'[j].run].status # "none" /\ run'[occ'[j].run].trigger = "scheduled"
      BY DEF RunsExist
    <2>2. CASE j = k
      BY <1>3, <1>5, <2>2
    <2>3. CASE j # k
      <3>1. occ'[j].run = occ[j].run /\ occ[j].run \in Runs /\ occ[j].run # r
        BY <1>1, <1>5, <1>7, <2>1, <2>3
      <3>2. run'[occ[j].run] = run[occ[j].run]
        BY <1>2, <3>1
      <3> QED  BY <2>1, <3>1, <3>2 DEF Linked, RunsExist
    <2> QED  BY <2>2, <2>3
  <1>9. ASSUME NEW q \in Runs, run'[q].status # "none", run'[q].trigger = "scheduled"
        PROVE  \E j \in Slots :
                  /\ \A other \in Slots : occ'[other].run = q <=> other = j
                  /\ run'[q].account = j[1] /\ run'[q].rev = occ'[j].arev
    <2>1. CASE q = r
      <3>1. \A other \in Slots : occ'[other].run = q <=> other = k
        BY <1>5, <1>7, <2>1
      <3> QED  BY <1>3, <1>5, <2>1, <3>1
    <2>2. CASE q # r
      <3>1. PICK j \in Slots :
                /\ \A other \in Slots : occ[other].run = q <=> other = j
                /\ run[q].account = j[1] /\ run[q].rev = occ[j].arev
        BY <1>2, <1>9, <2>2 DEF Linked, LinkedRuns
      <3>2. j # k
        BY <1>4, <3>1 DEF Runs, None
      <3>3. \A other \in Slots : occ'[other].run = q <=> other = j
        BY <1>4, <1>5, <2>2, <3>1, <3>2
      <3> QED  BY <1>2, <1>5, <2>2, <3>1, <3>2, <3>3
    <2> QED  BY <2>1, <2>2
  <1>10. \A j \in Slots : (occ'[j].run # None) <=> (occ'[j].state \in LinkedStates)
    <2>1. ASSUME NEW j \in Slots, j # k
          PROVE  (occ'[j].run # None) <=> (occ'[j].state \in LinkedStates)
      BY <1>5, <2>1 DEF Linked, LinkedRuns, LinkedStates
    <2>2. occ'[k].run # None /\ occ'[k].state \in LinkedStates
      BY <1>5, <1>6 DEF LinkedStates
    <2> QED  BY <2>1, <2>2
  <1>11. LinkedRuns'
    BY <1>9, <1>10 DEF LinkedRuns, LinkedStates
  <1> QED  BY <1>8, <1>11 DEF Linked

-----------------------------------------------------------------------------
(* Accounts and ticks.                                                     *)

LEMMA EditedTyped ==
    ASSUME AccountsTyped, NEW a \in Accounts
    PROVE  account[a] \in AccountRows /\ Edited(a) \in AccountRows
  BY DEF AccountsTyped, AccountRows, Edited

LEMMA AccountEdits ==
    ASSUME AccountsTyped, NEW a \in Accounts, ConfigureAccount(a)
    PROVE  AccountsTyped' /\ UNCHANGED run
  <1>1. PICK row \in AccountRows : account' = [account EXCEPT ![a] = row]
    <2>1. CASE CreateAccount(a)
      <3>1. PICK s \in Scopes, l \in Allowlists : account' = [account EXCEPT ![a] =
                [account[a] EXCEPT !.life = "disabled", !.scope = s, !.allow = l]]
        BY <2>1 DEF CreateAccount
      <3>2. [account[a] EXCEPT !.life = "disabled", !.scope = s, !.allow = l] \in AccountRows
        BY EditedTyped DEF AccountRows
      <3> QED  BY <3>1, <3>2
    <2>2. CASE UpdateAccount(a)
      <3>1. PICK s \in Scopes, l \in Allowlists : account' = [account EXCEPT ![a] =
                [Edited(a) EXCEPT !.scope = s, !.allow = l, !.val = "unvalidated"]]
        BY <2>2 DEF UpdateAccount
      <3>2. [Edited(a) EXCEPT !.scope = s, !.allow = l, !.val = "unvalidated"] \in AccountRows
        BY EditedTyped DEF AccountRows
      <3> QED  BY <3>1, <3>2
    <2>3. ASSUME NEW t \in {"enabled", "disabled", "revoked"}, SetLifecycle(a, t)
          PROVE  \E row \in AccountRows : account' = [account EXCEPT ![a] = row]
      <3>1. [Edited(a) EXCEPT !.life = t, !.val = IF t = "revoked" THEN "revoked" ELSE @]
                \in AccountRows
        BY EditedTyped DEF AccountRows
      <3> QED  BY <2>3, <3>1 DEF SetLifecycle
    <2> QED  BY <2>1, <2>2, <2>3 DEF ConfigureAccount
  <1>2. UNCHANGED run
    BY DEF ConfigureAccount, CreateAccount, UpdateAccount, SetLifecycle
  <1> QED  BY <1>1, <1>2 DEF AccountsTyped

LEMMA FenceTyped ==
    ASSUME AccountsTyped, RunsTyped, NEW r \in Runs, FenceAccount(r)
    PROVE  AccountsTyped'
  <1> DEFINE a == run[r].account
  <1>1. a \in Accounts
    BY DEF RunsTyped, RunRows
  <1>2. [Edited(a) EXCEPT !.life = "disabled", !.val = "invalid"] \in AccountRows
    <2>1. Edited(a) \in AccountRows
      BY <1>1, EditedTyped
    <2> QED  BY <2>1 DEF AccountRows
  <1>3. \/ account' = account
        \/ account' = [account EXCEPT ![a] =
               [Edited(a) EXCEPT !.life = "disabled", !.val = "invalid"]]
    BY DEF FenceAccount
  <1> HIDE DEF a
  <1> QED  BY <1>1, <1>2, <1>3 DEF AccountsTyped

LEMMA RefreshEndKeeps ==
    ASSUME AccountsTyped, RunsTyped, NEW r \in Runs, run[r].status # "none", EndRefresh(r)
    PROVE  AccountsTyped' /\ RunsKept
  <1>1. CASE Settle(r, "succeeded") /\ UNCHANGED account
    BY <1>1, SettleKeeps DEF AccountsTyped, Terminal
  <1>2. ASSUME NEW s \in {"incomplete", "failed"}, Settle(r, s), UNCHANGED account
        PROVE  AccountsTyped' /\ RunsKept
    <2>1. s \in Terminal
      BY DEF Terminal
    <2> QED  BY <1>2, <2>1, SettleKeeps DEF AccountsTyped
  <1>3. CASE Settle(r, "failed") /\ FenceAccount(r)
    BY <1>3, SettleKeeps, FenceTyped DEF Terminal
  <1> QED  BY <1>1, <1>2, <1>3 DEF EndRefresh

\* A tick moves on and no occurrence loses its run.
LEMMA TickMoves ==
    ASSUME TicksSound, NEW t \in Ticks, NEW row \in TickRows,
           tick' = [tick EXCEPT ![t] = row], clock' = clock, row.now <= clock,
           \A k \in Slots : occ[k].run # None => occ'[k].run = occ[k].run,
           row.at \in {"refresh", "running", "finalize"} => occ'[row.slot].run # None,
           row.at = "running" => row.refreshed = occ'[row.slot].run
    PROVE  TicksSound'
  <1>1. tick' \in [Ticks -> TickRows] /\ clock' \in 1 .. MaxClock
    BY DEF TicksSound
  <1>2. ASSUME NEW s \in Ticks PROVE (tick[s].now <= clock)' /\ WithRun(tick[s])'
    <2>1. CASE s = t
      BY <2>1 DEF TicksSound, WithRun
    <2>2. CASE s # t
      <3>1. tick'[s] = tick[s] /\ tick[s].slot \in Slots
        BY <2>2 DEF TicksSound, TickRows
      <3>2. tick[s].now <= clock /\ WithRun(tick[s])
        BY DEF TicksSound
      <3> QED  BY <3>1, <3>2 DEF WithRun
    <2> QED  BY <2>1, <2>2
  <1> QED  BY <1>1, <1>2 DEF TicksSound, WithRun

\* Ticks stay where they are.
LEMMA TicksStay ==
    ASSUME TicksSound, UNCHANGED tick, clock' \in clock .. MaxClock,
           \A k \in Slots : occ[k].run # None => occ'[k].run = occ[k].run
    PROVE  TicksSound'
  <1>1. \A t \in Ticks : tick[t].slot \in Slots /\ tick[t].now \in Nat
    BY DEF TicksSound, TickRows
  <1>2. \A t \in Ticks : WithRun(tick[t])'
    BY <1>1 DEF TicksSound, WithRun
  <1> QED  BY <1>1, <1>2 DEF TicksSound, WithRun

LEMMA Assembled ==
    ASSUME AccountsTyped', RunsTyped', SchedulesSound', OccurrencesSound',
           TicksSound', Linked', RunsCapped'
    PROVE  ScheduleInv'
  BY DEF ScheduleInv, Linked

LEMMA Parts ==
    ASSUME ScheduleInv
    PROVE  /\ AccountsTyped /\ RunsTyped /\ SchedulesSound /\ OccurrencesSound
           /\ TicksSound /\ Linked /\ RunsCapped
  BY DEF ScheduleInv, Linked

\* A step that treats runs and occurrences as RunsKept and LinksKept say.
LEMMA KeptInv ==
    ASSUME ScheduleInv, AccountsTyped', RunsKept, SchedulesSound', OccurrencesSound',
           LinksKept, TicksSound'
    PROVE  ScheduleInv'
  <1>1. RunsTyped'
    BY DEF RunsKept, RunsTyped
  <1>2. Linked' /\ RunsCapped'
    BY Parts, KeptLinked, KeptCapped
  <1> QED  BY <1>1, <1>2, Assembled

\* A step that only moves a tick.
LEMMA QuietTick ==
    ASSUME ScheduleInv, NEW t \in Ticks, NEW row \in TickRows,
           tick' = [tick EXCEPT ![t] = row], row.now <= clock, WithRun(row),
           UNCHANGED <<account, run, clock, sched, occ, notif>>
    PROVE  ScheduleInv'
  <1>1. AccountsTyped' /\ SchedulesSound' /\ OccurrencesSound' /\ RunsKept /\ LinksKept
    BY Parts, SameRuns, SameLinks DEF AccountsTyped, SchedulesSound, OccurrencesSound
  <1>2. TicksSound'
    BY Parts, TickMoves DEF WithRun
  <1> QED  BY <1>1, <1>2, KeptInv

LEMMA TickRow ==
    ASSUME TicksSound, NEW t \in Ticks
    PROVE  /\ tick[t] \in TickRows /\ tick[t].now \in Nat /\ tick[t].now <= clock
           /\ tick[t].claims \subseteq ClaimRows /\ tick[t].slot \in Slots /\ WithRun(tick[t])
           /\ clock \in Nat /\ clock <= MaxClock
  BY DEF TicksSound, TickRows

-----------------------------------------------------------------------------
(* Schedules.                                                              *)

\* A schedule keeps its shape and its revisions grow within the bound.
ScheduleFits(row) ==
    /\ row \in ScheduleRows
    /\ row.srev <= row.rev /\ row.rev <= MaxScheduleRev
    /\ row.next # None => row.life = "enabled" /\ NextFits(row.def, row.next)

LEMMA ScheduleWritten ==
    ASSUME SchedulesSound, NEW a \in Accounts, NEW row, ScheduleFits(row),
           sched' = [sched EXCEPT ![a] = row]
    PROVE  SchedulesSound'
  BY DEF SchedulesSound, ScheduleFits

\* The four ways a command writes a row.
LEMMA ScheduleRowsWritten ==
    ASSUME NEW old \in ScheduleRows, ScheduleFits(old),
           NEW rev \in Nat, NEW srev \in Nat, srev <= rev, rev <= MaxScheduleRev,
           NEW d \in Schedules, NEW p \in Policies, NEW next \in Nat
    PROVE  /\ old.next = None =>
                  ScheduleFits([old EXCEPT !.life = "draft", !.def = d, !.policy = p])
           /\ (next # None => old.life = "enabled" /\ NextFits(d, next)) =>
                  ScheduleFits([old EXCEPT !.def = d, !.policy = p, !.rev = rev,
                                           !.srev = srev, !.next = next])
           /\ (next # None => NextFits(old.def, next)) /\ srev = old.srev =>
                  ScheduleFits([old EXCEPT !.life = "enabled", !.rev = rev, !.next = next])
           /\ srev = old.srev => \A life \in {"paused", "cancelled"} :
                  ScheduleFits([old EXCEPT !.life = life, !.rev = rev, !.next = None])
  <1>1. ASSUME old.next = None
        PROVE  ScheduleFits([old EXCEPT !.life = "draft", !.def = d, !.policy = p])
    <2> DEFINE row == [old EXCEPT !.life = "draft", !.def = d, !.policy = p]
    <2>1. row \in ScheduleRows /\ row.srev = old.srev /\ row.rev = old.rev /\ row.next = None
      BY <1>1 DEF ScheduleRows
    <2> HIDE DEF row
    <2>2. ScheduleFits(row)
      BY <2>1 DEF ScheduleFits
    <2> QED  BY <2>2 DEF row
  <1>2. ASSUME next # None => old.life = "enabled" /\ NextFits(d, next)
        PROVE  ScheduleFits([old EXCEPT !.def = d, !.policy = p, !.rev = rev,
                                        !.srev = srev, !.next = next])
    <2> DEFINE row == [old EXCEPT !.def = d, !.policy = p, !.rev = rev,
                                  !.srev = srev, !.next = next]
    <2>1. /\ row \in ScheduleRows /\ row.srev = srev /\ row.rev = rev
          /\ row.next = next /\ row.life = old.life /\ row.def = d
      BY DEF ScheduleRows
    <2> HIDE DEF row
    <2>2. ScheduleFits(row)
      BY <1>2, <2>1 DEF ScheduleFits
    <2> QED  BY <2>2 DEF row
  <1>3. ASSUME next # None => NextFits(old.def, next), srev = old.srev
        PROVE  ScheduleFits([old EXCEPT !.life = "enabled", !.rev = rev, !.next = next])
    <2> DEFINE row == [old EXCEPT !.life = "enabled", !.rev = rev, !.next = next]
    <2>1. /\ row \in ScheduleRows /\ row.srev = old.srev /\ row.rev = rev
          /\ row.next = next /\ row.life = "enabled" /\ row.def = old.def
      BY DEF ScheduleRows
    <2> HIDE DEF row
    <2>2. ScheduleFits(row)
      BY <1>3, <2>1 DEF ScheduleFits
    <2> QED  BY <2>2 DEF row
  <1>4. ASSUME NEW life \in {"paused", "cancelled"}, srev = old.srev
        PROVE  ScheduleFits([old EXCEPT !.life = life, !.rev = rev, !.next = None])
    <2> DEFINE row == [old EXCEPT !.life = life, !.rev = rev, !.next = None]
    <2>1. /\ row \in ScheduleRows /\ row.srev = old.srev /\ row.rev = rev
          /\ row.next = None
      BY DEF ScheduleRows, None
    <2> HIDE DEF row
    <2>2. ScheduleFits(row)
      BY <1>4, <2>1 DEF ScheduleFits
    <2> QED  BY <2>2 DEF row
  <1> QED  BY <1>1, <1>2, <1>3, <1>4

LEMMA ScheduleEdits ==
    ASSUME ScheduleInv, NEW a \in Accounts, EditSchedule(a)
    PROVE  ScheduleInv'
  <1>0. /\ ScheduleFits(sched[a]) /\ sched[a] \in ScheduleRows /\ sched[a].rev < MaxScheduleRev
        /\ sched[a].def \in Schedules /\ sched[a].policy \in Policies /\ clock \in Nat
    BY Parts DEF EditSchedule, SchedulesSound, ScheduleFits, TicksSound, ScheduleRows
  <1>r. /\ sched[a].rev \in Nat /\ sched[a].srev \in Nat
        /\ sched[a].rev + 1 \in Nat /\ sched[a].srev + 1 \in Nat
        /\ sched[a].rev <= MaxScheduleRev /\ sched[a].srev <= sched[a].rev
        /\ sched[a].rev + 1 <= MaxScheduleRev /\ sched[a].srev <= sched[a].rev + 1
        /\ sched[a].srev + 1 <= sched[a].rev + 1
    BY <1>0, ScheduleAssumption DEF ScheduleFits, ScheduleRows
  <1>1. \E row : ScheduleFits(row) /\ sched' = [sched EXCEPT ![a] = row]
    <2>1. CASE CreateSchedule(a)
      <3>1. PICK d \in Schedules, p \in Policies :
                sched' = [sched EXCEPT ![a] = [sched[a] EXCEPT !.life = "draft", !.def = d, !.policy = p]]
        BY <2>1 DEF CreateSchedule
      <3>2. sched[a].next = None
        BY <1>0, <2>1 DEF CreateSchedule, ScheduleFits
      <3>3. ScheduleFits([sched[a] EXCEPT !.life = "draft", !.def = d, !.policy = p])
        BY <1>0, <1>r, <3>2, ScheduleRowsWritten, 0 \in Nat
      <3> QED  BY <3>1, <3>3
    <2>2. CASE UpdateSchedule(a)
      <3>1. PICK d \in Schedules, p \in Policies :
                sched' = [sched EXCEPT ![a] =
                   [sched[a] EXCEPT !.def = d, !.policy = p, !.rev = @ + 1, !.srev = @ + 1,
                       !.next = IF sched[a].life = "enabled" THEN NextPoint(d, clock) ELSE None]]
        BY <1>0, <1>r, <2>2 DEF UpdateSchedule, ScheduleRows
      <3> DEFINE next == IF sched[a].life = "enabled" THEN NextPoint(d, clock) ELSE None
      <3>2. next \in Nat /\ (next # None => sched[a].life = "enabled" /\ NextFits(d, next))
        BY <1>0, NextPointFits DEF None
      <3>3. sched' = [sched EXCEPT ![a] =
                   [sched[a] EXCEPT !.def = d, !.policy = p, !.rev = @ + 1, !.srev = @ + 1,
                                    !.next = next]]
        BY <3>1
      <3> HIDE DEF next
      <3>4. ScheduleFits([sched[a] EXCEPT !.def = d, !.policy = p, !.rev = @ + 1,
                                          !.srev = @ + 1, !.next = next])
        BY <1>0, <1>r, <3>2, ScheduleRowsWritten
      <3> QED  BY <3>3, <3>4
    <2>3. CASE EnableSchedule(a)
      <3> DEFINE next == NextPoint(sched[a].def, clock)
      <3>1. next \in Nat /\ (next # None => NextFits(sched[a].def, next))
        BY <1>0, NextPointFits
      <3>2. sched' = [sched EXCEPT ![a] =
                         [sched[a] EXCEPT !.life = "enabled", !.rev = @ + 1, !.next = next]]
        BY <1>0, <1>r, <2>3 DEF EnableSchedule, ScheduleRows
      <3> HIDE DEF next
      <3>3. ScheduleFits([sched[a] EXCEPT !.life = "enabled", !.rev = @ + 1, !.next = next])
        BY <1>0, <1>r, <3>1, ScheduleRowsWritten
      <3> QED  BY <3>2, <3>3
    <2>4. ASSUME NEW life \in {"paused", "cancelled"}, StopSchedule(a, life)
          PROVE  \E row : ScheduleFits(row) /\ sched' = [sched EXCEPT ![a] = row]
      <3>1. ScheduleFits([sched[a] EXCEPT !.life = life, !.rev = @ + 1, !.next = None])
        BY <1>0, <1>r, ScheduleRowsWritten, 0 \in Nat
      <3> QED  BY <1>0, <1>r, <2>4, <3>1 DEF StopSchedule, ScheduleRows
    <2> QED  BY <2>1, <2>2, <2>3, <2>4 DEF EditSchedule
  <1>2. SchedulesSound'
    BY <1>1, Parts, ScheduleWritten
  <1>3. UNCHANGED <<account, run, clock, occ, notif, tick>>
    BY DEF EditSchedule
  <1>4. AccountsTyped' /\ OccurrencesSound' /\ RunsKept /\ LinksKept
    BY <1>3, Parts, SameRuns, SameLinks DEF AccountsTyped, OccurrencesSound
  <1>5. TicksSound'
    BY <1>3, Parts DEF TicksSound, WithRun
  <1> QED  BY <1>2, <1>4, <1>5, KeptInv

-----------------------------------------------------------------------------
(* The batch transactions.                                                 *)

\* The rows a tick may come to.
LEMMA RowsMoved ==
    ASSUME NEW old \in TickRows, NEW at \in Places, NEW claims \in SUBSET ClaimRows,
           NEW now \in Nat, NEW slot \in Slots, NEW gen \in Nat, NEW r \in Runs
    PROVE  /\ [old EXCEPT !.at = at] \in TickRows
           /\ [old EXCEPT !.claims = claims] \in TickRows
           /\ [old EXCEPT !.at = at, !.claims = claims] \in TickRows
           /\ [old EXCEPT !.at = at, !.now = now] \in TickRows
           /\ [old EXCEPT !.at = at, !.refreshed = r] \in TickRows
           /\ [old EXCEPT !.claims = claims, !.at = at, !.slot = slot, !.gen = gen] \in TickRows
  BY DEF TickRows

LEMMA StartSound ==
    ASSUME ScheduleInv, NEW t \in Ticks, StartTick(t)
    PROVE  ScheduleInv'
  <1> DEFINE row == [Idle EXCEPT !.at = "linked", !.now = clock]
  <1>1. row \in TickRows /\ row.at = "linked" /\ row.now = clock
    BY SlotsExist, Parts, TickRow DEF TickRows, Places
  <1>2. tick' = [tick EXCEPT ![t] = row]
    BY DEF StartTick
  <1> HIDE DEF row
  <1>3. WithRun(row) /\ row.now <= clock
    BY <1>1, Parts, TickRow DEF WithRun
  <1> QED  BY <1>1, <1>2, <1>3, QuietTick DEF StartTick

LEMMA ClaimsTyped ==
    ASSUME OccurrencesSound, NEW t, NEW keys \in SUBSET Slots
    PROVE  Claims(t, keys) \subseteq ClaimRows
  BY DEF Claims, ClaimRows, OccurrencesSound, OccurrenceRows

LEMMA LeasedTyped ==
    ASSUME OccurrencesSound, TicksSound, NEW t \in Ticks, NEW k \in Slots
    PROVE  /\ Leased(k, t) \in OccurrenceRows
           /\ Leased(k, t).owner = t /\ Leased(k, t).state = occ[k].state
           /\ Leased(k, t).run = occ[k].run /\ Leased(k, t).arev = occ[k].arev
  <1>1. PICK expires \in Nat : expires = tick[t].now + Lease
    BY TickRow, ScheduleAssumption
  <1>2. PICK gen \in Nat : gen = occ[k].gen + 1
    BY DEF OccurrencesSound, OccurrenceRows
  <1>3. occ[k] \in OccurrenceRows
    BY DEF OccurrencesSound
  <1>4. Leased(k, t) = [occ[k] EXCEPT !.owner = t, !.gen = gen, !.expires = expires]
    BY <1>1, <1>2 DEF Leased
  <1> QED  BY <1>3, <1>4 DEF OccurrenceRows

LEMMA ReclaimSound ==
    ASSUME ScheduleInv, NEW t \in Ticks, NEW state \in {"claimed", "sync_created"},
           NEW here, NEW next \in {"reclaim", "materialize"}, Reclaim(t, here, state, next)
    PROVE  ScheduleInv'
  <1> DEFINE keys == Expired(t, state)
             row == [tick[t] EXCEPT !.at = next, !.claims = @ \cup Claims(t, keys)]
  <1>1. keys \subseteq Slots /\ \A k \in keys : occ[k].state = state
    BY DEF Expired
  <1>2. occ' = [k \in Slots |-> IF k \in keys THEN Leased(k, t) ELSE occ[k]]
    BY DEF Reclaim
  <1> HIDE DEF keys
  <1>3. LinksKept
    BY <1>2, Parts, LeasedTyped DEF LinksKept
  <1>4. OccurrencesSound'
    <2>1. occ' \in [Slots -> OccurrenceRows]
      BY <1>2, Parts, LeasedTyped DEF OccurrencesSound
    <2>2. ASSUME NEW k \in Slots
          PROVE  (occ'[k].owner # Nobody) <=> (occ'[k].state \in {"claimed", "sync_created"})
      BY <1>1, <1>2, Parts, LeasedTyped, ScheduleAssumption DEF OccurrencesSound
    <2> QED  BY <2>1, <2>2, Parts DEF OccurrencesSound, Reclaim
  <1>5. row \in TickRows /\ row.at = next /\ row.now <= clock
    <2>1. Claims(t, keys) \subseteq ClaimRows
      BY <1>1, Parts, ClaimsTyped
    <2>2. PICK claims \in SUBSET ClaimRows : claims = tick[t].claims \cup Claims(t, keys)
      BY <2>1, Parts, TickRow
    <2>3. row = [tick[t] EXCEPT !.at = next, !.claims = claims]
      BY <2>2
    <2>4. next \in Places /\ tick[t] \in TickRows /\ tick[t].now <= clock
      BY Parts, TickRow DEF Places
    <2> HIDE DEF row
    <2>5. row \in TickRows /\ row.at = next /\ row.now <= clock
      BY <2>3, <2>4 DEF TickRows
    <2> QED  BY <2>5 DEF row
  <1>6. tick' = [tick EXCEPT ![t] = row] /\ clock' = clock
    BY DEF Reclaim, GoOn, keys
  <1> HIDE DEF row
  <1>7. TicksSound'
    BY <1>3, <1>5, <1>6, Parts, TickMoves DEF LinksKept
  <1>8. AccountsTyped' /\ SchedulesSound' /\ RunsKept
    BY Parts, SameRuns DEF Reclaim, AccountsTyped, SchedulesSound
  <1> QED  BY <1>3, <1>4, <1>7, <1>8, KeptInv

LEMMA SkippedSlots ==
    ASSUME SchedulesSound, TicksSound, NEW t \in Ticks, NEW a \in DueSchedules(t)
    PROVE  /\ DueKey(a, tick[t].now) \in Slots
           /\ NextPoint(sched[a].def, LatestDue(a, tick[t].now)) \in Nat
           /\ LET next == NextPoint(sched[a].def, LatestDue(a, tick[t].now))
              IN  next # None => NextFits(sched[a].def, next)
  <1>1. /\ a \in Accounts /\ sched[a].next \in 1 .. tick[t].now
        /\ tick[t].now \in Nat /\ tick[t].now <= MaxClock
    BY TickRow, ScheduleAssumption DEF DueSchedules
  <1>2. DueKey(a, tick[t].now) \in Slots /\ LatestDue(a, tick[t].now) \in Nat
    BY <1>1, DueSlot
  <1>3. sched[a].def \in Schedules
    BY <1>1 DEF SchedulesSound, ScheduleRows
  <1> QED  BY <1>2, <1>3, NextPointFits

LEMMA MaterializeSound ==
    ASSUME ScheduleInv, NEW t \in Ticks, Materialize(t)
    PROVE  ScheduleInv'
  <1> DEFINE now == tick[t].now
             due == Materialized(t)
             new(a) == [NoOccurrence EXCEPT
                           !.state = IF sched[a].policy = "skip" THEN "missed" ELSE "due",
                           !.arev = account[a].rev, !.row = sched[a].rev]
             next(a) == NextPoint(sched[a].def, LatestDue(a, now))
             made(k) == k[1] \in due /\ k = DueKey(k[1], now)
  <1>1. ASSUME NEW a \in due
        PROVE  /\ a \in Accounts /\ a \in DueSchedules(t) /\ sched[a].life = "enabled"
               /\ DueKey(a, now) \in Slots /\ occ[DueKey(a, now)].state = "none"
               /\ next(a) \in Nat /\ (next(a) # None => NextFits(sched[a].def, next(a)))
    <2>1. a \in DueSchedules(t) /\ occ[DueKey(a, now)].state = "none"
      BY DEF Materialized
    <2>2. a \in Accounts /\ sched[a].life = "enabled"
      BY <2>1 DEF DueSchedules
    <2> QED  BY <2>1, <2>2, Parts, SkippedSlots
  <1>2. ASSUME NEW a \in due
        PROVE  /\ new(a) \in OccurrenceRows /\ new(a).run = None /\ new(a).owner = Nobody
               /\ new(a).state \in {"missed", "due"}
    <2>1. account[a].rev \in Nat /\ sched[a].rev \in Nat
      BY <1>1, Parts DEF AccountsTyped, AccountRows, SchedulesSound, ScheduleRows
    <2>2. PICK state \in {"missed", "due"} :
              state = IF sched[a].policy = "skip" THEN "missed" ELSE "due"
      OBVIOUS
    <2>r. PICK arev \in Nat, row \in Nat : arev = account[a].rev /\ row = sched[a].rev
      BY <2>1
    <2> DEFINE plain == [NoOccurrence EXCEPT !.state = state, !.arev = arev, !.row = row]
    <2>3. /\ plain \in OccurrenceRows /\ plain.run = None /\ plain.owner = Nobody
          /\ plain.state = state
      BY DEF NoOccurrence, OccurrenceRows, OccurrenceEnds, None
    <2>4. new(a) = plain
      BY <2>2, <2>r
    <2> HIDE DEF plain, new
    <2>5. /\ new(a) \in OccurrenceRows /\ new(a).run = None /\ new(a).owner = Nobody
          /\ new(a).state \in {"missed", "due"}
      BY <2>3, <2>4
    <2> QED  BY <2>5 DEF new
  <1>3. occ' = [k \in Slots |-> IF made(k) THEN new(k[1]) ELSE occ[k]]
    BY DEF Materialize
  <1>4. sched' = [a \in Accounts |->
                     IF a \in due THEN [sched[a] EXCEPT !.next = next(a)] ELSE sched[a]]
    BY DEF Materialize
  <1>5. notif' = notif \cup Notices("missed", {DueKey(a, now) : a \in
                                          {b \in due : sched[b].policy = "skip"}})
    BY DEF Materialize
  <1>6. tick' = [tick EXCEPT ![t] = [tick[t] EXCEPT !.at = "claim", !.claims = @ \cup Claims(t, {})]]
    BY DEF Materialize, GoOn
  <1>7. \A k \in Slots : made(k) => k[1] \in due /\ occ[k].state = "none"
    BY <1>1
  <1> HIDE DEF due, new, next, made, now
  <1>8. OccurrencesSound'
    <2>1. occ' \in [Slots -> OccurrenceRows]
      BY <1>2, <1>3, <1>7, Parts DEF OccurrencesSound
    <2>2. ASSUME NEW k \in Slots
          PROVE  (occ'[k].owner # Nobody) <=> (occ'[k].state \in {"claimed", "sync_created"})
      <3>1. CASE made(k)
        BY <1>2, <1>3, <1>7, <3>1
      <3>2. CASE ~made(k)
        BY <1>3, <3>2, Parts DEF OccurrencesSound
      <3> QED  BY <3>1, <3>2
    <2>3. notif' \subseteq NoticeRows
      BY <1>1, <1>5, Parts DEF OccurrencesSound, Notices, NoticeRows, OccurrenceEnds
    <2> QED  BY <2>1, <2>2, <2>3 DEF OccurrencesSound
  <1>9. LinksKept
    <2>1. ASSUME NEW k \in Slots, made(k)
          PROVE  /\ occ[k].run = None /\ occ'[k].run = None
                 /\ occ[k].state \notin LinkedStates /\ occ'[k].state \notin LinkedStates
      <3>1. occ[k].state = "none" /\ occ'[k] = new(k[1]) /\ k[1] \in due
        BY <1>3, <1>7, <2>1
      <3>2. occ[k].state \notin LinkedStates /\ occ'[k].state \notin LinkedStates
        BY <1>2, <3>1 DEF LinkedStates, Terminal
      <3>3. occ[k].run = None
        BY <3>2, Parts DEF Linked, LinkedRuns, LinkedStates
      <3> QED  BY <1>2, <3>1, <3>2, <3>3
    <2>2. ASSUME NEW k \in Slots, ~made(k) PROVE occ'[k] = occ[k]
      BY <1>3, <2>2
    <2> QED  BY <2>1, <2>2 DEF LinksKept
  <1>10. SchedulesSound'
    <2>1. ASSUME NEW a \in Accounts
          PROVE  /\ sched'[a] \in ScheduleRows
                 /\ sched'[a].srev = sched[a].srev /\ sched'[a].rev = sched[a].rev
                 /\ sched'[a].next # None =>
                        sched'[a].life = "enabled" /\ NextFits(sched'[a].def, sched'[a].next)
      <3>1. sched[a] \in ScheduleRows
        BY Parts DEF SchedulesSound
      <3>2. CASE a \in due
        <4>1. sched'[a] = [sched[a] EXCEPT !.next = next(a)]
          BY <1>4, <3>2
        <4>2. /\ sched'[a] \in ScheduleRows /\ sched'[a].next = next(a)
              /\ sched'[a].life = sched[a].life /\ sched'[a].def = sched[a].def
              /\ sched'[a].srev = sched[a].srev /\ sched'[a].rev = sched[a].rev
          BY <1>1, <3>1, <3>2, <4>1 DEF ScheduleRows
        <4> QED  BY <1>1, <3>2, <4>2
      <3>3. CASE a \notin due
        BY <1>4, <3>1, <3>3, Parts DEF SchedulesSound
      <3> QED  BY <3>2, <3>3
    <2>2. sched' \in [Accounts -> ScheduleRows]
      BY <1>4, <2>1
    <2> QED  BY <2>1, <2>2, Parts DEF SchedulesSound
  <1>11. TicksSound'
    <2> DEFINE row == [tick[t] EXCEPT !.at = "claim", !.claims = @ \cup Claims(t, {})]
    <2>1. row \in TickRows /\ row.at = "claim" /\ row.now <= clock
      <3>1. Claims(t, {}) = {}
        BY DEF Claims
      <3> QED  BY <3>1, Parts, TickRow DEF TickRows, Places
    <2>2. tick' = [tick EXCEPT ![t] = row] /\ clock' = clock
      BY <1>6 DEF Materialize
    <2> HIDE DEF row
    <2> QED  BY <1>9, <2>1, <2>2, Parts, TickMoves DEF LinksKept
  <1>12. AccountsTyped' /\ RunsKept
    BY Parts, SameRuns DEF Materialize, AccountsTyped
  <1> QED  BY <1>8, <1>9, <1>10, <1>11, <1>12, KeptInv

LEMMA ClaimDueSound ==
    ASSUME ScheduleInv, NEW t \in Ticks, ClaimDue(t)
    PROVE  ScheduleInv'
  <1> DEFINE due == {k \in Slots : occ[k].state = "due" /\ k[3] <= tick[t].now}
             good == {k \in due : Authorized(k)}
             row == [Idle EXCEPT !.at = "next", !.claims = tick[t].claims \cup Claims(t, good)]
  <1>1. /\ good \subseteq due /\ due \subseteq Slots /\ good \subseteq Slots
        /\ \A k \in due : occ[k].state = "due"
    OBVIOUS
  <1>2. occ' = [k \in Slots |->
               IF k \in good THEN [Leased(k, t) EXCEPT !.state = "claimed"]
               ELSE IF k \in due THEN [occ[k] EXCEPT !.state = "cancelled"] ELSE occ[k]]
    BY DEF ClaimDue
  <1>3. notif' = notif \cup Notices("cancelled", due \ good)
    BY DEF ClaimDue
  <1>4. tick' = [tick EXCEPT ![t] = row] /\ clock' = clock
    BY DEF ClaimDue
  <1>5. row \in TickRows /\ row.at = "next" /\ row.now <= clock
    <2>1. Claims(t, good) \subseteq ClaimRows
      BY <1>1, Parts, ClaimsTyped
    <2>2. PICK claims \in SUBSET ClaimRows : claims = tick[t].claims \cup Claims(t, good)
      BY <2>1, Parts, TickRow
    <2>3. row = [Idle EXCEPT !.at = "next", !.claims = claims]
      BY <2>2
    <2> HIDE DEF row
    <2>4. row \in TickRows /\ row.at = "next" /\ row.now = Idle.now
      BY <2>2, <2>3, SlotsExist DEF TickRows, Places
    <2>5. row.now <= clock
      BY <2>4, SlotsExist, Parts, TickRow
    <2> QED  BY <2>4, <2>5 DEF row
  <1> HIDE DEF due, good, row
  <1>6. ASSUME NEW k \in Slots
        PROVE  /\ occ'[k] \in OccurrenceRows
               /\ occ'[k].run = occ[k].run /\ occ'[k].arev = occ[k].arev
               /\ k \in good => occ'[k].state = "claimed" /\ occ'[k].owner = t
               /\ k \in due \ good => occ'[k].state = "cancelled" /\ occ'[k].owner = occ[k].owner
               /\ k \notin due => occ'[k] = occ[k]
    <2>1. occ[k] \in OccurrenceRows
      BY Parts DEF OccurrencesSound
    <2>2. CASE k \in good
      <3>1. occ'[k] = [Leased(k, t) EXCEPT !.state = "claimed"] /\ Leased(k, t) \in OccurrenceRows
        BY <1>2, <2>2, Parts, LeasedTyped
      <3>2. Leased(k, t).owner = t /\ Leased(k, t).run = occ[k].run /\ Leased(k, t).arev = occ[k].arev
        BY Parts, LeasedTyped
      <3>3. /\ occ'[k] \in OccurrenceRows /\ occ'[k].state = "claimed"
            /\ occ'[k].owner = t /\ occ'[k].run = occ[k].run /\ occ'[k].arev = occ[k].arev
        BY <3>1, <3>2 DEF OccurrenceRows
      <3> QED  BY <1>1, <2>2, <3>3
    <2>3. CASE k \in due /\ k \notin good
      <3>1. occ'[k] = [occ[k] EXCEPT !.state = "cancelled"]
        BY <1>2, <2>3
      <3> QED  BY <2>1, <2>3, <3>1 DEF OccurrenceRows, OccurrenceEnds
    <2>4. CASE k \notin due
      BY <1>1, <1>2, <2>1, <2>4
    <2> QED  BY <2>2, <2>3, <2>4
  <1>7. LinksKept
    <2>1. ASSUME NEW k \in due
          PROVE  occ[k].state \notin LinkedStates /\ occ'[k].state \notin LinkedStates
      BY <1>1, <1>6 DEF LinkedStates, Terminal
    <2> QED  BY <1>6, <2>1 DEF LinksKept
  <1>8. OccurrencesSound'
    <2>1. occ' \in [Slots -> OccurrenceRows]
      BY <1>2, <1>6
    <2>2. ASSUME NEW k \in Slots
          PROVE  (occ'[k].owner # Nobody) <=> (occ'[k].state \in {"claimed", "sync_created"})
      BY <1>1, <1>6, Parts, ScheduleAssumption DEF OccurrencesSound
    <2>3. notif' \subseteq NoticeRows
      BY <1>1, <1>3, Parts DEF OccurrencesSound, Notices, NoticeRows, OccurrenceEnds
    <2> QED  BY <2>1, <2>2, <2>3 DEF OccurrencesSound
  <1>9. TicksSound'
    BY <1>4, <1>5, <1>6, Parts, TickMoves
  <1>10. AccountsTyped' /\ SchedulesSound' /\ RunsKept
    BY Parts, SameRuns DEF ClaimDue, AccountsTyped, SchedulesSound
  <1> QED  BY <1>7, <1>8, <1>9, <1>10, KeptInv

-----------------------------------------------------------------------------
(* The loop over the claims.                                               *)

\* A claim that is dropped or taken leaves a typed row.
LEMMA VisitedRow ==
    ASSUME TicksSound, NEW t \in Ticks, NEW c \in tick[t].claims
    PROVE  /\ c.slot \in Slots /\ c.gen \in Nat
           /\ [tick[t] EXCEPT !.claims = @ \ {c}] \in TickRows
           /\ [tick[t] EXCEPT !.claims = @ \ {c}, !.at = "fence",
                              !.slot = c.slot, !.gen = c.gen] \in TickRows
  <1>1. c \in ClaimRows /\ tick[t] \in TickRows
    BY TickRow
  <1>2. PICK claims \in SUBSET ClaimRows : claims = tick[t].claims \ {c}
    BY TickRow
  <1>3. PICK slot \in Slots, gen \in Nat : slot = c.slot /\ gen = c.gen
    BY <1>1 DEF ClaimRows
  <1>4. [tick[t] EXCEPT !.claims = claims] \in TickRows
    BY <1>1 DEF TickRows
  <1>5. [tick[t] EXCEPT !.claims = claims, !.at = "fence", !.slot = slot, !.gen = gen] \in TickRows
    BY <1>1 DEF TickRows, Places
  <1> QED  BY <1>2, <1>3, <1>4, <1>5

LEMMA VisitSound ==
    ASSUME TicksSound, NEW t \in Ticks, NEW c \in tick[t].claims, Visit(t, c, "fence"),
           clock' = clock, \A k \in Slots : occ[k].run # None => occ'[k].run = occ[k].run
    PROVE  TicksSound'
  <1> DEFINE row == [tick[t] EXCEPT !.claims = @ \ {c}, !.at = "fence",
                                    !.slot = c.slot, !.gen = c.gen]
  <1>1. row \in TickRows
    BY VisitedRow
  <1>2. row.at = "fence" /\ row.now = tick[t].now
    BY TickRow DEF TickRows
  <1>3. tick' = [tick EXCEPT ![t] = row]
    BY DEF Visit
  <1> HIDE DEF row
  <1>4. row.now <= clock
    BY <1>2, TickRow
  <1> QED  BY <1>1, <1>2, <1>3, <1>4, TickMoves

LEMMA LinkSound ==
    ASSUME ScheduleInv, NEW t \in Ticks, Link(t)
    PROVE  ScheduleInv'
  <1>1. PICK c \in tick[t].claims : LinkNew(t, c) \/ LinkOld(t, c) \/ LinkRefused(t, c)
    BY DEF Link
  <1>2. c.slot \in Slots /\ c.slot[1] \in Accounts
    BY Parts, VisitedRow DEF Slots
  <1>3. CASE LinkNew(t, c)
    <2>1. PICK r \in Runs :
              /\ Claim(r, c.slot[1], "scheduled")
              /\ occ' = [occ EXCEPT ![c.slot].run = r, ![c.slot].state = "sync_created"]
      BY <1>3 DEF LinkNew
    <2>2. /\ occ[c.slot].state = "claimed" /\ occ[c.slot].owner = t
          /\ account[c.slot[1]].rev = occ[c.slot].arev
      BY <1>3 DEF LinkNew, Validated, Holds, Authorized
    <2>3. Linked'
      BY <1>2, <2>1, <2>2, Parts, LinkLinked
    <2>4. RunsTyped' /\ RunsCapped'
      BY <1>2, <2>1, Parts, ClaimAdds, ClaimCapped
    <2>5. occ[c.slot] \in OccurrenceRows /\ occ \in [Slots -> OccurrenceRows]
      BY <1>2, Parts DEF OccurrencesSound
    <2>6. /\ occ'[c.slot] = [occ[c.slot] EXCEPT !.run = r, !.state = "sync_created"]
          /\ \A k \in Slots : k # c.slot => occ'[k] = occ[k]
      BY <1>2, <2>1, <2>5 DEF OccurrenceRows
    <2>7. occ'[c.slot] \in OccurrenceRows /\ occ'[c.slot].state = "sync_created"
          /\ occ'[c.slot].owner = t
      BY <2>2, <2>5, <2>6 DEF OccurrenceRows
    <2>8. OccurrencesSound'
      <3>1. occ' \in [Slots -> OccurrenceRows]
        BY <2>1, <2>5, <2>6, <2>7
      <3>2. UNCHANGED notif
        BY <1>3 DEF LinkNew
      <3> QED  BY <2>6, <2>7, <3>1, <3>2, Parts, ScheduleAssumption DEF OccurrencesSound
    <2>9. occ[c.slot].run = None
      BY <1>2, <2>2, Parts DEF Linked, LinkedRuns, Terminal
    <2>10. TicksSound'
      <3>1. \A k \in Slots : occ[k].run # None => occ'[k].run = occ[k].run
        BY <2>6, <2>9
      <3> QED  BY <1>3, <3>1, Parts, VisitSound DEF LinkNew
    <2>11. AccountsTyped' /\ SchedulesSound'
      BY <1>3, Parts DEF LinkNew, AccountsTyped, SchedulesSound
    <2> QED  BY <2>3, <2>4, <2>8, <2>10, <2>11, Assembled
  <1>4. CASE LinkOld(t, c)
    <2>1. TicksSound'
      BY <1>4, Parts, VisitSound DEF LinkOld
    <2>2. AccountsTyped' /\ SchedulesSound' /\ OccurrencesSound' /\ RunsKept /\ LinksKept
      BY <1>4, Parts, SameRuns, SameLinks
      DEF LinkOld, AccountsTyped, SchedulesSound, OccurrencesSound
    <2> QED  BY <2>1, <2>2, KeptInv
  <1>5. CASE LinkRefused(t, c)
    <2> DEFINE row == [tick[t] EXCEPT !.claims = @ \ {c}]
    <2>1. row \in TickRows
      BY Parts, VisitedRow
    <2>2. tick' = [tick EXCEPT ![t] = row]
      BY <1>5 DEF LinkRefused
    <2>3. /\ row.at = tick[t].at /\ row.now = tick[t].now /\ row.slot = tick[t].slot
          /\ row.refreshed = tick[t].refreshed
      BY Parts, TickRow DEF TickRows
    <2> HIDE DEF row
    <2>4. row.now <= clock /\ WithRun(row)
      BY <2>3, Parts, TickRow DEF WithRun
    <2> QED  BY <1>5, <2>1, <2>2, <2>4, QuietTick DEF LinkRefused
  <1> QED  BY <1>1, <1>3, <1>4, <1>5

\* Back at the loop head, or at another place with the same occurrence.
LEMMA NextClaimRow ==
    ASSUME TicksSound, NEW t \in Ticks, NextClaim(t)
    PROVE  \E row \in TickRows : /\ tick' = [tick EXCEPT ![t] = row]
                                 /\ row.at = "next" /\ row.now <= clock
  <1> DEFINE row == [Idle EXCEPT !.at = "next", !.claims = tick[t].claims]
  <1>1. row \in TickRows /\ row.at = "next" /\ row.now = Idle.now
    BY SlotsExist, TickRow DEF TickRows, Places
  <1>2. tick' = [tick EXCEPT ![t] = row]
    BY DEF NextClaim
  <1> HIDE DEF row
  <1>3. row.now <= clock
    BY <1>1, SlotsExist, TickRow
  <1> QED  BY <1>1, <1>2, <1>3

LEMMA LeaveRow ==
    ASSUME TicksSound, NEW t \in Ticks, NEW place \in Places, Leave(t, place)
    PROVE  \E row \in TickRows :
              /\ tick' = [tick EXCEPT ![t] = row]
              /\ row.at = place /\ row.now <= clock
              /\ row.slot = tick[t].slot /\ row.refreshed = tick[t].refreshed
  <1> DEFINE row == [tick[t] EXCEPT !.at = place]
  <1>1. /\ row \in TickRows /\ row.at = place /\ row.now = tick[t].now
        /\ row.slot = tick[t].slot /\ row.refreshed = tick[t].refreshed
    BY TickRow DEF TickRows
  <1>2. tick' = [tick EXCEPT ![t] = row]
    BY DEF Leave
  <1> HIDE DEF row
  <1> QED  BY <1>1, <1>2, TickRow

\* A tick that goes back to the loop head, everything else as it was.
LEMMA BackSound ==
    ASSUME ScheduleInv, NEW t \in Ticks, NextClaim(t),
           UNCHANGED <<account, run, clock, sched, occ, notif>>
    PROVE  ScheduleInv'
  <1>1. PICK row \in TickRows : /\ tick' = [tick EXCEPT ![t] = row]
                                /\ row.at = "next" /\ row.now <= clock
    BY Parts, NextClaimRow
  <1>2. WithRun(row)
    BY <1>1 DEF WithRun
  <1> QED  BY <1>1, <1>2, QuietTick

LEMMA FenceSound ==
    ASSUME ScheduleInv, NEW t \in Ticks, Fence(t)
    PROVE  ScheduleInv'
  <1>1. UNCHANGED <<account, run, clock, sched, occ, notif>>
    BY DEF Fence
  <1>2. CASE Validated(t, tick[t].slot, tick[t].gen, "sync_created")
    <2>1. PICK place \in {"finalize", "refresh"} : Leave(t, place)
      BY <1>2 DEF Fence
    <2>2. PICK row \in TickRows : /\ tick' = [tick EXCEPT ![t] = row]
                                  /\ row.at = place /\ row.now <= clock
                                  /\ row.slot = tick[t].slot
      BY <2>1, Parts, LeaveRow DEF Places
    <2>3. occ[tick[t].slot].run # None
      BY <1>2, Parts, TickRow DEF Validated, Holds, Linked, LinkedRuns
    <2>4. WithRun(row)
      BY <2>2, <2>3 DEF WithRun
    <2> QED  BY <1>1, <2>2, <2>4, QuietTick
  <1>3. CASE ~Validated(t, tick[t].slot, tick[t].gen, "sync_created")
    <2>1. NextClaim(t)
      BY <1>3 DEF Fence
    <2> QED  BY <1>1, <2>1, BackSound
  <1> QED  BY <1>2, <1>3

\* The run of a tick past the fence.
LEMMA OwnRun ==
    ASSUME ScheduleInv, NEW t \in Ticks, tick[t].at \in {"refresh", "running", "finalize"}
    PROVE  /\ Mine(t).run \in Runs /\ Mine(t).run # None /\ run[Mine(t).run].status # "none"
           /\ tick[t].at = "running" => tick[t].refreshed = Mine(t).run
  <1>1. tick[t].slot \in Slots /\ WithRun(tick[t])
    BY Parts, TickRow
  <1>2. occ[tick[t].slot].run \in {None} \cup Runs
    BY <1>1, Parts DEF OccurrencesSound, OccurrenceRows
  <1>3. occ[tick[t].slot].run # None
    BY <1>1 DEF WithRun
  <1> QED  BY <1>1, <1>2, <1>3, Parts DEF Mine, WithRun, Linked, RunsExist

\* A step of the refresh: the run moves on, the occurrence does not.
LEMMA RefreshSteps ==
    ASSUME ScheduleInv, NEW t \in Ticks, NEW row \in TickRows,
           tick' = [tick EXCEPT ![t] = row], row.now <= clock, row.slot = tick[t].slot,
           tick[t].at \in {"refresh", "running", "finalize"},
           row.at = "running" => row.refreshed = Mine(t).run,
           AccountsTyped', RunsKept, UNCHANGED <<clock, sched, occ, notif>>
    PROVE  ScheduleInv'
  <1>1. SchedulesSound' /\ OccurrencesSound' /\ LinksKept
    BY Parts, SameLinks DEF SchedulesSound, OccurrencesSound
  <1>2. Mine(t).run # None
    BY OwnRun
  <1>3. TicksSound'
    BY <1>2, Parts, TickMoves DEF Mine
  <1> QED  BY <1>1, <1>3, KeptInv

LEMMA RefreshSound ==
    ASSUME ScheduleInv, NEW t \in Ticks,
           RefreshBegins(t) \/ RefreshFails(t) \/ RefreshBroken(t) \/ RefreshEnds(t)
    PROVE  ScheduleInv'
  <1>1. CASE RefreshBegins(t)
    <2> DEFINE row == [tick[t] EXCEPT !.at = "running", !.refreshed = Mine(t).run]
    <2>1. Mine(t).run \in Runs /\ tick[t].at = "refresh"
      BY <1>1, OwnRun DEF RefreshBegins, At
    <2>2. /\ row \in TickRows /\ row.at = "running" /\ row.now = tick[t].now
          /\ row.slot = tick[t].slot /\ row.refreshed = Mine(t).run
      BY <2>1, Parts, TickRow DEF TickRows, Places
    <2>3. tick' = [tick EXCEPT ![t] = row]
      BY <1>1 DEF RefreshBegins
    <2> HIDE DEF row
    <2>4. RunsKept /\ AccountsTyped' /\ UNCHANGED <<clock, sched, occ, notif>>
      BY <1>1, <2>1, Parts, MarkKeeps DEF RefreshBegins, AccountsTyped
    <2>5. row.now <= clock
      BY <2>2, Parts, TickRow
    <2> QED  BY <2>1, <2>2, <2>3, <2>4, <2>5, RefreshSteps
  <1>2. CASE RefreshFails(t)
    <2>1. Mine(t).run \in Runs /\ run[Mine(t).run].status # "none" /\ tick[t].at = "refresh"
      BY <1>2, OwnRun DEF RefreshFails, At
    <2>2. PICK s \in Terminal : Settle(Mine(t).run, s)
      BY <1>2 DEF RefreshFails, Terminal
    <2>3. RunsKept
      BY <2>1, <2>2, Parts, SettleKeeps
    <2>4. PICK row \in TickRows : /\ tick' = [tick EXCEPT ![t] = row]
                                  /\ row.at = "finalize" /\ row.now <= clock
                                  /\ row.slot = tick[t].slot
      BY <1>2, Parts, LeaveRow DEF RefreshFails, Places
    <2>5. AccountsTyped' /\ UNCHANGED <<clock, sched, occ, notif>>
      BY <1>2, Parts DEF RefreshFails, AccountsTyped
    <2> QED  BY <2>1, <2>3, <2>4, <2>5, RefreshSteps
  <1>3. CASE RefreshBroken(t)
    BY <1>3, BackSound DEF RefreshBroken
  <1>4. CASE RefreshEnds(t)
    <2>1. /\ tick[t].refreshed \in Runs /\ run[tick[t].refreshed].status # "none"
          /\ tick[t].at = "running"
      BY <1>4, OwnRun DEF RefreshEnds, At
    <2>2. AccountsTyped' /\ RunsKept
      BY <1>4, <2>1, Parts, RefreshEndKeeps DEF RefreshEnds
    <2>3. PICK row \in TickRows : /\ tick' = [tick EXCEPT ![t] = row]
                                  /\ row.at = "finalize" /\ row.now <= clock
                                  /\ row.slot = tick[t].slot
      BY <1>4, Parts, LeaveRow DEF RefreshEnds, Places
    <2>4. UNCHANGED <<clock, sched, occ, notif>>
      BY <1>4 DEF RefreshEnds
    <2> QED  BY <2>1, <2>2, <2>3, <2>4, RefreshSteps
  <1> QED  BY <1>1, <1>2, <1>3, <1>4

\* finalize closes the occurrence with the status of its settled run.
LEMMA FinalizeSound ==
    ASSUME ScheduleInv, NEW t \in Ticks, Finalize(t)
    PROVE  ScheduleInv'
  <1> DEFINE k == tick[t].slot
             status == run[Mine(t).run].status
  <1>1. NextClaim(t) /\ UNCHANGED <<account, run, clock, sched>>
    BY DEF Finalize
  <1>2. CASE UNCHANGED <<occ, notif>>
    BY <1>1, <1>2, BackSound
  <1>3. CASE /\ Validated(t, k, tick[t].gen, "sync_created") /\ status \in Terminal
             /\ occ' = [occ EXCEPT ![k] = Closed(k, status)]
             /\ notif' = notif \cup Notices(status, {k})
    <2>1. /\ k \in Slots /\ occ[k].state = "sync_created" /\ occ[k] \in OccurrenceRows
          /\ status \in Terminal
      BY <1>3, Parts, TickRow DEF Validated, Holds, OccurrencesSound
    <2>2. occ' = [occ EXCEPT ![k] = Closed(k, status)] /\ notif' = notif \cup Notices(status, {k})
      BY <1>3
    <2> HIDE DEF k, status
    <2>3. /\ Closed(k, status) \in OccurrenceRows
          /\ Closed(k, status).owner = Nobody /\ Closed(k, status).state = status
          /\ Closed(k, status).run = occ[k].run /\ Closed(k, status).arev = occ[k].arev
      BY <2>1 DEF Closed, OccurrenceRows, OccurrenceEnds, None
    <2>4. occ'[k] = Closed(k, status) /\ \A j \in Slots : j # k => occ'[j] = occ[j]
      BY <2>1, <2>2, Parts DEF OccurrencesSound
    <2>5. LinksKept
      BY <2>1, <2>3, <2>4 DEF LinksKept, LinkedStates
    <2>6. OccurrencesSound'
      <3>1. occ' \in [Slots -> OccurrenceRows]
        BY <2>1, <2>2, <2>3, Parts DEF OccurrencesSound
      <3>2. notif' \subseteq NoticeRows
        BY <2>1, <2>2, Parts DEF OccurrencesSound, Notices, NoticeRows, OccurrenceEnds
      <3>3. status \notin {"claimed", "sync_created"}
        BY <2>1 DEF Terminal
      <3> QED  BY <2>3, <2>4, <3>1, <3>2, <3>3, Parts DEF OccurrencesSound
    <2>7. TicksSound'
      <3>1. PICK row \in TickRows : /\ tick' = [tick EXCEPT ![t] = row]
                                    /\ row.at = "next" /\ row.now <= clock
        BY <1>1, Parts, NextClaimRow
      <3> QED  BY <1>1, <2>5, <3>1, Parts, TickMoves DEF LinksKept
    <2>8. AccountsTyped' /\ SchedulesSound' /\ RunsKept
      BY <1>1, Parts, SameRuns DEF AccountsTyped, SchedulesSound
    <2> QED  BY <2>5, <2>6, <2>7, <2>8, KeptInv
  <1> QED  BY <1>2, <1>3 DEF Finalize

\* The end and the death of a tick.
LEMMA IdleSound ==
    ASSUME ScheduleInv, NEW t \in Ticks, EndTick(t) \/ Crash(t)
    PROVE  ScheduleInv'
  <1>1. /\ tick' = [tick EXCEPT ![t] = Idle]
        /\ UNCHANGED <<account, run, clock, sched, occ, notif>>
    BY DEF EndTick, Crash
  <1>2. Idle.now <= clock /\ WithRun(Idle)
    BY SlotsExist, Parts, TickRow DEF WithRun
  <1> QED  BY <1>1, <1>2, SlotsExist, QuietTick

LEMMA TickSound ==
    ASSUME ScheduleInv, NEW t \in Ticks, StartTick(t) \/ TickStep(t) \/ Crash(t)
    PROVE  ScheduleInv'
  <1>1. CASE ReclaimLinked(t) \/ ReclaimExpired(t)
    BY <1>1, ReclaimSound DEF ReclaimLinked, ReclaimExpired
  <1>2. CASE Materialize(t) \/ ClaimDue(t)
    BY <1>2, MaterializeSound, ClaimDueSound
  <1>3. CASE Link(t) \/ Fence(t)
    BY <1>3, LinkSound, FenceSound
  <1>4. CASE RefreshBegins(t) \/ RefreshFails(t) \/ RefreshBroken(t) \/ RefreshEnds(t)
    BY <1>4, RefreshSound
  <1>5. CASE Finalize(t)
    BY <1>5, FinalizeSound
  <1>6. CASE StartTick(t)
    BY <1>6, StartSound
  <1>7. CASE EndTick(t) \/ Crash(t)
    BY <1>7, IdleSound
  <1> QED  BY <1>1, <1>2, <1>3, <1>4, <1>5, <1>6, <1>7 DEF TickStep

-----------------------------------------------------------------------------
(* Operators, manual refreshes and the clock.                              *)

LEMMA ManualClaimSound ==
    ASSUME ScheduleInv, NEW a \in Accounts, ManualClaim(a)
    PROVE  ScheduleInv'
  <1>1. PICK r \in Runs : Claim(r, a, "manual")
    BY DEF ManualClaim
  <1>2. UNCHANGED <<account, clock, sched, occ, notif, tick>>
    BY DEF ManualClaim
  <1>3. RunsTyped' /\ RunsCapped' /\ Linked'
    BY <1>1, <1>2, Parts, ClaimAdds, ClaimCapped, ManualLinked
  <1>4. AccountsTyped' /\ SchedulesSound' /\ OccurrencesSound'
    BY <1>2, Parts DEF AccountsTyped, SchedulesSound, OccurrencesSound
  <1>5. TicksSound'
    BY <1>2, Parts DEF TicksSound, WithRun
  <1> QED  BY <1>3, <1>4, <1>5, Assembled

LEMMA ManualEndSound ==
    ASSUME ScheduleInv, NEW r \in Runs, ManualEnd(r)
    PROVE  ScheduleInv'
  <1>1. run[r].status # "none" /\ EndRefresh(r) /\ UNCHANGED <<clock, sched, occ, notif, tick>>
    BY DEF ManualEnd, ManualRuns
  <1>2. AccountsTyped' /\ RunsKept
    BY <1>1, Parts, RefreshEndKeeps
  <1>3. SchedulesSound' /\ OccurrencesSound' /\ LinksKept
    BY <1>1, Parts, SameLinks DEF SchedulesSound, OccurrencesSound
  <1>4. TicksSound'
    BY <1>1, Parts DEF TicksSound, WithRun
  <1> QED  BY <1>2, <1>3, <1>4, KeptInv

LEMMA EditAccountSound ==
    ASSUME ScheduleInv, NEW a \in Accounts, EditAccount(a)
    PROVE  ScheduleInv'
  <1>1. ConfigureAccount(a) /\ UNCHANGED <<clock, sched, occ, notif, tick>>
    BY DEF EditAccount
  <1>2. AccountsTyped' /\ RunsKept
    BY <1>1, Parts, AccountEdits, SameRuns
  <1>3. SchedulesSound' /\ OccurrencesSound' /\ LinksKept
    BY <1>1, Parts, SameLinks DEF SchedulesSound, OccurrencesSound
  <1>4. TicksSound'
    BY <1>1, Parts DEF TicksSound, WithRun
  <1> QED  BY <1>2, <1>3, <1>4, KeptInv

LEMMA AdvanceSound ==
    ASSUME ScheduleInv, Advance
    PROVE  ScheduleInv'
  <1>1. /\ clock < MaxClock /\ clock' = clock + 1
        /\ UNCHANGED <<account, run, sched, occ, notif, tick>>
    BY DEF Advance
  <1>2. AccountsTyped' /\ SchedulesSound' /\ OccurrencesSound' /\ RunsKept /\ LinksKept
    BY <1>1, Parts, SameRuns, SameLinks DEF AccountsTyped, SchedulesSound, OccurrencesSound
  <1>3. TicksSound'
    <2>1. clock' \in clock .. MaxClock
      BY <1>1, Parts, ScheduleAssumption DEF TicksSound
    <2> QED  BY <1>1, <2>1, Parts, TicksStay
  <1> QED  BY <1>2, <1>3, KeptInv

LEMMA InitSound == Init => ScheduleInv
  <1> SUFFICES ASSUME Init PROVE ScheduleInv
    OBVIOUS
  <1>1. NoAccount \in AccountRows /\ NoRun \in RunRows /\ NoRun.status = "none"
    <2>1. PICK s \in Scopes, a \in Accounts : TRUE
      BY ConnectorsAssumption
    <2>2. /\ (CHOOSE x \in Scopes : TRUE) \in Scopes
          /\ (CHOOSE x \in Accounts : TRUE) \in Accounts /\ Repos \in Allowlists
      BY <2>1, ConnectorsAssumption DEF Allowlists
    <2> QED  BY <2>2 DEF NoAccount, NoRun, AccountRows, RunRows
  <1>2. AccountsTyped /\ RunsTyped
    BY <1>1 DEF Init, AccountsTyped, RunsTyped, AccountRows
  <1>3. SchedulesSound
    <2>1. (CHOOSE d \in Schedules : TRUE) \in Schedules /\ (CHOOSE p \in Policies : TRUE) \in Policies
      BY ScheduleAssumption
    <2> QED  BY <2>1, ScheduleAssumption DEF Init, SchedulesSound, ScheduleRows, None
  <1>4. OccurrencesSound
    BY DEF Init, OccurrencesSound, OccurrenceRows, NoOccurrence, None
  <1>5. TicksSound
    BY SlotsExist, ScheduleAssumption DEF Init, TicksSound, WithRun
  <1>6. Linked
    BY <1>1 DEF Init, Linked, RunsExist, LinkedRuns, NoOccurrence, Terminal
  <1>7. RunsCapped
    <2>1. \A a \in Accounts : ActiveRuns(a) = {}
      BY <1>1 DEF Init, ActiveRuns, Active
    <2>2. {r \in Runs : run[r].status \in Active} = {}
      BY <1>1 DEF Init, Active
    <2>3. ActiveCount = 0 /\ \A a \in Accounts : Cardinality(ActiveRuns(a)) = 0
      BY <2>1, <2>2, FS_EmptySet DEF ActiveCount
    <2> QED  BY <2>3, ConnectorsAssumption DEF RunsCapped
  <1> QED  BY <1>2, <1>3, <1>4, <1>5, <1>6, <1>7 DEF ScheduleInv, Linked

LEMMA StepSound == ScheduleInv /\ [Next]_schedVars => ScheduleInv'
  <1> SUFFICES ASSUME ScheduleInv, [Next]_schedVars PROVE ScheduleInv'
    OBVIOUS
  <1>1. ASSUME NEW t \in Ticks, StartTick(t) \/ TickStep(t) \/ Crash(t) PROVE ScheduleInv'
    BY <1>1, TickSound
  <1>2. ASSUME NEW a \in Accounts, EditSchedule(a) \/ EditAccount(a) \/ ManualClaim(a)
        PROVE  ScheduleInv'
    BY <1>2, ScheduleEdits, EditAccountSound, ManualClaimSound
  <1>3. ASSUME NEW r \in Runs, ManualEnd(r) PROVE ScheduleInv'
    BY <1>3, ManualEndSound
  <1>4. CASE Advance
    BY <1>4, AdvanceSound
  <1>5. CASE UNCHANGED schedVars
    <2>1. UNCHANGED <<account, run, clock, sched, occ, notif, tick>>
      BY <1>5 DEF schedVars
    <2>2. AccountsTyped' /\ SchedulesSound' /\ OccurrencesSound' /\ RunsKept /\ LinksKept
      BY <2>1, Parts, SameRuns, SameLinks DEF AccountsTyped, SchedulesSound, OccurrencesSound
    <2>3. TicksSound'
      BY <2>1, Parts DEF TicksSound, WithRun
    <2> QED  BY <2>2, <2>3, KeptInv
  <1> QED  BY <1>1, <1>2, <1>3, <1>4, <1>5 DEF Next

LEMMA Invariance == Spec => []ScheduleInv
  BY InitSound, StepSound, PTL DEF Spec

-----------------------------------------------------------------------------
(* The theorems.                                                           *)

\* Every table keeps its shape and a lease is held exactly by the open occurrences,
\* whatever ticks, operators and crashes do to one another (schedules.repository).
THEOREM ScheduleTypes == Spec => []TypeOK
  BY Invariance, InvTypes, PTL

\* A scheduled sync run belongs to exactly one occurrence of its account and revision, and
\* an occurrence past its link keeps its one run: reclaiming an occurrence after a crash
\* never claims a second run for it (create_and_link_sync and the claimable states).
THEOREM OneRunPerRefresh == Spec => []LinkedRuns
  <1>1. ScheduleInv => LinkedRuns
    BY DEF ScheduleInv
  <1> QED  BY <1>1, Invariance, PTL

\* One active sync per account and GLOBAL_ACTIVE_SYNC_CAP in all, over scheduled and manual
\* runs: no late writer makes a settled run active again (ck_connector_sync_runs_completion).
THEOREM SyncsCapped == Spec => []RunsCapped
  <1>1. ScheduleInv => RunsCapped
    BY DEF ScheduleInv
  <1> QED  BY <1>1, Invariance, PTL

=============================================================================
