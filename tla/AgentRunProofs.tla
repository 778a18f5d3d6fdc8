--------------------------- MODULE AgentRunProofs ---------------------------
(***************************************************************************)
(* Proofs about AgentRun, for any workers, budgets and deadlines.          *)
(*                                                                         *)
(* Every transaction changes the Run's rows by one of a few moves.         *)
(* NextMoves says so once; the invariants about rows are then shown to be  *)
(* kept by each move, whichever worker makes it.                           *)
(***************************************************************************)
EXTENDS AgentRun, FiniteSetTheorems, SequenceTheorems, TLAPS

-----------------------------------------------------------------------------
(* The moves.                                                              *)

\* i, which was in flight, ends with outcome s.
Ends(i, s) == i \in Active /\ inv' = [inv EXCEPT ![i].status = s]

Unfortunate == {"failed", "discarded"}

MoveState ==
    /\ UNCHANGED <<step, inv>>
    /\ \/ state' = state
       \/ /\ state \notin Terminal
          /\ state' \in {"planning", "running", "completed", "failed", "expired"}
          /\ state' = "planning" => state = "created"
          /\ state' = "running" => state = "ready"
          /\ state' = "completed" => AllSucceeded

MoveStop == state \notin Terminal /\ StopWork /\ state' \in {"cancelled", "expired"}

MovePlan ==
    /\ state = "planning" /\ state' = "ready"
    /\ Planned = {} /\ UNCHANGED inv
    /\ \E n \in 1..StepBudget : step' = [o \in Ordinals |-> IF o < n THEN "pending" ELSE "none"]

MoveCall(o) ==
    /\ state = "running" /\ NextStep(o) /\ ~PlanInvalid(o)
    /\ ~RetryExhausted(o) /\ ~BudgetExhausted
    /\ inv' = [inv EXCEPT ![<<o, NextAttempt(o)>>] = [status |-> "running", reserved |-> clock]]
    /\ step' = [step EXCEPT ![o] = "running"]
    /\ UNCHANGED state

MoveRefuse(o) ==
    /\ state = "running" /\ NextStep(o) /\ ~PlanInvalid(o)
    /\ FailStep(o) /\ UNCHANGED inv

MoveEnd(i) ==
    /\ \E s \in Unfortunate : Ends(i, s) /\ (s = "failed" => state = "running")
    /\ state = "running" => i[2] = 0 \/ i[2] < RetryBudget
    /\ UNCHANGED <<state, step>>

MoveSucceed(i) ==
    /\ state = "running" /\ Ends(i, "succeeded")
    /\ step' = [step EXCEPT ![i[1]] = "succeeded"]
    /\ UNCHANGED state

MoveFail(i) ==
    /\ state = "running" /\ i \in Active
    /\ FailStep(i[1])
    /\ UNCHANGED inv \/ \E s \in Unfortunate : Ends(i, s)

RowMove ==
    \/ MoveState \/ MoveStop \/ MovePlan
    \/ \E o \in Ordinals : MoveCall(o) \/ MoveRefuse(o)
    \/ \E i \in Calls : MoveEnd(i) \/ MoveSucceed(i) \/ MoveFail(i)

\* The call a worker waits for is a row, in flight or not.
LEMMA CallingCall ==
    ASSUME TypeOK, NEW w \in Workers, pc[w] = "calling"
    PROVE  at[w] \in Calls /\ (Awaited(at[w]) <=> at[w] \in Active)
  BY DEF TypeOK, Made, Active, Awaited

\* finalize_invocation: what each outcome does to the rows.
LEMMA FinalizeMoves ==
    ASSUME TypeOK, NEW w \in Workers, Finalize(w)
    PROVE  RowMove
<1>1. CASE \E good \in BOOLEAN : FinalizeLate(w, good)
  BY <1>1 DEF FinalizeLate, RowMove, MoveState
<1>2. CASE \E good \in BOOLEAN : FinalizeStopped(w, good)
  BY <1>2, CallingCall DEF FinalizeStopped, RowMove, MoveEnd, Ends, Unfortunate
<1>3. CASE \E good \in BOOLEAN : FinalizeExpired(w, good)
  BY <1>3 DEF FinalizeExpired, RowMove, MoveStop, Terminal
<1>4. CASE \E good \in BOOLEAN : FinalizeFailure(w, good)
  BY <1>4, CallingCall DEF FinalizeFailure, Finalizable, RowMove, MoveFail, Ends, Unfortunate
<1>5. CASE FinalizeSuccess(w)
  BY <1>5, CallingCall DEF FinalizeSuccess, Finalizable, RowMove, MoveSucceed, Ends
<1>6. CASE FinalizeRetry(w)
  BY <1>6, CallingCall DEF FinalizeRetry, Finalizable, RowMove, MoveEnd, Ends, Unfortunate
<1> QED BY <1>1, <1>2, <1>3, <1>4, <1>5, <1>6 DEF Finalize

\* reserve_next: what each answer does to the rows.
LEMMA ReserveMoves ==
    ASSUME TypeOK, NEW w \in Workers, Reserve(w)
    PROVE  RowMove
<1>1. CASE ReserveNothing(w) \/ ReserveInvalid(w)
  BY <1>1 DEF ReserveNothing, ReserveInvalid, RowMove, MoveState, runVars
<1>2. CASE ReserveExpired(w)
  BY <1>2 DEF ReserveExpired, ExpireExecution, RowMove, MoveStop, Terminal
<1>3. ASSUME NEW o \in Ordinals, ReserveRefused(w, o) PROVE RowMove
  BY <1>3 DEF ReserveRefused, Reservable, RowMove, MoveRefuse
<1>4. ASSUME NEW o \in Ordinals, ReserveCall(w, o) PROVE RowMove
  BY <1>4 DEF ReserveCall, Reservable, RowMove, MoveCall
<1> QED BY <1>1, <1>2, <1>3, <1>4 DEF Reserve

\* After the loop a worker changes only the state of a running Run.
LEMMA SynthesisMoves ==
    ASSUME TypeOK, NEW w \in Workers,
           ClaimSynthesis(w) \/ PersistExpired(w) \/ PersistResult(w) \/ RejectResult(w)
             \/ CompleteRun(w)
    PROVE  RowMove
<1>1. /\ UNCHANGED <<step, inv>>
      /\ \/ state' = state
         \/ state = "running" /\ state' \in {"failed", "expired"}
         \/ state = "running" /\ state' = "completed" /\ AllSucceeded
  BY DEF ClaimSynthesis, PersistExpired, PersistResult, RejectResult, FailResult,
         CompleteRun, Completable
<1> QED BY <1>1 DEF RowMove, MoveState, Terminal, RunStates

\* prepare_one: what each finding does to the rows.
LEMMA RecoverMoves ==
    ASSUME TypeOK, NEW w \in Workers, Recover(w)
    PROVE  RowMove
<1>1. CASE RecoverOverdue(w)
  <2>1. CASE state = "running"
    BY <1>1, <2>1 DEF RecoverOverdue, ExpireExecution, Overdue, RowMove, MoveStop
  <2>2. CASE state # "running"
    BY <1>1, <2>2 DEF RecoverOverdue, Overdue, RowMove, MoveState, RunStates, Terminal
  <2> QED BY <2>1, <2>2
<1>2. CASE RecoverRemaining(w)
  BY <1>2 DEF RecoverRemaining, RowMove, MoveState, runVars
<1>3. CASE RecoverStale(w)
  <2>1. PICK i \in Active :
          /\ inv' = [inv EXCEPT ![i].status = "discarded"]
          /\ FailStep(i[1]) \/ (~(i[2] >= RetryBudget) /\ UNCHANGED <<state, step>>)
    BY <1>3 DEF RecoverStale
  <2>2. i \in Calls /\ state = "running" /\ Ends(i, "discarded")
    BY <1>3, <2>1 DEF RecoverStale, Recoverable, Active, Ends
  <2>3. i[2] >= RetryBudget \/ i[2] < RetryBudget
    <3>1. i[2] \in Nat
      BY <2>2 DEF Calls
    <3> QED BY <3>1, ConstantsAssumption
  <2> QED BY <2>1, <2>2, <2>3 DEF RowMove, MoveFail, MoveEnd, Unfortunate, Ends
<1>4. CASE RecoverAmbiguous(w)
  BY <1>4 DEF RecoverAmbiguous, Recoverable, Active, RowMove, MoveFail
<1> QED BY <1>1, <1>2, <1>3, <1>4 DEF Recover

\* Every step changes the rows by a move.
LEMMA NextMoves ==
    ASSUME TypeOK, [Next]_vars
    PROVE  RowMove
<1>1. CASE UNCHANGED vars \/ Advance
  BY <1>1 DEF vars, Advance, runVars, RowMove, MoveState
<1>2. CASE CancelRun
  BY <1>2 DEF CancelRun, RowMove, MoveStop
<1>3. ASSUME NEW w \in Workers,
             ClaimPlanning(w) \/ FailPlanning(w) \/ DropPlan(w) \/ ClaimExecution(w) \/ Crash(w)
      PROVE  RowMove
  <2>1. MoveState
    BY <1>3 DEF ClaimPlanning, FailPlanning, DropPlan, ClaimExecution, Crash, runVars,
                MoveState, Terminal, RunStates
  <2> QED BY <2>1 DEF RowMove
<1>4. ASSUME NEW w \in Workers, FinalizePlan(w) PROVE RowMove
  BY <1>4 DEF FinalizePlan, RowMove, MovePlan, Terminal
<1>5. ASSUME NEW w \in Workers, Recover(w) \/ Work(w) PROVE RowMove
  BY <1>3, <1>4, <1>5, RecoverMoves, SynthesisMoves, FinalizeMoves, ReserveMoves DEF Work
<1> QED BY <1>1, <1>2, <1>3, <1>4, <1>5 DEF Next

-----------------------------------------------------------------------------
(* Types.                                                                  *)

RowTypes == state \in RunStates /\ step \in [Ordinals -> StepStates] /\ inv \in [Calls -> CallRow]

\* Ending a call leaves the other rows, and its own reservation, alone.
LEMMA EndsOne ==
    ASSUME RowTypes, NEW i \in Calls, NEW s \in CallStates, Ends(i, s)
    PROVE  /\ inv' \in [Calls -> CallRow]
           /\ inv'[i].status = s /\ inv[i].status = "running"
           /\ \A j \in Calls : j # i => inv'[j] = inv[j]
<1>1. inv[i] \in CallRow
  BY DEF RowTypes
<1>2. [inv[i] EXCEPT !.status = s] \in CallRow /\ [inv[i] EXCEPT !.status = s].status = s
  BY <1>1 DEF CallRow
<1>3. inv' = [inv EXCEPT ![i] = [inv[i] EXCEPT !.status = s]]
  BY DEF Ends
<1>4. inv[i].status = "running"
  BY DEF Ends, Active
<1> QED BY <1>2, <1>3, <1>4 DEF RowTypes

\* Stopping discards the calls in flight and touches no other.
LEMMA StopsAll ==
    ASSUME RowTypes, StopWork
    PROVE  /\ inv' \in [Calls -> CallRow] /\ step' \in [Ordinals -> StepStates]
           /\ \A j \in Active : inv'[j].status = "discarded"
           /\ \A j \in Calls : j \notin Active => inv'[j] = inv[j]
           /\ \A o \in Ordinals : step'[o] = IF o \in Unfinished THEN "cancelled" ELSE step[o]
<1>1. ASSUME NEW j \in Active
      PROVE  /\ [inv[j] EXCEPT !.status = "discarded"] \in CallRow
             /\ [inv[j] EXCEPT !.status = "discarded"].status = "discarded"
  BY DEF Active, RowTypes, CallRow, CallStates
<1>2. \A j \in Calls : inv'[j] = IF j \in Active THEN [inv[j] EXCEPT !.status = "discarded"]
                                 ELSE inv[j]
  BY DEF StopWork
<1>3. inv' \in [Calls -> CallRow]
  <2>1. inv' = [j \in Calls |-> inv'[j]]
    BY DEF StopWork
  <2>2. \A j \in Calls : inv'[j] \in CallRow
    BY <1>1, <1>2 DEF RowTypes
  <2> QED BY <2>1, <2>2
<1>4. step' \in [Ordinals -> StepStates]
  BY DEF StopWork, RowTypes, StepStates
<1>5. \A o \in Ordinals : step'[o] = IF o \in Unfinished THEN "cancelled" ELSE step[o]
  BY DEF StopWork
<1> QED BY <1>1, <1>2, <1>3, <1>4, <1>5 DEF Active

\* A reservation writes one row, in flight.
LEMMA CallsOne ==
    ASSUME RowTypes, clock \in 0..MaxClock, NEW o \in Ordinals, MoveCall(o)
    PROVE  /\ <<o, NextAttempt(o)>> \in Calls
           /\ inv' \in [Calls -> CallRow]
           /\ inv'[<<o, NextAttempt(o)>>].status = "running"
           /\ \A j \in Calls : j # <<o, NextAttempt(o)>> => inv'[j] = inv[j]
<1> DEFINE i == <<o, NextAttempt(o)>>
           row == [status |-> "running", reserved |-> clock]
<1>1. i \in Calls
  BY DEF NextAttempt, Calls
<1>2. row \in CallRow /\ row.status = "running"
  BY DEF CallRow, CallStates
<1>3. inv' = [inv EXCEPT ![i] = row]
  BY DEF MoveCall
<1> HIDE DEF i, row
<1>4. /\ inv' \in [Calls -> CallRow]
      /\ inv'[i].status = "running"
      /\ \A j \in Calls : j # i => inv'[j] = inv[j]
  BY <1>1, <1>2, <1>3 DEF RowTypes
<1> QED BY <1>1, <1>4 DEF i

\* Every move keeps the rows well typed.
LEMMA MovesTyped ==
    ASSUME RowTypes, clock \in 0..MaxClock, RowMove
    PROVE  RowTypes'
<1>1. CASE MoveState
  BY <1>1 DEF MoveState, RowTypes, RunStates, Terminal
<1>2. CASE MoveStop
  BY <1>2, StopsAll DEF MoveStop, RowTypes, RunStates, Terminal
<1>3. CASE MovePlan
  BY <1>3 DEF MovePlan, RowTypes, RunStates, StepStates
<1>4. ASSUME NEW o \in Ordinals, MoveCall(o) PROVE RowTypes'
  <2>1. step' \in [Ordinals -> StepStates] /\ state' \in RunStates
    BY <1>4 DEF MoveCall, RowTypes, StepStates
  <2> QED BY <1>4, <2>1, CallsOne DEF RowTypes
<1>5. ASSUME NEW o \in Ordinals, MoveRefuse(o) PROVE RowTypes'
  BY <1>5 DEF MoveRefuse, FailStep, RowTypes, StepStates, RunStates, Terminal
<1>6. ASSUME NEW i \in Calls, MoveEnd(i) PROVE RowTypes'
  BY <1>6, EndsOne DEF MoveEnd, RowTypes, Unfortunate, CallStates
<1>7. ASSUME NEW i \in Calls, MoveSucceed(i) PROVE RowTypes'
  BY <1>7, EndsOne DEF MoveSucceed, RowTypes, CallStates, StepStates
<1>8. ASSUME NEW i \in Calls, MoveFail(i) PROVE RowTypes'
  BY <1>8, EndsOne DEF MoveFail, FailStep, RowTypes, Unfortunate, CallStates, StepStates,
                       RunStates, Terminal
<1> QED BY <1>1, <1>2, <1>3, <1>4, <1>5, <1>6, <1>7, <1>8 DEF RowMove

\* No move removes an invocation.
LEMMA MadeGrows ==
    ASSUME RowTypes, clock \in 0..MaxClock, RowMove
    PROVE  Made \subseteq Made'
<1> SUFFICES ASSUME NEW j \in Made PROVE j \in Made'
  OBVIOUS
<1> USE DEF Made
<1>1. CASE MoveState \/ MovePlan
  BY <1>1 DEF MoveState, MovePlan
<1>2. CASE MoveStop
  BY <1>2, StopsAll DEF MoveStop
<1>3. ASSUME NEW o \in Ordinals, MoveCall(o) \/ MoveRefuse(o) PROVE j \in Made'
  BY <1>3, CallsOne DEF MoveRefuse
<1>4. ASSUME NEW i \in Calls, MoveEnd(i) \/ MoveSucceed(i) \/ MoveFail(i) PROVE j \in Made'
  BY <1>4, EndsOne DEF MoveEnd, MoveSucceed, MoveFail, Unfortunate, CallStates
<1> QED BY <1>1, <1>2, <1>3, <1>4 DEF RowMove

-----------------------------------------------------------------------------
(* The inductive invariant about rows.                                     *)

PlanPrefix == \A o, p \in Ordinals : o < p /\ step[p] # "none" => step[o] # "none"

Untouched == \A i \in Made : step[i[1]] \notin {"none", "pending"}

CallsRun == state \notin Terminal => \A i \in Active : step[i[1]] = "running"

Ordered ==
    \A o, p \in Ordinals :
        o < p /\ step[p] \in {"running", "succeeded", "failed"} => step[o] = "succeeded"

RetriesLast ==
    \A o \in Ordinals : <<o, 1>> \in Made => inv[<<o, 0>>].status \in Unfortunate

OneActive == \A i, j \in Active : i = j

RowInv ==
    /\ RowTypes
    /\ PlanPrefix /\ Untouched /\ CallsRun
    /\ Ordered /\ RetriesLast /\ OneActive
    /\ SuccessBacked /\ StopsSettled

\* An invocation is named by its step and attempt.
LEMMA CallShape ==
    /\ \A o \in Ordinals : o \in Nat /\ <<o, 0>> \in Calls /\ <<o, 1>> \in Calls
    /\ \A i \in Calls : i[1] \in Ordinals /\ i[2] \in {0, 1} /\ i = <<i[1], i[2]>>
BY ConstantsAssumption DEF Ordinals, Calls

\* The parts of SequentialExecution.
LEMMA Sequential == SequentialExecution <=> Ordered /\ RetriesLast /\ OneActive
BY DEF SequentialExecution, Ordered, RetriesLast, OneActive, Unfortunate

\* Created Runs have no rows.
LEMMA InitRows ==
    ASSUME Init
    PROVE  RowInv
<1>1. RowTypes
  BY ConstantsAssumption DEF Init, RowTypes, RunStates, StepStates, CallRow, CallStates, NoRow
<1>2. Made = {} /\ Active = {} /\ Planned = {} /\ Unfinished = {}
  BY DEF Init, Made, Active, Planned, Unfinished, NoRow
<1>3. \A o \in Ordinals : step[o] = "none" /\ \A a \in {0, 1} : inv[<<o, a>>].status = "none"
  BY CallShape DEF Init, NoRow
<1> QED
  BY <1>1, <1>2, <1>3 DEF RowInv, PlanPrefix, Untouched, CallsRun, Ordered, RetriesLast,
     OneActive, SuccessBacked, StopsSettled

\* A move of the state alone: a Run completes with nothing in flight.
LEMMA StateKeepsRows ==
    ASSUME RowInv, MoveState
    PROVE  (PlanPrefix /\ Untouched /\ CallsRun /\ Ordered /\ RetriesLast /\ OneActive
              /\ SuccessBacked /\ StopsSettled)'
<1>1. (PlanPrefix /\ Untouched /\ Ordered /\ RetriesLast /\ OneActive /\ SuccessBacked)'
  BY DEF RowInv, MoveState, PlanPrefix, Untouched, Ordered, RetriesLast, OneActive,
         SuccessBacked, Made, Active
<1>2. CallsRun'
  BY DEF RowInv, MoveState, CallsRun, Active
<1>3. StopsSettled'
  <2>1. CASE state' = state
    BY <2>1 DEF RowInv, MoveState, StopsSettled, Active, Unfinished
  <2>2. CASE state \notin Terminal /\ state' = "completed" /\ AllSucceeded
    <3>1. Unfinished = {}
      BY <2>2 DEF AllSucceeded, Planned, Unfinished
    <3>2. Active = {}
      BY <2>2, <3>1, CallShape DEF RowInv, CallsRun, Unfinished, Active
    <3> QED BY <3>1, <3>2 DEF MoveState, StopsSettled, Active, Unfinished
  <2> QED BY <2>1, <2>2 DEF MoveState, StopsSettled
<1> QED BY <1>1, <1>2, <1>3

\* Stopping: what was in flight is discarded, what was open is cancelled.
LEMMA StopKeepsRows ==
    ASSUME RowInv, MoveStop
    PROVE  (PlanPrefix /\ Untouched /\ CallsRun /\ Ordered /\ RetriesLast /\ OneActive
              /\ SuccessBacked /\ StopsSettled)'
<1>1. /\ \A j \in Active : inv'[j].status = "discarded"
      /\ \A j \in Calls : j \notin Active => inv'[j] = inv[j]
      /\ \A o \in Ordinals : step'[o] = IF o \in Unfinished THEN "cancelled" ELSE step[o]
  BY StopsAll DEF RowInv, MoveStop
<1>2. Active' = {} /\ Made' = Made
  BY <1>1 DEF Active, Made
<1>3. Unfinished' = {}
  BY <1>1 DEF Unfinished
<1>4. PlanPrefix' /\ Ordered'
  BY <1>1 DEF RowInv, PlanPrefix, Ordered, Unfinished
<1>5. Untouched'
  BY <1>1, <1>2, CallShape DEF RowInv, Untouched, Unfinished, Made
<1>6. RetriesLast'
  BY <1>1, <1>2, CallShape DEF RowInv, RetriesLast, Active, Unfortunate
<1>7. SuccessBacked'
  <2>1. \A o \in Ordinals : step'[o] = "succeeded" <=> step[o] = "succeeded"
    BY <1>1 DEF Unfinished
  <2>2. \A i \in Calls : inv'[i].status = "succeeded" <=> inv[i].status = "succeeded"
    BY <1>1 DEF Active
  <2> QED BY <2>1, <2>2, CallShape DEF RowInv, SuccessBacked
<1> QED BY <1>2, <1>3, <1>4, <1>5, <1>6, <1>7 DEF CallsRun, OneActive, StopsSettled

\* Freezing a plan: no step existed, hence no invocation.
LEMMA PlanKeepsRows ==
    ASSUME RowInv, MovePlan
    PROVE  (PlanPrefix /\ Untouched /\ CallsRun /\ Ordered /\ RetriesLast /\ OneActive
              /\ SuccessBacked /\ StopsSettled)'
<1>1. Made = {}
  BY CallShape DEF RowInv, MovePlan, Untouched, Made, Planned
<1>2. Made' = {} /\ Active' = {}
  BY <1>1 DEF MovePlan, Made, Active
<1>3. \A o \in Ordinals : step'[o] \in {"pending", "none"}
  BY DEF MovePlan
<1>4. PlanPrefix'
  <2> SUFFICES ASSUME NEW o \in Ordinals, NEW p \in Ordinals, o < p, step'[p] # "none"
               PROVE  step'[o] # "none"
    BY DEF PlanPrefix
  <2>1. PICK n \in 1..StepBudget :
          step' = [q \in Ordinals |-> IF q < n THEN "pending" ELSE "none"]
    BY DEF MovePlan
  <2>2. o \in Nat /\ p \in Nat /\ n \in Nat
    <3>1. o \in Nat /\ p \in Nat
      BY CallShape
    <3>2. StepBudget \in Nat
      BY ConstantsAssumption
    <3> QED BY <3>1, <3>2
  <2>3. p < n
    BY <2>1
  <2>4. o < n
    BY <2>2, <2>3
  <2> QED BY <2>1, <2>4
<1>5. Ordered' /\ SuccessBacked'
  BY <1>2, <1>3, CallShape DEF Ordered, SuccessBacked, Made
<1>6. Untouched' /\ CallsRun' /\ RetriesLast' /\ OneActive'
  BY <1>2 DEF Untouched, CallsRun, RetriesLast, OneActive
<1>7. StopsSettled'
  BY DEF MovePlan, StopsSettled
<1> QED BY <1>4, <1>5, <1>6, <1>7

\* What reserve_next has checked before it writes: every earlier step is done, no call
\* is in flight, and the attempt it makes is new.
LEMMA ReserveChecked ==
    ASSUME RowInv, state = "running", NEW o \in Ordinals, NextStep(o), ~PlanInvalid(o)
    PROVE  /\ step[o] \in {"pending", "running"}
           /\ \A p \in Ordinals : p < o => step[p] = "succeeded"
           /\ Active = {}
           /\ <<o, NextAttempt(o)>> \notin Made /\ <<o, 1>> \notin Made
           /\ step[o] = "running" => inv[<<o, 0>>].status \in Unfortunate
<1>1. step[o] \in {"pending", "running"} /\ \A p \in Unfinished : o <= p
  BY DEF NextStep, Unfinished
<1>2. \A p \in Ordinals : p < o => step[p] = "succeeded"
  BY <1>1 DEF RowInv, PlanPrefix, PlanInvalid, Planned
<1>3. step[o] = "running" =>
        /\ <<o, 1>> \notin Made /\ inv[<<o, 0>>].status \in Unfortunate
  BY DEF PlanInvalid, Unfortunate
<1>4. step[o] = "pending" => <<o, 0>> \notin Made /\ <<o, 1>> \notin Made
  BY DEF RowInv, Untouched
<1>5. Active = {}
  <2> SUFFICES ASSUME NEW j \in Active PROVE FALSE
    OBVIOUS
  <2>1. j \in Calls /\ j[1] \in Ordinals /\ step[j[1]] = "running"
    BY CallShape DEF RowInv, CallsRun, Active, Terminal
  <2>2. ~(o < j[1])
    BY <1>1, <2>1 DEF RowInv, Ordered
  <2>3. o <= j[1]
    BY <1>1, <2>1 DEF Unfinished
  <2>4. j[1] = o
    <3>1. j[1] \in Nat /\ o \in Nat
      BY <2>1, CallShape
    <3> QED BY <2>2, <2>3, <3>1
  <2>5. j = <<o, 0>> \/ j = <<o, 1>>
    BY <2>1, <2>4, CallShape
  <2> QED BY <1>3, <2>1, <2>4, <2>5 DEF Active, Made, Unfortunate
<1> QED BY <1>1, <1>2, <1>3, <1>4, <1>5 DEF NextAttempt

\* reserve_next starts a call of the first unfinished step.
LEMMA CallKeepsRows ==
    ASSUME RowInv, clock \in 0..MaxClock, NEW o \in Ordinals, MoveCall(o)
    PROVE  (PlanPrefix /\ Untouched /\ CallsRun /\ Ordered /\ RetriesLast /\ OneActive
              /\ SuccessBacked /\ StopsSettled)'
<1> DEFINE i == <<o, NextAttempt(o)>>
<1>1. /\ step[o] \in {"pending", "running"}
      /\ \A p \in Ordinals : p < o => step[p] = "succeeded"
      /\ Active = {}
      /\ i \notin Made /\ <<o, 1>> \notin Made
      /\ step[o] = "running" => inv[<<o, 0>>].status \in Unfortunate
  BY ReserveChecked DEF MoveCall
<1>2. /\ i \in Calls /\ i[1] = o
      /\ inv'[i].status = "running"
      /\ \A j \in Calls : j # i => inv'[j] = inv[j]
  BY CallsOne DEF RowInv
<1>3. /\ step'[o] = "running"
      /\ \A p \in Ordinals : p # o => step'[p] = step[p]
      /\ state' = state /\ state = "running"
  BY DEF MoveCall, RowInv, RowTypes
<1>4. i[2] = 1 => step[o] = "running" /\ i = <<o, 1>>
  BY <1>1 DEF NextAttempt
<1>5. i[2] = 1 \/ i = <<o, 0>>
  BY DEF NextAttempt
<1> HIDE DEF i
<1>6. Made' = Made \cup {i} /\ Active' = {i}
  BY <1>1, <1>2 DEF Made, Active
<1>7. PlanPrefix'
  BY <1>1, <1>3 DEF RowInv, PlanPrefix
<1>8. Untouched'
  BY <1>2, <1>3, <1>6, CallShape DEF RowInv, Untouched, Made
<1>9. CallsRun' /\ OneActive'
  BY <1>2, <1>3, <1>6 DEF CallsRun, OneActive
<1>10. Ordered'
  <2> SUFFICES ASSUME NEW q \in Ordinals, NEW p \in Ordinals, q < p,
                      step'[p] \in {"running", "succeeded", "failed"}
               PROVE  step'[q] = "succeeded"
    BY DEF Ordered
  <2>1. step[q] = "succeeded"
    BY <1>1, <1>3 DEF RowInv, Ordered
  <2> QED BY <1>1, <1>3, <2>1
<1>11. RetriesLast'
  <2> SUFFICES ASSUME NEW q \in Ordinals, <<q, 1>> \in Made'
               PROVE  inv'[<<q, 0>>].status \in Unfortunate
    BY DEF RetriesLast
  <2>1. CASE <<q, 1>> = i
    BY <1>1, <1>2, <1>4, <2>1, CallShape
  <2>2. CASE <<q, 1>> \in Made
    <3>1. inv[<<q, 0>>].status \in Unfortunate
      BY <2>2 DEF RowInv, RetriesLast
    <3>2. <<q, 0>> \in Made
      BY <3>1, CallShape DEF Made, Unfortunate
    <3> QED BY <1>1, <1>2, <3>1, <3>2, CallShape
  <2> QED BY <1>6, <2>1, <2>2
<1>12. SuccessBacked'
  <2>1. \A q \in Ordinals : step'[q] = "succeeded" <=> step[q] = "succeeded"
    BY <1>1, <1>3
  <2>2. \A j \in Calls : inv'[j].status = "succeeded" <=> inv[j].status = "succeeded"
    BY <1>1, <1>2 DEF Made
  <2> QED BY <2>1, <2>2, CallShape DEF RowInv, SuccessBacked
<1>13. StopsSettled'
  BY <1>3 DEF StopsSettled
<1> QED BY <1>7, <1>8, <1>9, <1>10, <1>11, <1>12, <1>13

\* reserve_next fails the first unfinished step, and the Run with it.
LEMMA RefuseKeepsRows ==
    ASSUME RowInv, NEW o \in Ordinals, MoveRefuse(o)
    PROVE  (PlanPrefix /\ Untouched /\ CallsRun /\ Ordered /\ RetriesLast /\ OneActive
              /\ SuccessBacked /\ StopsSettled)'
<1>1. /\ step[o] \in {"pending", "running"}
      /\ \A p \in Ordinals : p < o => step[p] = "succeeded"
  BY ReserveChecked DEF MoveRefuse
<1>2. /\ step'[o] = "failed" /\ state' = "failed" /\ inv' = inv
      /\ \A p \in Ordinals : p # o => step'[p] = step[p]
  BY DEF MoveRefuse, FailStep, RowInv, RowTypes
<1>3. Made' = Made /\ Active' = Active
  BY <1>2 DEF Made, Active
<1>4. PlanPrefix'
  BY <1>1, <1>2 DEF RowInv, PlanPrefix
<1>5. Untouched' /\ RetriesLast' /\ OneActive'
  BY <1>2, <1>3, CallShape DEF RowInv, Untouched, RetriesLast, OneActive, Made
<1>6. Ordered'
  <2> SUFFICES ASSUME NEW q \in Ordinals, NEW p \in Ordinals, q < p,
                      step'[p] \in {"running", "succeeded", "failed"}
               PROVE  step'[q] = "succeeded"
    BY DEF Ordered
  <2>1. step[q] = "succeeded"
    BY <1>1, <1>2 DEF RowInv, Ordered
  <2> QED BY <1>1, <1>2, <2>1
<1>7. SuccessBacked'
  <2>1. \A q \in Ordinals : step'[q] = "succeeded" <=> step[q] = "succeeded"
    BY <1>1, <1>2
  <2> QED BY <1>2, <2>1 DEF RowInv, SuccessBacked
<1>8. CallsRun' /\ StopsSettled'
  BY <1>2 DEF CallsRun, StopsSettled, Terminal
<1> QED BY <1>4, <1>5, <1>6, <1>7, <1>8

\* A call ends without success and its step is left as it is.
LEMMA EndKeepsRows ==
    ASSUME RowInv, NEW i \in Calls, MoveEnd(i)
    PROVE  (PlanPrefix /\ Untouched /\ CallsRun /\ Ordered /\ RetriesLast /\ OneActive
              /\ SuccessBacked /\ StopsSettled)'
<1>1. /\ inv'[i].status \in Unfortunate /\ inv[i].status = "running"
      /\ \A j \in Calls : j # i => inv'[j] = inv[j]
      /\ step' = step /\ state' = state
  BY EndsOne DEF RowInv, MoveEnd, Unfortunate, CallStates
<1>2. Made' = Made /\ Active' = Active \ {i}
  BY <1>1 DEF Made, Active, Unfortunate
<1>3. PlanPrefix' /\ Untouched' /\ CallsRun' /\ Ordered' /\ OneActive'
  BY <1>1, <1>2 DEF RowInv, PlanPrefix, Untouched, CallsRun, Ordered, OneActive
<1>4. RetriesLast'
  BY <1>1, <1>2, CallShape DEF RowInv, RetriesLast
<1>5. SuccessBacked'
  <2>1. \A j \in Calls : inv'[j].status = "succeeded" <=> inv[j].status = "succeeded"
    BY <1>1 DEF Unfortunate
  <2>2. \A q \in Ordinals : step'[q] = "succeeded" <=> step[q] = "succeeded"
    BY <1>1
  <2> QED BY <2>1, <2>2, CallShape DEF RowInv, SuccessBacked
<1>6. StopsSettled'
  BY <1>1, <1>2 DEF RowInv, StopsSettled, Unfinished
<1> QED BY <1>3, <1>4, <1>5, <1>6

\* The one call in flight succeeds, and its step with it.
LEMMA SucceedKeepsRows ==
    ASSUME RowInv, NEW i \in Calls, MoveSucceed(i)
    PROVE  (PlanPrefix /\ Untouched /\ CallsRun /\ Ordered /\ RetriesLast /\ OneActive
              /\ SuccessBacked /\ StopsSettled)'
<1> DEFINE o == i[1]
<1>1. /\ inv'[i].status = "succeeded" /\ inv[i].status = "running"
      /\ \A j \in Calls : j # i => inv'[j] = inv[j]
  BY EndsOne DEF RowInv, MoveSucceed, CallStates
<1>2. /\ o \in Ordinals /\ step'[o] = "succeeded"
      /\ \A p \in Ordinals : p # o => step'[p] = step[p]
      /\ state' = state /\ state = "running"
  BY CallShape DEF RowInv, RowTypes, MoveSucceed
<1>3. step[o] = "running" /\ Active = {i}
  BY <1>1, <1>2 DEF RowInv, CallsRun, OneActive, Terminal, Active
<1>4. i = <<o, 0>> \/ i = <<o, 1>>
  BY CallShape
<1> HIDE DEF o
<1>5. Made' = Made /\ Active' = {}
  BY <1>1, <1>3 DEF Made, Active
<1>6. PlanPrefix'
  BY <1>2, <1>3 DEF RowInv, PlanPrefix
<1>7. Untouched'
  BY <1>2, <1>5, CallShape DEF RowInv, Untouched, Made
<1>8. Ordered'
  <2> SUFFICES ASSUME NEW q \in Ordinals, NEW p \in Ordinals, q < p,
                      step'[p] \in {"running", "succeeded", "failed"}
               PROVE  step'[q] = "succeeded"
    BY DEF Ordered
  <2>1. step[q] = "succeeded"
    BY <1>2, <1>3 DEF RowInv, Ordered
  <2> QED BY <1>2, <2>1
<1>9. RetriesLast'
  <2> SUFFICES ASSUME NEW q \in Ordinals, <<q, 1>> \in Made
               PROVE  inv'[<<q, 0>>].status \in Unfortunate
    BY <1>5 DEF RetriesLast
  <2>1. inv[<<q, 0>>].status \in Unfortunate
    BY DEF RowInv, RetriesLast
  <2> QED BY <1>1, <2>1, CallShape DEF Unfortunate
<1>10. SuccessBacked'
  <2> SUFFICES ASSUME NEW q \in Ordinals
               PROVE  step'[q] = "succeeded" <=> \E a \in {0, 1} : inv'[<<q, a>>].status = "succeeded"
    BY DEF SuccessBacked
  <2>1. CASE q = o
    BY <1>1, <1>2, <1>4, <2>1
  <2>2. CASE q # o
    BY <1>1, <1>2, <1>4, <2>2, CallShape DEF RowInv, SuccessBacked
  <2> QED BY <2>1, <2>2
<1>11. CallsRun' /\ OneActive' /\ StopsSettled'
  BY <1>2, <1>5 DEF CallsRun, OneActive, StopsSettled
<1> QED BY <1>6, <1>7, <1>8, <1>9, <1>10, <1>11

\* A step whose call is in flight fails, and the Run with it.
LEMMA FailKeepsRows ==
    ASSUME RowInv, NEW i \in Calls, MoveFail(i)
    PROVE  (PlanPrefix /\ Untouched /\ CallsRun /\ Ordered /\ RetriesLast /\ OneActive
              /\ SuccessBacked /\ StopsSettled)'
<1> DEFINE o == i[1]
<1>1. /\ inv[i].status = "running"
      /\ inv'[i].status \in Unfortunate \cup {"running"}
      /\ \A j \in Calls : j # i => inv'[j] = inv[j]
  BY EndsOne DEF RowInv, MoveFail, Active, Unfortunate, CallStates
<1>2. /\ o \in Ordinals /\ step'[o] = "failed"
      /\ \A p \in Ordinals : p # o => step'[p] = step[p]
      /\ state' = "failed" /\ state = "running"
  BY CallShape DEF RowInv, RowTypes, MoveFail, FailStep
<1>3. step[o] = "running"
  BY <1>1, <1>2 DEF RowInv, CallsRun, Terminal, Active
<1> HIDE DEF o
<1>4. Made' = Made /\ Active' \subseteq Active
  BY <1>1 DEF Made, Active, Unfortunate
<1>5. PlanPrefix'
  BY <1>2, <1>3 DEF RowInv, PlanPrefix
<1>6. Untouched' /\ OneActive'
  BY <1>2, <1>4, CallShape DEF RowInv, Untouched, OneActive, Made
<1>7. Ordered'
  <2> SUFFICES ASSUME NEW q \in Ordinals, NEW p \in Ordinals, q < p,
                      step'[p] \in {"running", "succeeded", "failed"}
               PROVE  step'[q] = "succeeded"
    BY DEF Ordered
  <2>1. step[q] = "succeeded"
    BY <1>2, <1>3 DEF RowInv, Ordered
  <2> QED BY <1>2, <1>3, <2>1
<1>8. RetriesLast'
  <2> SUFFICES ASSUME NEW q \in Ordinals, <<q, 1>> \in Made
               PROVE  inv'[<<q, 0>>].status \in Unfortunate
    BY <1>4 DEF RetriesLast
  <2>1. inv[<<q, 0>>].status \in Unfortunate
    BY DEF RowInv, RetriesLast
  <2> QED BY <1>1, <2>1, CallShape DEF Unfortunate
<1>9. SuccessBacked'
  <2>1. \A q \in Ordinals : step'[q] = "succeeded" <=> step[q] = "succeeded"
    BY <1>2, <1>3
  <2>2. \A j \in Calls : inv'[j].status = "succeeded" <=> inv[j].status = "succeeded"
    BY <1>1 DEF Unfortunate
  <2> QED BY <2>1, <2>2, CallShape DEF RowInv, SuccessBacked
<1>10. CallsRun' /\ StopsSettled'
  BY <1>2 DEF CallsRun, StopsSettled, Terminal
<1> QED BY <1>5, <1>6, <1>7, <1>8, <1>9, <1>10

\* Every move keeps the invariant.
LEMMA MovesKeepRows ==
    ASSUME RowInv, clock \in 0..MaxClock, RowMove
    PROVE  RowInv'
<1>1. RowTypes'
  BY MovesTyped DEF RowInv
<1>2. (PlanPrefix /\ Untouched /\ CallsRun /\ Ordered /\ RetriesLast /\ OneActive
         /\ SuccessBacked /\ StopsSettled)'
  BY StateKeepsRows, StopKeepsRows, PlanKeepsRows, CallKeepsRows, RefuseKeepsRows,
     EndKeepsRows, SucceedKeepsRows, FailKeepsRows DEF RowMove
<1> QED BY <1>1, <1>2 DEF RowInv

-----------------------------------------------------------------------------
(* Type correctness.                                                       *)

WorkerTypes ==
    /\ pc \in [Workers -> WorkerSteps]
    /\ role \in [Workers -> {"executor", "recovery"}]
    /\ at \in [Workers -> Calls \cup {NoCall}]
    /\ collected \in [Workers -> SUBSET Calls]

CallsMade == \A w \in Workers : pc[w] = "calling" => at[w] \in Made

\* TypeOK, grouped as it is proved.
LEMMA TypeParts ==
    TypeOK <=> /\ clock \in 0..MaxClock /\ kind \in Kinds /\ results \in Seq(SUBSET Calls)
               /\ RowTypes /\ WorkerTypes /\ CallsMade
BY DEF TypeOK, RowTypes, WorkerTypes, CallsMade

\* A worker that moves on keeps the others as they are; one that calls has made its
\* call.
LEMMA WorkersTyped ==
    ASSUME WorkerTypes, CallsMade, Made \subseteq Made', NEW w \in Workers,
           NEW where \in WorkerSteps, NEW r \in {"executor", "recovery"},
           NEW call \in Calls \cup {NoCall}, NEW evidence \in SUBSET Calls,
           pc' = [pc EXCEPT ![w] = where], role' = [role EXCEPT ![w] = r],
           at' = [at EXCEPT ![w] = call], collected' = [collected EXCEPT ![w] = evidence],
           where = "calling" => call \in Made'
    PROVE  WorkerTypes' /\ CallsMade'
<1>1. WorkerTypes'
  BY DEF WorkerTypes
<1>2. CallsMade'
  BY DEF WorkerTypes, CallsMade
<1> QED BY <1>1, <1>2

\* Leaving.
LEMMA LeaveTyped ==
    ASSUME WorkerTypes, CallsMade, Made \subseteq Made', NEW w \in Workers, Leave(w)
    PROVE  WorkerTypes' /\ CallsMade'
<1>1. /\ pc' = [pc EXCEPT ![w] = "idle"] /\ role' = [role EXCEPT ![w] = "executor"]
      /\ at' = [at EXCEPT ![w] = NoCall] /\ collected' = [collected EXCEPT ![w] = {}]
  BY DEF Leave
<1>2. /\ "idle" \in WorkerSteps /\ "executor" \in {"executor", "recovery"}
      /\ NoCall \in Calls \cup {NoCall} /\ {} \in SUBSET Calls /\ "idle" # "calling"
  BY DEF WorkerSteps
<1> QED BY <1>1, <1>2, WorkersTyped, Zenon

\* Going on to the next transaction.
LEMMA ContinueTyped ==
    ASSUME WorkerTypes, CallsMade, Made \subseteq Made', NEW w \in Workers,
           NEW where \in WorkerSteps \ {"calling"}, Continue(w, where)
    PROVE  WorkerTypes' /\ CallsMade'
<1>1. /\ role' = [role EXCEPT ![w] = role[w]]
      /\ collected' = [collected EXCEPT ![w] = collected[w]]
      /\ role[w] \in {"executor", "recovery"} /\ collected[w] \in SUBSET Calls
  BY DEF Continue, WorkerTypes
<1> QED BY <1>1, WorkersTyped DEF Continue

\* Ending a call.
LEMMA FinishTyped ==
    ASSUME WorkerTypes, CallsMade, Made \subseteq Made', NEW w \in Workers, pc[w] = "calling",
           NEW where \in WorkerSteps \ {"calling"}, NEW good \in BOOLEAN, Finish(w, where, good)
    PROVE  WorkerTypes' /\ CallsMade'
<1>1. at[w] \in Calls
  BY DEF CallsMade, Made
<1>2. PICK evidence \in SUBSET Calls : collected' = [collected EXCEPT ![w] = evidence]
  BY <1>1 DEF Finish, Collect, WorkerTypes
<1>3. role' = [role EXCEPT ![w] = role[w]] /\ role[w] \in {"executor", "recovery"}
  BY DEF Finish, WorkerTypes
<1> QED BY <1>2, <1>3, WorkersTyped DEF Finish

\* Where the loop leads.
LEMMA AfterLoopStep == \A w : AfterLoop(w) \in WorkerSteps \ {"calling"}
BY DEF AfterLoop, WorkerSteps

\* Starting a call.
LEMMA CallTyped ==
    ASSUME WorkerTypes, CallsMade, Made \subseteq Made', NEW w \in Workers,
           NEW call \in Calls, call \in Made',
           pc' = [pc EXCEPT ![w] = "calling"], at' = [at EXCEPT ![w] = call],
           UNCHANGED <<role, collected>>
    PROVE  WorkerTypes' /\ CallsMade'
<1>1. /\ role' = [role EXCEPT ![w] = role[w]]
      /\ collected' = [collected EXCEPT ![w] = collected[w]]
      /\ role[w] \in {"executor", "recovery"} /\ collected[w] \in SUBSET Calls
  BY DEF WorkerTypes
<1>2. "calling" \in WorkerSteps /\ call \in Calls \cup {NoCall}
  BY DEF WorkerSteps
<1> QED BY <1>1, <1>2, WorkersTyped, Zenon

\* Taking up recovery.
LEMMA RecoveryTyped ==
    ASSUME WorkerTypes, CallsMade, Made \subseteq Made', NEW w \in Workers, StartRecovery(w)
    PROVE  WorkerTypes' /\ CallsMade'
<1>1. /\ at' = [at EXCEPT ![w] = at[w]]
      /\ collected' = [collected EXCEPT ![w] = collected[w]]
      /\ at[w] \in Calls \cup {NoCall} /\ collected[w] \in SUBSET Calls
  BY DEF StartRecovery, WorkerTypes
<1> QED BY <1>1, WorkersTyped DEF StartRecovery, WorkerSteps

\* Every step keeps every worker well typed.
LEMMA NextWorkers ==
    ASSUME TypeOK, [Next]_vars
    PROVE  WorkerTypes' /\ CallsMade'
<1>1. WorkerTypes /\ CallsMade /\ RowTypes /\ clock \in 0..MaxClock /\ Made \subseteq Made'
  BY NextMoves, TypeParts, MadeGrows
<1>2. CASE UNCHANGED workerVars
  BY <1>1, <1>2 DEF workerVars, WorkerTypes, CallsMade
<1>3. ASSUME NEW w \in Workers, Leave(w) PROVE WorkerTypes' /\ CallsMade'
  BY <1>1, <1>3, LeaveTyped
<1>4. ASSUME NEW w \in Workers, NEW where \in WorkerSteps \ {"calling"}, Continue(w, where)
      PROVE  WorkerTypes' /\ CallsMade'
  BY <1>1, <1>4, ContinueTyped
<1>5. ASSUME NEW w \in Workers, Finalize(w) PROVE WorkerTypes' /\ CallsMade'
  <2>1. PICK where \in WorkerSteps \ {"calling"}, good \in BOOLEAN :
          pc[w] = "calling" /\ Finish(w, where, good)
    BY <1>5, AfterLoopStep
    DEF Finalize, FinalizeLate, FinalizeStopped, FinalizeExpired, FinalizeFailure,
        FinalizeSuccess, FinalizeRetry, Finalizable, WorkerSteps
  <2> QED BY <1>1, <2>1, FinishTyped
<1>6. ASSUME NEW w \in Workers, Reserve(w) PROVE WorkerTypes' /\ CallsMade'
  <2>1. CASE Continue(w, AfterLoop(w))
    BY <1>4, <2>1, AfterLoopStep
  <2>2. ASSUME NEW o \in Ordinals, ReserveCall(w, o) PROVE WorkerTypes' /\ CallsMade'
    <3>1. MoveCall(o)
      BY <2>2 DEF ReserveCall, Reservable, MoveCall
    <3>2. <<o, NextAttempt(o)>> \in Calls /\ <<o, NextAttempt(o)>> \in Made'
      BY <1>1, <3>1, CallsOne DEF Made
    <3> QED BY <1>1, <2>2, <3>2, CallTyped DEF ReserveCall
  <2> QED BY <1>3, <1>6, <2>1, <2>2 DEF Reserve, ReserveNothing, ReserveExpired, ReserveInvalid,
                                        ReserveRefused
<1>7. ASSUME NEW w \in Workers, Recover(w) PROVE WorkerTypes' /\ CallsMade'
  <2>1. UNCHANGED workerVars \/ StartRecovery(w)
    BY <1>7 DEF Recover, RecoverOverdue, RecoverRemaining, RecoverStale, RecoverAmbiguous
  <2> QED BY <1>1, <1>2, <2>1, RecoveryTyped
<1>8. ASSUME NEW w \in Workers, Work(w) PROVE WorkerTypes' /\ CallsMade'
  BY <1>3, <1>4, <1>5, <1>6, <1>8
  DEF Work, FinalizePlan, FailPlanning, DropPlan, ClaimSynthesis, PersistExpired,
      PersistResult, RejectResult, CompleteRun, WorkerSteps
<1>9. ASSUME NEW w \in Workers, ClaimPlanning(w) \/ ClaimExecution(w) \/ Crash(w)
      PROVE  WorkerTypes' /\ CallsMade'
  BY <1>3, <1>4, <1>9 DEF ClaimPlanning, ClaimExecution, Crash, WorkerSteps
<1> QED BY <1>2, <1>7, <1>8, <1>9 DEF Next, vars, workerVars, Advance, CancelRun

\* What a worker does by itself leaves time and the kind alone, and only
\* persist_result appends a result.
LEMMA WorkScalars ==
    ASSUME NEW w \in Workers, Work(w)
    PROVE  UNCHANGED <<clock, kind>> /\ (results' = results \/ PersistResult(w))
<1>1. /\ Leave(w) => UNCHANGED <<clock, kind>>
      /\ \A where : Continue(w, where) => UNCHANGED <<clock, kind>>
      /\ \A where, good : Finish(w, where, good) => UNCHANGED <<clock, kind, results>>
  BY DEF Leave, Continue, Finish
<1>2. CASE FinalizePlan(w) \/ FailPlanning(w) \/ DropPlan(w)
  BY <1>1, <1>2 DEF FinalizePlan, FailPlanning, DropPlan, runVars
<1>3. CASE Reserve(w)
  <2>1. CASE ReserveNothing(w) \/ ReserveExpired(w) \/ ReserveInvalid(w)
    BY <1>1, <2>1 DEF ReserveNothing, ReserveExpired, ReserveInvalid, ExpireExecution, runVars
  <2>2. ASSUME NEW o \in Ordinals, ReserveRefused(w, o) \/ ReserveCall(w, o)
        PROVE  UNCHANGED <<clock, kind, results>>
    BY <1>1, <2>2 DEF ReserveRefused, ReserveCall
  <2> QED BY <1>3, <2>1, <2>2 DEF Reserve
<1>4. CASE Finalize(w)
  <2>1. \E where, good : Finish(w, where, good)
    BY <1>4 DEF Finalize, FinalizeLate, FinalizeStopped, FinalizeExpired, FinalizeFailure,
                FinalizeSuccess, FinalizeRetry
  <2> QED BY <1>1, <2>1
<1>5. CASE ClaimSynthesis(w) \/ PersistExpired(w) \/ PersistResult(w) \/ RejectResult(w)
           \/ CompleteRun(w)
  BY <1>1, <1>5 DEF ClaimSynthesis, PersistExpired, PersistResult, RejectResult, FailResult,
                    CompleteRun
<1> QED BY <1>2, <1>3, <1>4, <1>5 DEF Work

\* Nor does any other step of a worker change them.
LEMMA ClaimScalars ==
    ASSUME NEW w \in Workers,
           ClaimPlanning(w) \/ ClaimExecution(w) \/ Recover(w) \/ Crash(w)
    PROVE  UNCHANGED <<clock, kind, results>>
<1>1. CASE ClaimPlanning(w) \/ ClaimExecution(w) \/ Crash(w)
  BY <1>1 DEF ClaimPlanning, ClaimExecution, Crash, Continue, Leave, runVars
<1>2. CASE Recover(w)
  BY <1>2 DEF Recover, RecoverOverdue, RecoverRemaining, RecoverStale, RecoverAmbiguous,
              StartRecovery, ExpireExecution, runVars
<1> QED BY <1>1, <1>2

\* Only persist_result appends a result.
LEMMA NextResults ==
    ASSUME [Next]_vars
    PROVE  results' = results \/ \E w \in Workers : PersistResult(w)
BY WorkScalars, ClaimScalars DEF Next, vars, runVars, Advance, CancelRun

\* Time and results.
LEMMA NextScalars ==
    ASSUME TypeOK, [Next]_vars
    PROVE  /\ clock' \in 0..MaxClock /\ kind' = kind /\ kind' \in Kinds
           /\ results' \in Seq(SUBSET Calls)
<1>1. kind' = kind
  BY WorkScalars, ClaimScalars DEF Next, vars, Advance, CancelRun
<1>2. clock' = clock \/ (clock < MaxClock /\ clock' = clock + 1)
  BY WorkScalars, ClaimScalars DEF Next, vars, Advance, CancelRun
<1>3. results' = results \/ \E w \in Workers : PersistResult(w)
  BY NextResults
<1>4. clock' \in 0..MaxClock
  BY <1>2, ConstantsAssumption DEF TypeOK
<1>5. results' \in Seq(SUBSET Calls)
  BY <1>3 DEF TypeOK, PersistResult
<1> QED BY <1>1, <1>4, <1>5 DEF TypeOK

\* The inductive invariant.
IInv == TypeOK /\ RowInv

\* It holds at first.
LEMMA InitInv ==
    ASSUME Init
    PROVE  IInv
<1>1. clock \in 0..MaxClock /\ kind \in Kinds /\ results \in Seq(SUBSET Calls)
  BY ConstantsAssumption DEF Init
<1>2. WorkerTypes /\ CallsMade
  BY DEF Init, WorkerTypes, CallsMade, WorkerSteps
<1>3. RowInv
  BY InitRows
<1> QED BY <1>1, <1>2, <1>3, TypeParts DEF IInv, RowInv

\* Every step keeps it.
LEMMA NextInv ==
    ASSUME IInv, [Next]_vars
    PROVE  IInv'
<1>1. RowMove
  BY NextMoves DEF IInv
<1>2. RowInv'
  BY <1>1, MovesKeepRows, TypeParts DEF IInv
<1>3. WorkerTypes' /\ CallsMade'
  BY NextWorkers DEF IInv
<1>4. clock' \in 0..MaxClock /\ kind' \in Kinds /\ results' \in Seq(SUBSET Calls)
  BY NextScalars DEF IInv
<1>5. TypeOK'
  BY <1>2, <1>3, <1>4 DEF RowInv, RowTypes, WorkerTypes, CallsMade, TypeOK
<1> QED BY <1>2, <1>5 DEF IInv

\* IInv is an invariant.
THEOREM Invariance == Spec => []IInv
<1>1. Init => IInv
  BY InitInv
<1>2. IInv /\ [Next]_vars => IInv'
  BY NextInv
<1> QED BY <1>1, <1>2, PTL DEF Spec

\* TypeOK: every row keeps the columns of its table, and a worker that waits for an
\* answer waits for a reserved invocation.
THEOREM TypeCorrect == Spec => []TypeOK
<1>1. IInv => TypeOK
  BY DEF IInv
<1> QED BY <1>1, Invariance, PTL

\* Steps are executed in order and one at a time, whoever executes them: executors,
\* recovery commands or several of each (reserve_next and prepare_one).
THEOREM OneAtATime == Spec => []SequentialExecution
<1>1. IInv => SequentialExecution
  BY Sequential DEF IInv, RowInv
<1> QED BY <1>1, Invariance, PTL

\* A step is recorded as succeeded exactly when one of its invocations is
\* (finalize_invocation).
THEOREM StepsBacked == Spec => []SuccessBacked
<1>1. IInv => SuccessBacked
  BY DEF IInv, RowInv
<1> QED BY <1>1, Invariance, PTL

\* A cancelled or completed Run has nothing open (cancel_run, complete_run).
THEOREM Settled == Spec => []StopsSettled
<1>1. IInv => StopsSettled
  BY DEF IInv, RowInv
<1> QED BY <1>1, Invariance, PTL

-----------------------------------------------------------------------------
(* What no step may do.                                                    *)

\* No move changes a finished invocation.
LEMMA MovesKeepOutcomes ==
    ASSUME RowInv, clock \in 0..MaxClock, RowMove
    PROVE  OutcomesKept
<1> SUFFICES ASSUME NEW j \in Calls, Finished(j) PROVE inv'[j] = inv[j]
  BY DEF OutcomesKept
<1>1. j \in Made /\ j \notin Active
  BY DEF Finished, Made, Active
<1>2. CASE MoveState \/ MovePlan
  BY <1>2 DEF MoveState, MovePlan
<1>3. CASE MoveStop
  BY <1>1, <1>3, StopsAll DEF MoveStop, RowInv
<1>4. ASSUME NEW o \in Ordinals, MoveCall(o) PROVE inv'[j] = inv[j]
  BY <1>1, <1>4, CallsOne, ReserveChecked DEF MoveCall, RowInv
<1>5. ASSUME NEW o \in Ordinals, MoveRefuse(o) PROVE inv'[j] = inv[j]
  BY <1>5 DEF MoveRefuse
<1>6. ASSUME NEW i \in Calls, MoveEnd(i) \/ MoveSucceed(i) \/ MoveFail(i) PROVE inv'[j] = inv[j]
  <2>1. inv' = inv \/ \E s \in CallStates : Ends(i, s)
    BY <1>6 DEF MoveEnd, MoveSucceed, MoveFail, Unfortunate, CallStates
  <2>2. CASE \E s \in CallStates : Ends(i, s)
    BY <1>1, <2>2, EndsOne DEF RowInv, Ends
  <2> QED BY <2>1, <2>2
<1> QED BY <1>2, <1>3, <1>4, <1>5, <1>6 DEF RowMove

\* Late answers, cancellation, expiry and recovery never rewrite the outcome of an
\* invocation (finalize_invocation's guard on its status).
THEOREM OutcomesNeverChange == Spec => OutcomesFinal
<1>1. IInv /\ [Next]_vars => [OutcomesKept]_vars
  BY NextMoves, MovesKeepOutcomes DEF IInv, RowInv, TypeOK
<1> QED BY <1>1, Invariance, PTL DEF Spec, OutcomesFinal

\* Only a running Run gains a result.
LEMMA ResultsOfRunning ==
    ASSUME [Next]_vars, state \in Terminal
    PROVE  results' = results
BY NextResults DEF PersistResult, Terminal

\* In a terminal Run only an open call can still change, and it is discarded.
LEMMA FrozenStep ==
    ASSUME TypeOK, [Next]_vars, state \in Terminal
    PROVE  Frozen
<1>1. results' = results
  BY ResultsOfRunning
<1>2. MoveState \/ \E i \in Calls : MoveEnd(i)
  BY NextMoves
  DEF RowMove, MoveStop, MovePlan, MoveCall, MoveRefuse, MoveSucceed, MoveFail, Terminal
<1>3. CASE MoveState
  BY <1>1, <1>3 DEF MoveState, Frozen
<1>4. ASSUME NEW i \in Calls, MoveEnd(i) PROVE Frozen
  <2>1. Ends(i, "discarded") /\ UNCHANGED <<state, step>>
    BY <1>4 DEF MoveEnd, Unfortunate, Terminal
  <2>2. OnlyDiscards(i) /\ \A j \in Calls : j # i => inv'[j] = inv[j]
    BY <2>1, EndsOne, TypeParts DEF OnlyDiscards, CallStates
  <2> QED BY <1>1, <2>1, <2>2 DEF Frozen
<1> QED BY <1>2, <1>3, <1>4

\* A terminal Run never changes state, makes a call or gains a result, whatever late
\* workers do (transition_run, reserve_next, persist_result).
THEOREM TerminalStaysFrozen == Spec => TerminalFrozen
<1>1. IInv /\ [Next]_vars => [(state \in Terminal) => Frozen]_vars
  BY FrozenStep DEF IInv
<1> QED BY <1>1, Invariance, PTL DEF Spec, TerminalFrozen

\* What a result cites has succeeded, and stays so.
LEMMA CitationsKept ==
    ASSUME IInv, ResultsCiteSucceeded, [Next]_vars
    PROVE  ResultsCiteSucceeded'
<1>1. OutcomesKept
  BY NextMoves, MovesKeepOutcomes DEF IInv, RowInv, TypeOK
<1>2. \A i \in Calls : inv[i].status = "succeeded" => inv'[i].status = "succeeded"
  BY <1>1 DEF OutcomesKept, Finished
<1>3. results \in Seq(SUBSET Calls)
  BY DEF IInv, TypeOK
<1>4. CASE results' = results
  BY <1>2, <1>3, <1>4 DEF ResultsCiteSucceeded
<1>5. ASSUME NEW w \in Workers, PersistResult(w) PROVE ResultsCiteSucceeded'
  <2>1. results' = Append(results, collected[w]) /\ inv' = inv
    BY <1>5 DEF PersistResult
  <2>2. \A i \in collected[w] : inv[i].status = "succeeded"
    BY <1>5 DEF PersistResult, EvidenceCurrent
  <2>3. collected[w] \in SUBSET Calls
    BY DEF IInv, TypeOK
  <2> SUFFICES ASSUME NEW n \in DOMAIN results', NEW i \in results'[n]
               PROVE  inv[i].status = "succeeded"
    BY <2>1 DEF ResultsCiteSucceeded
  <2>4. n \in 1..Len(results) + 1
    BY <1>3, <2>1, <2>3
  <2>5. CASE n = Len(results) + 1
    BY <1>3, <2>1, <2>2, <2>3, <2>5
  <2>6. CASE n \in 1..Len(results)
    <3>1. results'[n] = results[n] /\ n \in DOMAIN results
      BY <1>3, <2>1, <2>3, <2>6
    <3> QED BY <3>1 DEF ResultsCiteSucceeded
  <2>7. Len(results) \in Nat
    BY <1>3
  <2> QED BY <2>4, <2>5, <2>6, <2>7
<1> QED BY <1>4, <1>5, NextResults

\* Research, curator and brief results cite only invocations recorded as succeeded,
\* although evidence is collected before the outcome is committed (_still_current).
THEOREM CitationsSucceeded == Spec => []ResultsCiteSucceeded
<1>1. Init => ResultsCiteSucceeded
  BY DEF Init, ResultsCiteSucceeded
<1>2. IInv /\ ResultsCiteSucceeded /\ [Next]_vars => ResultsCiteSucceeded'
  BY CitationsKept
<1> QED BY <1>1, <1>2, Invariance, PTL DEF Spec

-----------------------------------------------------------------------------
(* Budgets.                                                                *)

\* There are finitely many possible calls.
LEMMA CallsFinite == IsFiniteSet(Calls)
<1>1. IsFiniteSet(Ordinals)
  BY FS_Interval, ConstantsAssumption DEF Ordinals
<1>2. IsFiniteSet({0, 1})
  <2>1. 0 \in Int /\ 1 \in Int
    OBVIOUS
  <2>2. IsFiniteSet(0..1)
    BY <2>1, FS_Interval, Zenon
  <2>3. {0, 1} \subseteq 0..1
    OBVIOUS
  <2> QED BY <2>2, <2>3, FS_Subset
<1> QED BY <1>1, <1>2, FS_Product DEF Calls

\* A new reservation is checked against both budgets before it is written.
LEMMA BudgetsKept ==
    ASSUME IInv, WithinBudgets, [Next]_vars
    PROVE  WithinBudgets'
<1>1. RowTypes /\ RowInv /\ clock \in 0..MaxClock
  BY TypeParts DEF IInv
<1>2. IsFiniteSet(Made) /\ IsFiniteSet(Retries)
  BY CallsFinite, FS_Subset DEF Made, Retries
<1>3. ASSUME Made' = Made PROVE WithinBudgets'
  BY <1>3 DEF WithinBudgets, Retries
<1>4. CASE MoveState \/ MovePlan
  BY <1>3, <1>4 DEF MoveState, MovePlan, Made
<1>5. CASE MoveStop
  <2>1. Made' = Made
    BY <1>1, <1>5, StopsAll DEF MoveStop, Made, Active
  <2> QED BY <1>3, <2>1
<1>6. ASSUME NEW o \in Ordinals, MoveRefuse(o) PROVE WithinBudgets'
  BY <1>3, <1>6 DEF MoveRefuse, Made
<1>7. ASSUME NEW i \in Calls, MoveEnd(i) \/ MoveSucceed(i) \/ MoveFail(i) PROVE WithinBudgets'
  <2>1. Made' = Made
    BY <1>1, <1>7, EndsOne
    DEF MoveEnd, MoveSucceed, MoveFail, Made, Active, Unfortunate, CallStates
  <2> QED BY <1>3, <2>1
<1>8. ASSUME NEW o \in Ordinals, MoveCall(o) PROVE WithinBudgets'
  <2> DEFINE i == <<o, NextAttempt(o)>>
  <2>1. Made' = Made \cup {i} /\ i \notin Made
    <3>1. i \notin Made
      BY <1>1, <1>8, CallsOne, ReserveChecked DEF MoveCall, Made
    <3>2. /\ i \in Calls /\ inv'[i].status = "running"
          /\ \A j \in Calls : j # i => inv'[j] = inv[j]
      BY <1>1, <1>8, CallsOne
    <3> HIDE DEF i
    <3>3. Made' = Made \cup {i}
      BY <3>2 DEF Made
    <3> QED BY <3>1, <3>3
  <2>2. Cardinality(Made) < ToolCallBudget
    BY <1>2, <1>8, FS_CardinalityType, ConstantsAssumption DEF MoveCall, BudgetExhausted
  <2>3. Cardinality(Made') = Cardinality(Made) + 1
    BY <1>2, <2>1, FS_AddElement
  <2>4. Cardinality(Made') <= ToolCallBudget
    BY <1>2, <2>2, <2>3, FS_CardinalityType, ConstantsAssumption
  <2>5. Cardinality(Retries') <= RetryBudget
    <3>1. CASE step[o] = "pending"
      <4>1. Retries' = Retries
        BY <2>1, <3>1 DEF Retries, NextAttempt
      <4> QED BY <4>1 DEF WithinBudgets
    <3>2. CASE step[o] # "pending"
      <4>1. step[o] = "running"
        BY <1>1, <1>8, <3>2, ReserveChecked DEF MoveCall
      <4>2. Retries' = Retries \cup {i} /\ i \notin Retries
        BY <2>1, <3>2 DEF Retries, NextAttempt
      <4>3. Cardinality(Retries) < RetryBudget
        BY <1>2, <1>8, <4>1, FS_CardinalityType, ConstantsAssumption
        DEF MoveCall, RetryExhausted
      <4>4. Cardinality(Retries') = Cardinality(Retries) + 1
        BY <1>2, <4>2, FS_AddElement
      <4> QED BY <1>2, <4>3, <4>4, FS_CardinalityType, ConstantsAssumption
    <3> QED BY <3>1, <3>2
  <2> QED BY <2>4, <2>5 DEF WithinBudgets
<1> QED BY <1>4, <1>5, <1>6, <1>7, <1>8, NextMoves DEF RowMove, IInv

\* Calls and retries stay within the captured budgets, whoever makes them
\* (reserve_next, resolve_tool_policy).
THEOREM BudgetsHold == Spec => []WithinBudgets
<1>1. Init => WithinBudgets
  <2> SUFFICES ASSUME Init PROVE WithinBudgets
    OBVIOUS
  <2>1. Made = {} /\ Retries = {}
    BY DEF Init, Made, Retries, NoRow
  <2> QED BY <2>1, FS_EmptySet, ConstantsAssumption DEF WithinBudgets
<1>2. IInv /\ WithinBudgets /\ [Next]_vars => WithinBudgets'
  BY BudgetsKept
<1> QED BY <1>1, <1>2, Invariance, PTL DEF Spec

-----------------------------------------------------------------------------
(* What recovery may find.                                                 *)

\* A step that runs has a call in flight, or a first attempt to be retried.
Resumable(o) ==
    \/ \E a \in {0, 1} : <<o, a>> \in Active
    \/ (<<o, 0>> \in Made /\ <<o, 1>> \notin Made)

\* RunningIsRecoverable, from the moment the plan is frozen.
PlanSound ==
    /\ state = "ready" => Active = {}
    /\ state \in {"ready", "running"} =>
          /\ Planned # {}
          /\ \A o \in Planned : step[o] \in {"pending", "running", "succeeded"}
          /\ \A o \in Planned : step[o] = "running" => Resumable(o)

\* With one retry at most, as captured in every Run, no move leaves a running Run that
\* recovery could not take up.
LEMMA MovesKeepSound ==
    ASSUME RetryBudget \in {0, 1}, RowInv, PlanSound, clock \in 0..MaxClock, RowMove
    PROVE  PlanSound'
<1>1. CASE MoveState
  BY <1>1 DEF MoveState, PlanSound, Terminal, Planned, Resumable, Active, Made
<1>2. CASE MoveStop
  BY <1>2 DEF MoveStop, PlanSound
<1>3. CASE MovePlan
  <2>1. 0 \in Ordinals
    BY ConstantsAssumption DEF Ordinals
  <2>2. PICK n \in 1..StepBudget :
          step' = [q \in Ordinals |-> IF q < n THEN "pending" ELSE "none"]
    BY <1>3 DEF MovePlan
  <2>3. 0 < n
    OBVIOUS
  <2>4. step'[0] = "pending"
    BY <2>1, <2>2, <2>3
  <2>5. \A o \in Ordinals : step'[o] \in {"pending", "none"}
    BY <2>2
  <2>6. Active' = {}
    BY <1>3, CallShape DEF MovePlan, RowInv, Untouched, Planned, Made, Active
  <2> QED BY <2>1, <2>4, <2>5, <2>6 DEF PlanSound, Planned
<1>4. ASSUME NEW o \in Ordinals, MoveCall(o) PROVE PlanSound'
  <2> DEFINE i == <<o, NextAttempt(o)>>
  <2>1. /\ i \in Calls /\ inv'[i].status = "running"
        /\ \A j \in Calls : j # i => inv'[j] = inv[j]
        /\ Active = {}
    BY <1>4, CallsOne, ReserveChecked DEF RowInv, MoveCall
  <2>2. /\ step'[o] = "running" /\ \A p \in Ordinals : p # o => step'[p] = step[p]
        /\ state' = state /\ state = "running" /\ step[o] \in {"pending", "running"}
    BY <1>4, ReserveChecked DEF MoveCall, RowInv, RowTypes
  <2>3. NextAttempt(o) \in {0, 1}
    BY DEF NextAttempt
  <2>4. \E a \in {0, 1} : <<o, a>> \in Active'
    BY <2>1, <2>3 DEF Active
  <2>5. \A p \in Ordinals : p # o => <<p, 0>> # i /\ <<p, 1>> # i
    OBVIOUS
  <2> HIDE DEF i
  <2>6. ASSUME NEW p \in Ordinals, step'[p] = "running" PROVE Resumable(p)'
    <3>1. CASE p = o
      BY <2>4, <3>1 DEF Resumable
    <3>2. CASE p # o
      <4>1. p \in Planned /\ step[p] = "running"
        BY <2>2, <2>6, <3>2 DEF Planned
      <4>2. Resumable(p)
        BY <2>2, <4>1 DEF PlanSound
      <4>3. <<p, 0>> \in Made /\ <<p, 1>> \notin Made
        BY <2>1, <4>2 DEF Resumable
      <4> QED BY <2>1, <2>5, <3>2, <4>3, CallShape DEF Resumable, Made
    <3> QED BY <3>1, <3>2
  <2>7. Planned' = Planned
    BY <2>2 DEF Planned
  <2>8. \A p \in Planned' : step'[p] \in {"pending", "running", "succeeded"}
    BY <2>2, <2>7 DEF PlanSound, Planned
  <2> QED BY <2>2, <2>6, <2>7, <2>8 DEF PlanSound, Planned
<1>5. ASSUME NEW o \in Ordinals, MoveRefuse(o) PROVE PlanSound'
  BY <1>5 DEF MoveRefuse, FailStep, PlanSound
<1>6. ASSUME NEW i \in Calls, MoveEnd(i) PROVE PlanSound'
  <2>1. /\ i \in Active /\ i \in Made /\ inv[i].status = "running"
        /\ inv'[i].status \in Unfortunate
        /\ \A j \in Calls : j # i => inv'[j] = inv[j]
        /\ step' = step /\ state' = state
        /\ state = "running" => i[2] = 0 \/ i[2] < RetryBudget
    BY <1>6, EndsOne DEF MoveEnd, Ends, Active, Made, RowInv, Unfortunate, CallStates
  <2>2. CASE state # "running"
    BY <2>1, <2>2 DEF PlanSound
  <2>3. CASE state = "running"
    <3>1. i[2] = 0 /\ i[1] \in Ordinals /\ i = <<i[1], 0>>
      <4>1. i[2] \in {0, 1} /\ i = <<i[1], i[2]>> /\ i[1] \in Ordinals
        BY CallShape
      <4>2. i[2] = 0
        BY <2>1, <2>3, <4>1
      <4> QED BY <4>1, <4>2
    <3>2. <<i[1], 1>> \notin Made
      BY <2>1, <3>1 DEF RowInv, RetriesLast, Unfortunate
    <3>3. Made' = Made
      BY <2>1 DEF Made, Unfortunate
    <3>4. ASSUME NEW p \in Planned, step[p] = "running" PROVE Resumable(p)'
      <4>1. p \in Ordinals /\ Resumable(p)
        BY <2>3, <3>4 DEF PlanSound, Planned
      <4>2. CASE p = i[1]
        BY <2>1, <3>1, <3>2, <3>3, <4>2 DEF Resumable
      <4>3. CASE p # i[1]
        <5>1. \A a \in {0, 1} : <<p, a>> # i
          BY <3>1, <4>3
        <5>2. \A a \in {0, 1} : <<p, a>> \in Active => <<p, a>> \in Active'
          BY <2>1, <5>1 DEF Active
        <5> QED BY <3>3, <4>1, <5>2 DEF Resumable
      <4> QED BY <4>2, <4>3
    <3> QED BY <2>1, <2>3, <3>4 DEF PlanSound, Planned
  <2> QED BY <2>2, <2>3
<1>7. ASSUME NEW i \in Calls, MoveSucceed(i) PROVE PlanSound'
  <2> DEFINE o == i[1]
  <2>1. /\ i \in Active /\ state = "running" /\ state' = state
        /\ inv'[i].status = "succeeded"
        /\ \A j \in Calls : j # i => inv'[j] = inv[j]
    BY <1>7, EndsOne DEF MoveSucceed, Ends, RowInv, CallStates
  <2>2. /\ o \in Ordinals /\ step'[o] = "succeeded"
        /\ \A p \in Ordinals : p # o => step'[p] = step[p]
    BY <1>7, CallShape DEF MoveSucceed, RowInv, RowTypes
  <2>3. step[o] = "running"
    BY <2>1 DEF RowInv, CallsRun, Terminal
  <2>4. Made' = Made
    BY <2>1 DEF Made, Active
  <2> HIDE DEF o
  <2>5. Planned' = Planned
    BY <2>2, <2>3 DEF Planned
  <2>6. ASSUME NEW p \in Planned, step'[p] = "running" PROVE Resumable(p)'
    <3>1. p \in Ordinals /\ p # o /\ step[p] = "running"
      BY <2>2, <2>6 DEF Planned
    <3>2. Resumable(p)
      BY <2>1, <3>1 DEF PlanSound, Planned
    <3>3. \A a \in {0, 1} : <<p, a>> \notin Active
      BY <2>1, <3>1 DEF RowInv, OneActive, o
    <3> QED BY <2>4, <3>2, <3>3 DEF Resumable
  <2>7. \A p \in Planned : step'[p] \in {"pending", "running", "succeeded"}
    BY <2>1, <2>2 DEF PlanSound, Planned
  <2> QED BY <2>1, <2>5, <2>6, <2>7 DEF PlanSound
<1>8. ASSUME NEW i \in Calls, MoveFail(i) PROVE PlanSound'
  BY <1>8 DEF MoveFail, FailStep, PlanSound
<1> QED BY <1>1, <1>2, <1>3, <1>4, <1>5, <1>6, <1>7, <1>8 DEF RowMove

\* A running Run always has a plan with no failed or cancelled step, and an attempt in
\* flight or to be retried for its running step: prepare_one never has to give it up as
\* inconsistent.  Runs capture a retry budget of one (RETRY_BUDGET).
THEOREM AlwaysRecoverable ==
    ASSUME RetryBudget \in {0, 1}
    PROVE  Spec => []RunningIsRecoverable
<1>1. Init => PlanSound
  BY DEF Init, PlanSound
<1>2. IInv /\ PlanSound /\ [Next]_vars => PlanSound'
  BY NextMoves, MovesKeepSound DEF IInv, TypeOK
<1>3. PlanSound => RunningIsRecoverable
  <2> SUFFICES ASSUME PlanSound, state = "running" PROVE RunningIsRecoverable
    BY DEF RunningIsRecoverable
  <2>1. /\ Planned # {}
        /\ \A o \in Planned : step[o] \in {"pending", "running", "succeeded"}
    BY DEF PlanSound
  <2>2. \A o \in Planned : step[o] = "running" => Resumable(o)
    BY DEF PlanSound
  <2>3. ~AllSucceeded => Unfinished # {}
    BY <2>1 DEF AllSucceeded, Unfinished, Planned
  <2>4. Finding # "recovery_state_invalid"
    <3>1. CASE Overdue
      BY <3>1 DEF Finding
    <3>2. CASE ~Overdue /\ Active # {}
      BY <3>2 DEF Finding
    <3>3. CASE ~Overdue /\ Active = {}
      BY <2>3, <3>3 DEF Finding
    <3> QED BY <3>1, <3>2, <3>3
  <2> QED BY <2>1, <2>2, <2>4 DEF RunningIsRecoverable, Resumable
<1> QED BY <1>1, <1>2, <1>3, Invariance, PTL DEF Spec

-----------------------------------------------------------------------------
(* One executor, one result.                                               *)

Started == {"running"} \cup Terminal

ExecutorSteps == {"reserve", "calling", "synthesis", "provider", "complete"}

Executes(w) == role[w] = "executor" /\ pc[w] \in ExecutorSteps

\* A worker leaves, or takes the Run up for planning.
MoveAway(w) == pc'[w] \in {"idle", "planning"} /\ UNCHANGED results

\* The one claim that a ready Run allows.
MoveClaim(w) ==
    state = "ready" /\ state' = "running" /\ pc'[w] = "reserve" /\ UNCHANGED results

MoveRecovery(w) == pc'[w] = "reserve" /\ role'[w] = "recovery" /\ UNCHANGED results

\* A worker goes on; only an executor synthesizes.
MoveOn(w) ==
    /\ pc[w] \in ExecutorSteps \ {"complete"} /\ pc'[w] \in ExecutorSteps
    /\ role'[w] = role[w]
    /\ pc'[w] = "synthesis" => role[w] = "executor"
    /\ pc'[w] = "provider" => pc[w] = "synthesis"
    /\ \/ UNCHANGED results
       \/ /\ pc[w] = "provider" /\ pc'[w] = "complete" /\ state' = state
          /\ \E cited : results' = Append(results, cited)

WorkerMove ==
    \/ UNCHANGED <<pc, role, results>>
    \/ \E w \in Workers :
          /\ \A v \in Workers : v # w => pc'[v] = pc[v] /\ role'[v] = role[v]
          /\ MoveAway(w) \/ MoveClaim(w) \/ MoveRecovery(w) \/ MoveOn(w)

\* Leaving and going on concern one worker.
LEMMA OneWorkerMoves ==
    ASSUME WorkerTypes, NEW w \in Workers
    PROVE  /\ Leave(w) =>
                /\ pc'[w] = "idle"
                /\ \A v \in Workers : v # w => pc'[v] = pc[v] /\ role'[v] = role[v]
           /\ \A where : Continue(w, where) =>
                /\ pc'[w] = where /\ role'[w] = role[w]
                /\ \A v \in Workers : v # w => pc'[v] = pc[v] /\ role'[v] = role[v]
           /\ \A where, good : Finish(w, where, good) =>
                /\ pc'[w] = where /\ role'[w] = role[w] /\ results' = results
                /\ \A v \in Workers : v # w => pc'[v] = pc[v] /\ role'[v] = role[v]
           /\ StartRecovery(w) =>
                /\ pc'[w] = "reserve" /\ role'[w] = "recovery"
                /\ \A v \in Workers : v # w => pc'[v] = pc[v] /\ role'[v] = role[v]
BY DEF WorkerTypes, Leave, Continue, Finish, StartRecovery

\* What a step does to the workers and the results.
LEMMA NextWorkerMoves ==
    ASSUME TypeOK, [Next]_vars
    PROVE  WorkerMove
<1>1. WorkerTypes
  BY TypeParts
<1>2. CASE UNCHANGED vars \/ Advance \/ CancelRun
  BY <1>2 DEF vars, Advance, CancelRun, runVars, workerVars, WorkerMove
<1>3. ASSUME NEW w \in Workers, FinalizePlan(w) \/ FailPlanning(w) \/ DropPlan(w) \/ Crash(w)
               \/ CompleteRun(w) \/ ClaimPlanning(w)
      PROVE  WorkerMove
  BY <1>1, <1>3, OneWorkerMoves
  DEF FinalizePlan, FailPlanning, DropPlan, Crash, CompleteRun, ClaimPlanning, runVars,
      WorkerMove, MoveAway
<1>4. ASSUME NEW w \in Workers, ClaimExecution(w) PROVE WorkerMove
  BY <1>1, <1>4, OneWorkerMoves DEF ClaimExecution, WorkerMove, MoveAway, MoveClaim
<1>5. ASSUME NEW w \in Workers, Recover(w) PROVE WorkerMove
  BY <1>1, <1>5, OneWorkerMoves
  DEF Recover, RecoverOverdue, ExpireExecution, RecoverRemaining, RecoverStale,
      RecoverAmbiguous, runVars, workerVars, WorkerMove, MoveRecovery
<1>6. ASSUME NEW w \in Workers, Reserve(w) PROVE WorkerMove
  <2>1. CASE ReserveNothing(w) \/ ReserveExpired(w) \/ \E o \in Ordinals : ReserveRefused(w, o)
    <3>1. Continue(w, AfterLoop(w)) /\ results' = results /\ pc[w] = "reserve"
      BY <2>1 DEF ReserveNothing, ReserveExpired, ExpireExecution, ReserveRefused, Reservable,
                  runVars
    <3> QED BY <1>1, <3>1, OneWorkerMoves DEF AfterLoop, WorkerMove, MoveOn, ExecutorSteps
  <2>2. CASE ReserveInvalid(w)
    BY <1>1, <2>2, OneWorkerMoves DEF ReserveInvalid, runVars, WorkerMove, MoveAway
  <2>3. ASSUME NEW o \in Ordinals, ReserveCall(w, o) PROVE WorkerMove
    <3>1. /\ pc' = [pc EXCEPT ![w] = "calling"] /\ pc[w] = "reserve"
          /\ UNCHANGED <<role, results>>
      BY <2>3 DEF ReserveCall, Reservable
    <3> QED BY <1>1, <3>1 DEF WorkerTypes, WorkerMove, MoveOn, ExecutorSteps
  <2> QED BY <1>6, <2>1, <2>2, <2>3 DEF Reserve
<1>7. ASSUME NEW w \in Workers, Finalize(w) PROVE WorkerMove
  <2>1. PICK where \in {"reserve", AfterLoop(w)}, good \in BOOLEAN :
          pc[w] = "calling" /\ Finish(w, where, good)
    BY <1>7
    DEF Finalize, FinalizeLate, FinalizeStopped, FinalizeExpired, FinalizeFailure,
        FinalizeSuccess, FinalizeRetry, Finalizable
  <2> QED BY <1>1, <2>1, OneWorkerMoves DEF AfterLoop, WorkerMove, MoveOn, ExecutorSteps
<1>8. ASSUME NEW w \in Workers, ClaimSynthesis(w) PROVE WorkerMove
  BY <1>1, <1>8, OneWorkerMoves DEF ClaimSynthesis, WorkerMove, MoveOn, ExecutorSteps
<1>9. ASSUME NEW w \in Workers, PersistExpired(w) \/ RejectResult(w) PROVE WorkerMove
  BY <1>1, <1>9, OneWorkerMoves
  DEF PersistExpired, RejectResult, FailResult, WorkerMove, MoveOn, ExecutorSteps
<1>10. ASSUME NEW w \in Workers, PersistResult(w) PROVE WorkerMove
  BY <1>1, <1>10, OneWorkerMoves DEF PersistResult, WorkerMove, MoveOn, ExecutorSteps
<1>11. ASSUME NEW w \in Workers, Work(w) PROVE WorkerMove
  BY <1>3, <1>6, <1>7, <1>8, <1>9, <1>10, <1>11 DEF Work
<1> QED BY <1>2, <1>3, <1>4, <1>5, <1>11 DEF Next

\* A Run that was started never becomes ready again, and only complete_run completes it.
LEMMA NextStates ==
    ASSUME TypeOK, [Next]_vars
    PROVE  /\ state \in Started => state' \in Started
           /\ state' = "completed" /\ state # "completed" =>
                \E w \in Workers : CompleteRun(w) /\ Completable /\ ~ResultMissing(w)
<1>1. state \in Started => state' \in Started
  BY NextMoves
  DEF RowMove, MoveState, MoveStop, MovePlan, MoveCall, MoveRefuse, FailStep, MoveEnd, MoveSucceed,
      MoveFail, Started, Terminal
<1>2. ASSUME state' = "completed", state # "completed"
      PROVE  \E w \in Workers : CompleteRun(w) /\ Completable /\ ~ResultMissing(w)
  <2>1. PICK w \in Workers : CompleteRun(w)
    BY <1>2
    DEF Next, vars, runVars, Advance, CancelRun, ClaimPlanning, ClaimExecution, Recover,
      RecoverOverdue, ExpireExecution, RecoverRemaining, RecoverStale, RecoverAmbiguous, FailStep,
      Crash, Work, FinalizePlan, FailPlanning, DropPlan, Reserve, ReserveNothing, ReserveExpired,
      ReserveInvalid, ReserveRefused, ReserveCall, Finalize, FinalizeLate, FinalizeStopped,
      FinalizeExpired, FinalizeFailure, FinalizeSuccess, FinalizeRetry, ClaimSynthesis,
      PersistExpired, PersistResult, RejectResult, FailResult
  <2> QED BY <1>2, <2>1 DEF CompleteRun
<1> QED BY <1>1, <1>2

\* Why a completed evidence Run has exactly one result: one worker ever executes the Run,
\* it persists before it completes, and nobody else synthesizes.
ResultInv ==
    /\ \A w \in Workers : Executes(w) => state \in Started
    /\ \A v, w \in Workers : Executes(v) /\ Executes(w) => v = w
    /\ \A w \in Workers : pc[w] \in {"synthesis", "provider"} => role[w] = "executor"
    /\ \A w \in Workers : Executes(w) /\ pc[w] # "complete" => results = <<>>
    /\ state \notin Started => results = <<>>
    /\ Len(results) <= 1

\* Each move of a worker keeps it.
LEMMA ResultsKept ==
    ASSUME IInv, ResultInv, [Next]_vars
    PROVE  ResultInv'
<1>1. WorkerMove /\ results \in Seq(SUBSET Calls)
  BY NextWorkerMoves DEF IInv, TypeOK
<1>2. state \in Started => state' \in Started
  BY NextStates DEF IInv
<1>3. CASE UNCHANGED <<pc, role, results>>
  BY <1>2, <1>3 DEF ResultInv, Executes
<1>4. ASSUME NEW w \in Workers,
             \A v \in Workers : v # w => pc'[v] = pc[v] /\ role'[v] = role[v],
             MoveAway(w) \/ MoveRecovery(w)
      PROVE  ResultInv'
  <2>1. ~Executes(w)' /\ results' = results /\ pc'[w] \notin {"synthesis", "provider"}
    BY <1>4 DEF MoveAway, MoveRecovery, Executes, ExecutorSteps
  <2>2. \A v \in Workers : Executes(v)' => v # w /\ Executes(v) /\ pc'[v] = pc[v]
    BY <1>4, <2>1 DEF Executes
  <2> QED BY <1>2, <1>4, <2>1, <2>2 DEF ResultInv
<1>5. ASSUME NEW w \in Workers,
             \A v \in Workers : v # w => pc'[v] = pc[v] /\ role'[v] = role[v],
             MoveClaim(w)
      PROVE  ResultInv'
  <2>1. results = <<>> /\ results' = results /\ state' \in Started
        /\ pc'[w] \notin {"synthesis", "provider"}
    BY <1>5 DEF MoveClaim, ResultInv, Started, Terminal
  <2>2. \A v \in Workers : ~Executes(v)
    BY <1>5 DEF MoveClaim, ResultInv, Started, Terminal
  <2>3. \A v \in Workers : Executes(v)' => v = w
    BY <1>5, <2>2 DEF Executes
  <2> QED BY <1>5, <2>1, <2>3 DEF ResultInv
<1>6. ASSUME NEW w \in Workers,
             \A v \in Workers : v # w => pc'[v] = pc[v] /\ role'[v] = role[v],
             MoveOn(w)
      PROVE  ResultInv'
  <2>1. \A v \in Workers : Executes(v)' => Executes(v) /\ (pc'[v] # "complete" => pc[v] # "complete")
    BY <1>6 DEF Executes, MoveOn
  <2>2. \A v \in Workers : pc'[v] \in {"synthesis", "provider"} => role'[v] = "executor"
    BY <1>6 DEF MoveOn, ResultInv
  <2>3. CASE results' = results
    BY <1>2, <2>1, <2>2, <2>3 DEF ResultInv
  <2>4. CASE results' # results
    <3>1. /\ pc[w] = "provider" /\ pc'[w] = "complete"
          /\ \E cited : results' = Append(results, cited)
      BY <1>6, <2>4 DEF MoveOn
    <3>2. Executes(w) /\ results = <<>> /\ state \in Started
      BY <3>1 DEF ResultInv, Executes, ExecutorSteps
    <3>3. Len(results') = 1
      BY <3>1, <3>2
    <3>4. \A v \in Workers : Executes(v)' => v = w
      BY <2>1, <3>2 DEF ResultInv
    <3> QED BY <1>2, <2>1, <2>2, <3>1, <3>2, <3>3, <3>4 DEF ResultInv
  <2> QED BY <2>3, <2>4
<1> QED BY <1>1, <1>3, <1>4, <1>5, <1>6 DEF WorkerMove

\* Completing earns the state, and a terminal Run keeps what it earned.
LEMMA EarnedKept ==
    ASSUME IInv, ResultInv, CompletedEarned, [Next]_vars
    PROVE  CompletedEarned'
<1>1. results \in Seq(SUBSET Calls) /\ Len(results) <= 1
  BY DEF IInv, TypeOK, ResultInv
<1>2. CASE state = "completed"
  <2>1. Frozen /\ kind' = kind
    BY <1>2, FrozenStep, NextScalars DEF IInv, Terminal
  <2> QED BY <1>2, <2>1 DEF Frozen, CompletedEarned, AllSucceeded, Planned
<1>3. CASE state' = "completed" /\ state # "completed"
  <2>1. PICK w \in Workers : CompleteRun(w) /\ Completable /\ ~ResultMissing(w)
    BY <1>3, NextStates DEF IInv
  <2>2. kind = "evidence" => results # <<>>
    BY <2>1 DEF ResultMissing
  <2>3. kind = "evidence" => Len(results) = 1
    <3>1. kind = "evidence" => Len(results) \in Nat \ {0}
      BY <1>1, <2>2, EmptySeq, Zenon
    <3>2. \A n \in Nat \ {0} : n <= 1 => n = 1
      OBVIOUS
    <3> QED BY <1>1, <3>1, <3>2, Zenon
  <2>4. UNCHANGED <<kind, step, results>> /\ AllSucceeded
    BY <2>1 DEF CompleteRun, Leave, Completable
  <2> QED BY <2>3, <2>4 DEF CompletedEarned, AllSucceeded, Planned
<1>4. CASE state' # "completed"
  BY <1>4 DEF CompletedEarned
<1> QED BY <1>2, <1>3, <1>4

\* A completed Run did all its steps, and a research or curator Run has exactly the one
\* result its executor persisted (complete_run, claim_execution, persist_result).
THEOREM CompletionEarned == Spec => []CompletedEarned
<1>1. Init => ResultInv /\ CompletedEarned
  BY DEF Init, ResultInv, CompletedEarned, Executes, ExecutorSteps
<1>2. IInv /\ ResultInv /\ [Next]_vars => ResultInv'
  BY ResultsKept
<1>3. IInv /\ ResultInv /\ CompletedEarned /\ [Next]_vars => CompletedEarned'
  BY EarnedKept
<1> QED BY <1>1, <1>2, <1>3, Invariance, PTL DEF Spec

\* An evidence agent's late result is never persisted: no other step than persist_result
\* adds one, and it reads the clock under the Run's lock (research and curator persist_result).
THEOREM LateEvidenceDiscarded == Spec => NoLateEvidenceResult
<1>1. IInv /\ [Next]_vars => [kind = "evidence" /\ results' # results => clock < Deadline]_vars
  <2> SUFFICES ASSUME IInv, [Next]_vars, kind = "evidence", results' # results
               PROVE  clock < Deadline
    OBVIOUS
  <2>1. PICK w \in Workers : PersistResult(w)
    BY NextResults DEF IInv
  <2>2. ~PastDeadline
    BY <2>1 DEF PersistResult, ResultExpired
  <2>3. clock \in Nat /\ Deadline \in Nat
    BY ConstantsAssumption DEF IInv, TypeOK
  <2> QED BY <2>2, <2>3 DEF PastDeadline
<1> QED BY <1>1, Invariance, PTL DEF Spec, NoLateEvidenceResult

=============================================================================
