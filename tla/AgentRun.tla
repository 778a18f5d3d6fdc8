------------------------------ MODULE AgentRun ------------------------------
(***************************************************************************)
(* The life of one Agent Run of Second Brain (app/agent_runs,              *)
(* app/agent_planning and the synthesis steps of the result agents).       *)
(*                                                                         *)
(* Workers are request handlers, scheduler coordinators and recovery       *)
(* commands.  Each commits a series of short transactions that lock the    *)
(* Run row, and calls a provider or a Tool between two of them with no     *)
(* lock held.  Every action is one such transaction, so planning,          *)
(* execution, recovery, cancellation, crashes and the clock interleave     *)
(* between transactions and nowhere else.                                  *)
(*                                                                         *)
(* Every transition bumps the Run's revision and no state is entered       *)
(* twice, so the state stands for the revision: a command that names a     *)
(* stale revision is refused, changes nothing and is left out.             *)
(***************************************************************************)
EXTENDS Integers, Sequences, FiniteSets

CONSTANTS
    Workers,          \* processes that may work on the Run
    Kinds,            \* agent kinds of the Run: see RunKinds
    StepBudget,       \* AgentRun.step_budget
    ToolCallBudget,   \* AgentRun.tool_call_budget
    RetryBudget,      \* AgentRun.retry_budget
    Deadline,         \* planning_deadline and run_deadline, equal at creation
    StaleAfter,       \* tool timeout plus RECOVERY_GRACE, in instants
    MaxClock          \* bound: the clock stops here

\* manual has no result; evidence is research and memory_curator; brief is
\* daily_brief and project_watch.
RunKinds == {"manual", "evidence", "brief"}

ASSUME ConstantsAssumption ==
    /\ Kinds # {} /\ Kinds \subseteq RunKinds
    /\ StepBudget \in Nat \ {0} /\ ToolCallBudget \in Nat \ {0}
    /\ RetryBudget \in Nat
    /\ Deadline \in Nat /\ StaleAfter \in Nat \ {0} /\ MaxClock \in Nat

VARIABLES
    clock,      \* time, read once by each transaction
    kind,       \* agent_kind, fixed at creation
    state,      \* AgentRun.state
    step,       \* AgentStep.status, by ordinal
    inv,        \* tool_invocations, by the unique (step, attempt)
    results,    \* result events, each as the invocations its evidence came from
    pc,         \* where each worker is
    role,       \* executor, or recovery command
    at,         \* invocation the worker is calling
    collected   \* invocations whose evidence the worker holds in memory

runVars    == <<state, step, inv, results>>
workerVars == <<pc, role, at, collected>>
vars       == <<clock, kind, state, step, inv, results, pc, role, at, collected>>

-----------------------------------------------------------------------------
(* Rows.                                                                   *)

Ordinals == 0..(StepBudget - 1)
Calls    == Ordinals \X {0, 1}
NoCall   == <<>>

Terminal    == {"completed", "failed", "cancelled", "expired"}
RunStates   == {"created", "planning", "ready", "running"} \cup Terminal
StepStates  == {"none", "pending", "running", "succeeded", "failed", "cancelled"}
CallStates  == {"none", "running", "succeeded", "failed", "discarded"}
WorkerSteps == {"idle", "planning", "reserve", "calling", "synthesis", "provider",
                "complete"}

NoRow == [status |-> "none", reserved |-> 0]

Made     == {i \in Calls : inv[i].status # "none"}
Active   == {i \in Calls : inv[i].status = "running"}
Retries  == {i \in Made : i[2] = 1}
Finished(i) == inv[i].status \in {"succeeded", "failed", "discarded"}

Planned    == {o \in Ordinals : step[o] # "none"}
Unfinished == {o \in Ordinals : step[o] \in {"pending", "running"}}
AllSucceeded == Planned # {} /\ \A o \in Planned : step[o] = "succeeded"

PastDeadline == clock >= Deadline

Init ==
    /\ clock = 0
    /\ kind \in Kinds
    /\ state = "created"
    /\ step = [o \in Ordinals |-> "none"]
    /\ inv = [i \in Calls |-> NoRow]
    /\ results = <<>>
    /\ pc = [w \in Workers |-> "idle"]
    /\ role = [w \in Workers |-> "executor"]
    /\ at = [w \in Workers |-> NoCall]
    /\ collected = [w \in Workers |-> {}]

-----------------------------------------------------------------------------
(* Effects shared by several transactions.                                 *)

\* Faulty variant: running steps are left as they are.
StopWorkPendingOnly ==
    /\ inv' = [i \in Calls |-> IF i \in Active THEN [inv[i] EXCEPT !.status = "discarded"]
                               ELSE inv[i]]
    /\ step' = [o \in Ordinals |-> IF step[o] = "pending" THEN "cancelled" ELSE step[o]]

\* Faulty variant: invocations are cancelled, as steps are.
StopWorkCancelling ==
    /\ inv' = [i \in Calls |-> IF i \in Active THEN [inv[i] EXCEPT !.status = "cancelled"]
                               ELSE inv[i]]
    /\ step' = [o \in Ordinals |-> IF o \in Unfinished THEN "cancelled" ELSE step[o]]

\* Discard calls in flight and cancel steps that are not finished.
StopWork ==
    /\ inv' = [i \in Calls |-> IF i \in Active THEN [inv[i] EXCEPT !.status = "discarded"]
                               ELSE inv[i]]
    /\ step' = [o \in Ordinals |-> IF o \in Unfinished THEN "cancelled" ELSE step[o]]

\* _expire_execution.
ExpireExecution == StopWork /\ state' = "expired" /\ UNCHANGED results

\* Faulty variant: the Run is not failed with its step.
FailStepOnly(o) == step' = [step EXCEPT ![o] = "failed"] /\ UNCHANGED state

\* A step fails and the Run with it; later steps stay pending.
FailStep(o) == step' = [step EXCEPT ![o] = "failed"] /\ state' = "failed"

\* fail_result: a transaction of its own that only a running Run heeds.
FailResult ==
    /\ state' = IF state = "running" THEN "failed" ELSE state
    /\ UNCHANGED <<step, inv, results>>

Continue(w, where) ==
    /\ pc' = [pc EXCEPT ![w] = where]
    /\ at' = [at EXCEPT ![w] = NoCall]
    /\ UNCHANGED <<clock, kind, role, collected>>

\* The worker returns its answer, raises, or dies: its memory is gone.
Leave(w) ==
    /\ pc' = [pc EXCEPT ![w] = "idle"]
    /\ role' = [role EXCEPT ![w] = "executor"]
    /\ at' = [at EXCEPT ![w] = NoCall]
    /\ collected' = [collected EXCEPT ![w] = {}]
    /\ UNCHANGED <<clock, kind>>

\* After the execution loop only an executor of a result agent synthesizes.
AfterLoop(w) ==
    IF role[w] = "executor" /\ kind # "manual" THEN "synthesis" ELSE "complete"

-----------------------------------------------------------------------------
(* Planning: agent_planning/service.py.                                    *)

ClaimPlanning(w) ==
    /\ pc[w] = "idle" /\ state = "created"
    /\ state' = "planning"
    /\ Continue(w, "planning")
    /\ UNCHANGED <<step, inv, results>>

\* The provider's plan, validated against the budgets, is frozen.
FinalizePlan(w) ==
    /\ pc[w] = "planning" /\ state = "planning" /\ Planned = {}
    /\ \E n \in 1..StepBudget :
          /\ n <= ToolCallBudget
          /\ step' = [o \in Ordinals |-> IF o < n THEN "pending" ELSE "none"]
    /\ state' = "ready"
    /\ Leave(w)
    /\ UNCHANGED <<inv, results>>

\* Provider failure or a rejected plan.
FailPlanning(w) ==
    /\ pc[w] = "planning" /\ state = "planning"
    /\ state' = "failed"
    /\ Leave(w)
    /\ UNCHANGED <<step, inv, results>>

\* The Run was cancelled or expired while the provider was planning.
DropPlan(w) ==
    /\ pc[w] = "planning" /\ state # "planning"
    /\ Leave(w)
    /\ UNCHANGED runVars

-----------------------------------------------------------------------------
(* Execution: executor.py, driven by execute_agent_run,                    *)
(* execute_read_only_run or the recovery command.                          *)

ClaimExecution(w) ==
    /\ pc[w] = "idle" /\ state = "ready"
    /\ IF PastDeadline
       THEN state' = "expired" /\ Leave(w)
       ELSE state' = "running" /\ Continue(w, "reserve")
    /\ UNCHANGED <<step, inv, results>>

\* The step to work on is the first that is pending or running.
NextStep(o) == o \in Unfinished /\ \A p \in Unfinished : o <= p

NextAttempt(o) == IF step[o] = "pending" THEN 0 ELSE 1

\* Faulty variant: an attempt in flight does not block the next.
PlanInvalidUnlessRetried(o) ==
    \/ \E p \in Planned : p < o /\ step[p] # "succeeded"
    \/ (step[o] = "running" /\ <<o, 1>> \in Made)

\* ExecutionPlanInvalidError: an earlier step is not done, or the step is running
\* and does not have exactly one finished, unsuccessful attempt.
PlanInvalid(o) ==
    \/ \E p \in Planned : p < o /\ step[p] # "succeeded"
    \/ /\ step[o] = "running"
       /\ \/ <<o, 1>> \in Made
          \/ inv[<<o, 0>>].status \notin {"failed", "discarded"}

RetryExhausted(o) == step[o] = "running" /\ Cardinality(Retries) >= RetryBudget

\* Faulty variant: retries are not counted against the call budget.
BudgetExhaustedLate == Cardinality(Made \ Retries) >= ToolCallBudget

BudgetExhausted == Cardinality(Made) >= ToolCallBudget

\* Reserving a call: nothing is left to do.
ReserveNothing(w) ==
    /\ pc[w] = "reserve"
    /\ state # "running" \/ (~PastDeadline /\ Unfinished = {})
    /\ Continue(w, AfterLoop(w))
    /\ UNCHANGED runVars

ReserveExpired(w) ==
    /\ pc[w] = "reserve" /\ state = "running" /\ PastDeadline
    /\ ExpireExecution
    /\ Continue(w, AfterLoop(w))

\* The error escapes the loop: no synthesis and no completion follow.
ReserveInvalid(w) ==
    /\ pc[w] = "reserve" /\ state = "running" /\ ~PastDeadline
    /\ \E o \in Ordinals : NextStep(o) /\ PlanInvalid(o)
    /\ Leave(w)
    /\ UNCHANGED runVars

Reservable(w, o) ==
    /\ pc[w] = "reserve" /\ state = "running" /\ ~PastDeadline
    /\ NextStep(o) /\ ~PlanInvalid(o)

\* The retry budget is spent, or policy refuses: a call budget is exhausted, the
\* provider is unavailable, or this worker runs another registry version.
ReserveRefused(w, o) ==
    /\ Reservable(w, o)
    /\ FailStep(o)
    /\ Continue(w, AfterLoop(w))
    /\ UNCHANGED <<inv, results>>

ReserveCall(w, o) ==
    LET i == <<o, NextAttempt(o)>>
    IN /\ Reservable(w, o)
       /\ ~RetryExhausted(o) /\ ~BudgetExhausted
       /\ inv' = [inv EXCEPT ![i] = [status |-> "running", reserved |-> clock]]
       /\ step' = [step EXCEPT ![o] = "running"]
       /\ pc' = [pc EXCEPT ![w] = "calling"]
       /\ at' = [at EXCEPT ![w] = i]
       /\ UNCHANGED <<clock, kind, state, results, role, collected>>

Reserve(w) ==
    \/ ReserveNothing(w) \/ ReserveExpired(w) \/ ReserveInvalid(w)
    \/ \E o \in Ordinals : ReserveRefused(w, o) \/ ReserveCall(w, o)

\* An executor of a result agent keeps the evidence of a good answer, before it
\* knows whether the answer still counts.
Collect(w, good) ==
    IF good /\ role[w] = "executor" /\ kind # "manual"
    THEN {collected[w], collected[w] \cup {at[w]}} ELSE {collected[w]}

Finish(w, where, good) ==
    /\ pc' = [pc EXCEPT ![w] = where]
    /\ at' = [at EXCEPT ![w] = NoCall]
    /\ \E evidence \in Collect(w, good) : collected' = [collected EXCEPT ![w] = evidence]
    /\ UNCHANGED <<clock, kind, results, role>>

\* Faulty variant: an answer to a discarded call is taken.
AwaitedAlways(i) == TRUE

Awaited(i) == inv[i].status = "running"

\* The invocation was discarded meanwhile.
FinalizeLate(w, good) ==
    /\ pc[w] = "calling" /\ ~Awaited(at[w])
    /\ Finish(w, AfterLoop(w), good)
    /\ UNCHANGED <<state, step, inv>>

\* The Run stopped meanwhile and left the invocation open.
FinalizeStopped(w, good) ==
    /\ pc[w] = "calling" /\ Awaited(at[w]) /\ state # "running"
    /\ inv' = [inv EXCEPT ![at[w]].status = "discarded"]
    /\ Finish(w, AfterLoop(w), good)
    /\ UNCHANGED <<state, step>>

FinalizeExpired(w, good) ==
    /\ pc[w] = "calling" /\ Awaited(at[w]) /\ state = "running" /\ PastDeadline
    /\ StopWork /\ state' = "expired"
    /\ Finish(w, AfterLoop(w), good)

Finalizable(w) ==
    pc[w] = "calling" /\ Awaited(at[w]) /\ state = "running" /\ ~PastDeadline

FinalizeSuccess(w) ==
    /\ Finalizable(w)
    /\ inv' = [inv EXCEPT ![at[w]].status = "succeeded"]
    /\ step' = [step EXCEPT ![at[w][1]] = "succeeded"]
    /\ Finish(w, "reserve", TRUE)
    /\ UNCHANGED state

\* A transient failure of a first attempt leaves the step running.
FinalizeRetry(w) ==
    /\ Finalizable(w) /\ at[w][2] = 0
    /\ inv' = [inv EXCEPT ![at[w]].status = "failed"]
    /\ Finish(w, "reserve", FALSE)
    /\ UNCHANGED <<state, step>>

\* A lasting failure, or an answer too large to keep.
FinalizeFailure(w, good) ==
    /\ Finalizable(w)
    /\ inv' = [inv EXCEPT ![at[w]].status = "failed"]
    /\ FailStep(at[w][1])
    /\ Finish(w, AfterLoop(w), good)

Finalize(w) ==
    \/ \E good \in BOOLEAN :
          \/ FinalizeLate(w, good) \/ FinalizeStopped(w, good)
          \/ FinalizeExpired(w, good) \/ FinalizeFailure(w, good)
    \/ FinalizeSuccess(w) \/ FinalizeRetry(w)

-----------------------------------------------------------------------------
(* Synthesis of a result from the collected evidence.                      *)

\* Only the evidence agents look at the deadline, and only at the Run row.
SynthesisExpired == kind = "evidence" /\ PastDeadline

ClaimSynthesis(w) ==
    /\ pc[w] = "synthesis"
    /\ Continue(w, IF state = "running" /\ ~SynthesisExpired THEN "provider" ELSE "complete")
    /\ state' = IF state = "running" /\ SynthesisExpired THEN "expired" ELSE state
    /\ UNCHANGED <<step, inv, results>>

ResultExpired == kind = "evidence" /\ PastDeadline

\* Every cited invocation is still recorded as succeeded.
EvidenceCurrent(w) == \A i \in collected[w] : inv[i].status = "succeeded"

PersistExpired(w) ==
    /\ pc[w] = "provider" /\ state = "running" /\ ResultExpired
    /\ state' = "expired"
    /\ Continue(w, "complete")
    /\ UNCHANGED <<step, inv, results>>

PersistResult(w) ==
    /\ pc[w] = "provider" /\ state = "running" /\ ~ResultExpired
    /\ EvidenceCurrent(w)
    /\ results' = Append(results, collected[w])
    /\ Continue(w, "complete")
    /\ UNCHANGED <<state, step, inv>>

\* The provider failed, its output is invalid, the evidence is stale or was
\* changed, or the Run is no longer running: rolled back, then fail_result.
RejectResult(w) ==
    /\ pc[w] = "provider"
    /\ FailResult
    /\ Continue(w, "complete")

-----------------------------------------------------------------------------
(* Completion.                                                             *)

\* Faulty variant: the Run's state is not looked at.
CompletableAnyState == AllSucceeded

Completable == state = "running" /\ AllSucceeded

\* The recovery command does not ask a brief for its result.
ResultMissing(w) ==
    /\ results = <<>>
    /\ kind = "evidence" \/ (kind = "brief" /\ role[w] = "executor")

\* The deadline is not looked at again.
CompleteRun(w) ==
    /\ pc[w] = "complete"
    /\ state' = IF ~Completable THEN state
                ELSE IF ResultMissing(w) THEN "failed" ELSE "completed"
    /\ Leave(w)
    /\ UNCHANGED <<step, inv, results>>

-----------------------------------------------------------------------------
(* Recovery: prepare_one of recovery.py, run by hand for one Run.          *)

\* Faulty variant: a running Run is never found overdue.
OverdueNotStarted == PastDeadline /\ state \in {"created", "planning", "ready"}

Overdue == PastDeadline /\ state \notin Terminal

RecoverOverdue(w) ==
    /\ pc[w] = "idle" /\ Overdue
    /\ IF state = "running" THEN ExpireExecution
       ELSE state' = "expired" /\ UNCHANGED <<step, inv, results>>
    /\ UNCHANGED <<clock, kind, workerVars>>

Recoverable(w) == pc[w] = "idle" /\ state = "running" /\ ~PastDeadline

Stale(i) == clock >= inv[i].reserved + StaleAfter

StartRecovery(w) ==
    /\ pc' = [pc EXCEPT ![w] = "reserve"]
    /\ role' = [role EXCEPT ![w] = "recovery"]
    /\ UNCHANGED <<clock, kind, at, collected>>

\* Nothing is in flight: steps remain, or only completion does.
RecoverRemaining(w) ==
    /\ Recoverable(w) /\ Active = {}
    /\ StartRecovery(w)
    /\ UNCHANGED runVars

\* A stale call is discarded; its step is retried within the budget.
RecoverStale(w) ==
    /\ Recoverable(w)
    /\ \E i \in Active :
          /\ Stale(i)
          /\ inv' = [inv EXCEPT ![i].status = "discarded"]
          /\ IF i[2] >= RetryBudget
             THEN FailStep(i[1]) /\ UNCHANGED <<clock, kind, workerVars>>
             ELSE StartRecovery(w) /\ UNCHANGED <<state, step>>
    /\ UNCHANGED results

\* The registry of this process is not the captured one: the stale call is
\* ambiguous, and the Run fails with the call left open.
RecoverAmbiguous(w) ==
    /\ Recoverable(w)
    /\ \E i \in Active : Stale(i) /\ FailStep(i[1])
    /\ UNCHANGED <<clock, kind, inv, results, workerVars>>

Recover(w) ==
    \/ RecoverOverdue(w) \/ RecoverRemaining(w) \/ RecoverStale(w) \/ RecoverAmbiguous(w)

\* What the scan reports of this Run; the operator picks the Runs to recover from it.
\* "stale" is stale_pure_read or ambiguous_recovery_denied, by the registry loaded.
Finding ==
    CASE Overdue -> "deadline_expired"
      [] ~Overdue /\ state # "running" -> "none"
      [] ~Overdue /\ state = "running" /\ Active # {} ->
            IF \E i \in Active : Stale(i) THEN "stale" ELSE "none"
      [] ~Overdue /\ state = "running" /\ Active = {} ->
            IF AllSucceeded THEN "completion_pending"
            ELSE IF Unfinished # {} THEN "durable_work_remaining"
            ELSE "recovery_state_invalid"

-----------------------------------------------------------------------------
(* Cancellation, crashes and time.                                         *)

CancelRun ==
    /\ state \notin Terminal
    /\ StopWork
    /\ state' = "cancelled"
    /\ UNCHANGED <<clock, kind, results, workerVars>>

\* The process dies, or its commit fails or goes unacknowledged.
Crash(w) ==
    /\ pc[w] # "idle"
    /\ Leave(w)
    /\ UNCHANGED runVars

Advance ==
    /\ clock < MaxClock
    /\ clock' = clock + 1
    /\ UNCHANGED <<kind, runVars, workerVars>>

\* What a busy worker does by itself.
Work(w) ==
    \/ FinalizePlan(w) \/ FailPlanning(w) \/ DropPlan(w)
    \/ Reserve(w) \/ Finalize(w)
    \/ ClaimSynthesis(w) \/ PersistExpired(w) \/ PersistResult(w) \/ RejectResult(w)
    \/ CompleteRun(w)

Next ==
    \/ Advance \/ CancelRun
    \/ \E w \in Workers :
          ClaimPlanning(w) \/ ClaimExecution(w) \/ Recover(w) \/ Work(w) \/ Crash(w)

Spec == Init /\ [][Next]_vars

\* Time passes, a busy worker goes on, and the operator keeps running recovery.
Fairness ==
    /\ WF_vars(Advance)
    /\ \A w \in Workers : WF_vars(Work(w)) /\ WF_vars(Recover(w))

FairSpec == Spec /\ Fairness

-----------------------------------------------------------------------------
(* Properties.                                                             *)

CallRow == [status : CallStates, reserved : 0..MaxClock]

\* Every row has the columns of its table, and a calling worker holds a reserved
\* invocation.
TypeOK ==
    /\ clock \in 0..MaxClock
    /\ kind \in Kinds
    /\ state \in RunStates
    /\ step \in [Ordinals -> StepStates]
    /\ inv \in [Calls -> CallRow]
    /\ results \in Seq(SUBSET Calls)
    /\ pc \in [Workers -> WorkerSteps]
    /\ role \in [Workers -> {"executor", "recovery"}]
    /\ at \in [Workers -> Calls \cup {NoCall}]
    /\ collected \in [Workers -> SUBSET Calls]
    /\ \A w \in Workers : pc[w] = "calling" => at[w] \in Made

\* T07, T11: steps are executed one at a time and in order, by however many
\* executors and recovery commands: a step starts after every earlier one
\* succeeded, a retry after its first attempt ended, and never is more than one
\* invocation in flight.
SequentialExecution ==
    /\ \A o, p \in Ordinals :
          o < p /\ step[p] \in {"running", "succeeded", "failed"}
            => step[o] = "succeeded"
    /\ \A o \in Ordinals :
          <<o, 1>> \in Made => inv[<<o, 0>>].status \in {"failed", "discarded"}
    /\ \A i, j \in Active : i = j

\* A step is recorded as succeeded exactly when one of its invocations is, however
\* late or often answers arrive.
SuccessBacked ==
    \A o \in Ordinals :
        step[o] = "succeeded" <=> \E a \in {0, 1} : inv[<<o, a>>].status = "succeeded"

\* T08: retries and calls stay within the captured budgets, counting those that
\* recovery makes.
WithinBudgets ==
    /\ Cardinality(Retries) <= RetryBudget
    /\ Cardinality(Made) <= ToolCallBudget

\* A completed Run did every step, and an evidence agent's has exactly the one
\* result its executor persisted: recovery cannot complete it without.
CompletedEarned ==
    state = "completed" =>
        /\ AllSucceeded
        /\ kind = "evidence" => Len(results) = 1

\* What recovery may find in a running Run: a plan, no step that failed or was
\* cancelled, and for every running step an attempt that is in flight or may be
\* retried.  The recovery_state_invalid branches of prepare_one are unreachable, and the
\* scan never reports that code.
RunningIsRecoverable ==
    state = "running" =>
        /\ Finding # "recovery_state_invalid"
        /\ Planned # {}
        /\ \A o \in Planned : step[o] \in {"pending", "running", "succeeded"}
        /\ \A o \in Planned :
              step[o] = "running" =>
                 \/ \E a \in {0, 1} : <<o, a>> \in Active
                 \/ (<<o, 0>> \in Made /\ <<o, 1>> \notin Made)

\* A cancelled or completed Run leaves nothing open: no invocation in flight and
\* no step pending or running.
StopsSettled == state \in {"cancelled", "completed"} => Active = {} /\ Unfinished = {}

\* Result evidence comes only from invocations recorded as succeeded: not from
\* answers that arrived after recovery had discarded the call.
ResultsCiteSucceeded ==
    \A n \in DOMAIN results : \A i \in results[n] : inv[i].status = "succeeded"

\* An invocation that changes in this step was in flight and is discarded.
OnlyDiscards(i) == inv[i].status = "running" /\ inv'[i].status = "discarded"

Frozen ==
    /\ UNCHANGED <<state, step, results>>
    /\ \A i \in Calls : inv'[i] # inv[i] => OnlyDiscards(i)

\* T10: a terminal Run never changes state, makes a call or gains a result; all a
\* late worker may still do is discard its own open invocation.
TerminalFrozen == [][(state \in Terminal) => Frozen]_vars

OutcomesKept == \A i \in Calls : Finished(i) => inv'[i] = inv[i]

\* A finished invocation never changes: late answers, cancellation, expiry and
\* recovery do not overwrite an outcome.
OutcomesFinal == [][OutcomesKept]_vars

\* A deadline that passes while the provider works discards an evidence agent's
\* late result.
NoLateEvidenceResult == [][kind = "evidence" /\ results' # results => clock < Deadline]_vars

\* However many workers crash, recovery brings every Run to an end, so it stops
\* counting against MAX_ACTIVE_RUNS.
RunEnds == <>(state \in Terminal)
=============================================================================
