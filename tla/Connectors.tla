----------------------------- MODULE Connectors -----------------------------
(***************************************************************************)
(* GitHub connector accounts and their sync runs (app/connectors/service   *)
(* and the claim, settle and fence transactions of app/connectors/sync),   *)
(* shared by the refresh (ConnectorSync) and by the refresh scheduler      *)
(* (ConnectorSchedule).                                                    *)
(*                                                                         *)
(* Sync runs are numbered in the order of their created_at; a run that has *)
(* not been inserted yet has status "none".                                *)
(***************************************************************************)
EXTENDS Integers, FiniteSets

CONSTANTS
    Accounts,       \* connector_accounts rows the operator may create
    Scopes,         \* Projects, and "unassigned"
    Repos,          \* repository names an allowlist may hold
    GlobalCap,      \* GLOBAL_ACTIVE_SYNC_CAP
    MaxRuns,        \* bound: sync runs ever claimed
    MaxRevision     \* bound: account edits stop at this revision

ASSUME ConnectorsAssumption ==
    /\ Accounts # {} /\ Scopes # {} /\ Repos # {} /\ IsFiniteSet(Repos)
    /\ GlobalCap \in Nat \ {0} /\ MaxRuns \in Nat /\ MaxRevision \in Nat

VARIABLES
    account,  \* connector_accounts table
    run       \* connector_sync_runs table

Runs == 1 .. MaxRuns

Active   == {"claimed", "running"}
Terminal == {"succeeded", "incomplete", "failed"}
Allowlists == (SUBSET Repos) \ {{}}

AccountRows ==
    [life : {"absent", "disabled", "enabled", "revoked"},
     val : {"unvalidated", "valid", "invalid", "revoked"},
     rev : Nat, scope : Scopes, allow : Allowlists]

RunRows ==
    [status : {"none"} \cup Active \cup Terminal, account : Accounts, rev : Nat,
     scope : Scopes, trigger : {"manual", "scheduled"}, complete : BOOLEAN]

\* uq_connector_sync_runs_one_active_account, and has_active_sync_run.
ActiveRuns(a) == {r \in Runs : run[r].status \in Active /\ run[r].account = a}

ActiveCount == Cardinality({r \in Runs : run[r].status \in Active})

\* _captured_account: the account is still the one the run was claimed for.
Captured(r) ==
    LET a == account[run[r].account]
    IN  a.life = "enabled" /\ a.rev = run[r].rev /\ a.scope = run[r].scope

NoAccount ==
    [life |-> "absent", val |-> "unvalidated", rev |-> 0,
     scope |-> CHOOSE s \in Scopes : TRUE, allow |-> Repos]

NoRun ==
    [status |-> "none", account |-> CHOOSE a \in Accounts : TRUE, rev |-> 0,
     scope |-> CHOOSE s \in Scopes : TRUE, trigger |-> "manual", complete |-> FALSE]

AccountsInit ==
    /\ account = [a \in Accounts |-> NoAccount]
    /\ run = [r \in Runs |-> NoRun]

-----------------------------------------------------------------------------
(* Account service: every mutation locks the row and needs its exact       *)
(* revision; a request with another revision changes nothing.              *)

CreateAccount(a) ==
    /\ account[a].life = "absent"
    /\ \E s \in Scopes, l \in Allowlists :
           account' = [account EXCEPT ![a] =
               [@ EXCEPT !.life = "disabled", !.scope = s, !.allow = l]]
    /\ UNCHANGED run

\* Every edit makes the next revision.
Edited(a) == [account[a] EXCEPT !.rev = @ + 1]

\* update_account: only a disabled account with no active sync.
UpdateAccount(a) ==
    /\ account[a].life = "disabled" /\ account[a].rev < MaxRevision
    /\ ActiveRuns(a) = {}
    /\ \E s \in Scopes, l \in Allowlists :
           account' = [account EXCEPT ![a] =
               [Edited(a) EXCEPT !.scope = s, !.allow = l, !.val = "unvalidated"]]
    /\ UNCHANGED run

\* The allowed pairs of set_lifecycle.
Transitions ==
    {<<"enabled", "disabled">>, <<"disabled", "enabled">>,
     <<"disabled", "revoked">>, <<"enabled", "revoked">>}

SetLifecycle(a, target) ==
    /\ <<account[a].life, target>> \in Transitions /\ account[a].rev < MaxRevision
    /\ account' = [account EXCEPT ![a] =
           [Edited(a) EXCEPT !.life = target,
                             !.val = IF target = "revoked" THEN "revoked" ELSE @]]
    /\ UNCHANGED run

ConfigureAccount(a) ==
    \/ CreateAccount(a)
    \/ UpdateAccount(a)
    \/ \E t \in {"enabled", "disabled", "revoked"} : SetLifecycle(a, t)

-----------------------------------------------------------------------------
(* The life of a sync run.                                                 *)

\* Runs are inserted in order.
NextRun(r) == run[r].status = "none" /\ \A q \in 1 .. (r - 1) : run[q].status # "none"

\* claim_with_trigger, under the capacity lock and the account's row lock.
Claimable(a) ==
    /\ account[a].life = "enabled"
    /\ ActiveRuns(a) = {}
    /\ ActiveCount < GlobalCap

Claim(r, a, trigger) ==
    /\ NextRun(r) /\ Claimable(a)
    /\ run' = [run EXCEPT ![r] =
           [status |-> "claimed", account |-> a, rev |-> account[a].rev,
            scope |-> account[a].scope, trigger |-> trigger, complete |-> FALSE]]

\* Faulty variant: a settled run may be marked running again.
MarkRunningAgain(r) ==
    /\ Captured(r)
    /\ run' = [run EXCEPT ![r].status = "running"]

\* The transaction of refresh that marks the run running.  A terminal run has a
\* completed_at, which ck_connector_sync_runs_completion forbids for "running".
MarkRunning(r) ==
    /\ run[r].status \in Active /\ Captured(r)
    /\ run' = [run EXCEPT ![r].status = "running"]

\* Faulty variant: an incomplete run counts as reconciled.
SettleHopeful(r, status) ==
    run' = [run EXCEPT ![r].status = status, ![r].complete = (status # "failed")]

\* _finish: it does not look at the status it overwrites.
Settle(r, status) ==
    run' = [run EXCEPT ![r].status = status, ![r].complete = (status = "succeeded")]

\* The identity fence of a failed refresh: only the captured revision is disabled.
FenceAccount(r) ==
    LET a == run[r].account
    IN  account' = IF account[a].rev = run[r].rev
                   THEN [account EXCEPT ![a] =
                            [Edited(a) EXCEPT !.life = "disabled", !.val = "invalid"]]
                   ELSE account

=============================================================================
