----------------------------- MODULE SyncPromise -----------------------------
(***************************************************************************)
(* What a connector refresh promises to the reader of External Context,    *)
(* without pages, checks, revisions or GitHub: what is shown of an item    *)
(* changes only while the account has its one open run, only a run that    *)
(* closes completely may infer that an item is gone, and nothing ever      *)
(* becomes unknown again.                                                  *)
(***************************************************************************)
CONSTANTS
    Accounts,  \* connector accounts
    Keys,      \* items of an account
    Runs,      \* sync runs
    NoRun      \* the account has no open run; not a run

VARIABLES
    open,  \* the claimed or running run of each account
    used,  \* runs ever opened
    whole, \* runs that closed completely
    view   \* what the latest revision of each item says

promiseVars == <<open, used, whole, view>>

Views == {"unknown", "current", "stale"}

PromiseInit ==
    /\ open = [a \in Accounts |-> NoRun]
    /\ used = {} /\ whole = {}
    /\ view = [a \in Accounts |-> [k \in Keys |-> "unknown"]]

\* A run is opened at most once, on an account with no open run.
Open(a, r) ==
    /\ open[a] = NoRun /\ r \in Runs \ used
    /\ open' = [open EXCEPT ![a] = r]
    /\ used' = used \cup {r}
    /\ UNCHANGED <<whole, view>>

\* A page shows items as current and withdraws nothing.
Show(a, page) ==
    /\ open[a] # NoRun
    /\ view' = [view EXCEPT ![a] = [k \in Keys |-> IF k \in page THEN "current" ELSE @[k]]]
    /\ UNCHANGED <<open, used, whole>>

\* A complete run restates items that are already known.
CloseComplete(a) ==
    /\ open[a] # NoRun
    /\ open' = [open EXCEPT ![a] = NoRun]
    /\ \E told \in [Keys -> Views] :
           /\ \A k \in Keys : (told[k] = "unknown") <=> (view[a][k] = "unknown")
           /\ view' = [view EXCEPT ![a] = told]
    /\ whole' = whole \cup {open[a]}
    /\ UNCHANGED used

\* Any other end infers nothing.
CloseOther(a) ==
    /\ open[a] # NoRun
    /\ open' = [open EXCEPT ![a] = NoRun]
    /\ UNCHANGED <<used, whole, view>>

PromiseNext ==
    \E a \in Accounts :
        \/ \E r \in Runs : Open(a, r)
        \/ \E page \in SUBSET Keys : Show(a, page)
        \/ CloseComplete(a)
        \/ CloseOther(a)

PromiseSpec == PromiseInit /\ [][PromiseNext]_promiseVars

=============================================================================
