---------------------------- MODULE ConnectorSync ----------------------------
(***************************************************************************)
(* A connector refresh (app/connectors/sync.refresh) and the ledger of     *)
(* external item revisions it writes.                                      *)
(*                                                                         *)
(* One worker performs a run: the HTTP request of a manual refresh or the  *)
(* scheduler tick of a scheduled one.  It alternates short transactions    *)
(* with GitHub requests made outside any transaction, while operators edit *)
(* the account and GitHub changes.  A check transaction and the request it *)
(* precedes are one step: the check writes nothing and the request reads   *)
(* nothing of the database, so an edit between them may as well come after *)
(* both.  A repository's issues and its pull requests are read by the same *)
(* loop; one list stands for them.                                         *)
(***************************************************************************)
EXTENDS Connectors, Sequences, SequencesExt

CONSTANTS
    Items,       \* provider item ids
    PageSize,    \* PAGE_SIZE
    MaxPages,    \* MAX_DATA_PAGES
    MaxEdits     \* bound: changes made on GitHub

ASSUME SyncAssumption ==
    /\ PageSize \in Nat \ {0} /\ MaxPages \in Nat \ {0} /\ MaxEdits \in Nat
    /\ IsFiniteSet(Items)

VARIABLES
    github,  \* the provider: [id, list, version] of each repository
    edits,   \* changes made on GitHub so far
    known,   \* repository identity of the latest repository snapshot, 0 when none
    items,   \* external_items: the revisions of each item, oldest first
    work     \* the worker of each run: its place in refresh and its locals

syncVars == <<account, run, github, edits, known, items, work>>

Keys == Repos \X Items

ItemRows == [version : Nat, state : {"current", "stale"}, scope : Scopes, by : Runs]

Places == {"none", "captured", "user", "repository", "validate", "mark", "snapshot",
           "request", "persist", "reconcile", "done", "dead"}

Started == Places \ {"none", "captured", "done", "dead"}

\* A worker's locals: repositories left, their identities, the next page of the first
\* one, the page just read, observed, incomplete; and what the properties compare with:
\* the keys absent when it started, whether GitHub removed or changed anything since.
Fresh == [at |-> "captured", todo |-> <<>>, ids |-> [p \in Repos |-> 0], page |-> 1,
          got |-> <<>>, observed |-> {}, incomplete |-> FALSE,
          absent |-> {}, removed |-> FALSE, changed |-> FALSE]

Latest(a, k) == Last(items[a][k])

Has(a, k) == items[a][k] # <<>>

Listed == {k \in Keys : \E i \in DOMAIN github[k[1]].list : github[k[1]].list[i] = k[2]}

\* The repositories of a run, in the order of its account's allowlist.
RunRepos(r) == SetToSeq(account[run[r].account].allow)

Lists == UNION {[1 .. n -> Items] : n \in 0 .. Cardinality(Items)}

Init ==
    /\ AccountsInit
    /\ \E start \in [Repos -> {l \in Lists : IsInjective(l)}] :
           github = [p \in Repos |-> [id |-> 1, list |-> start[p],
                                      version |-> [i \in Items |-> 1]]]
    /\ edits = 0
    /\ known = [a \in Accounts |-> [p \in Repos |-> 0]]
    /\ items = [a \in Accounts |-> [k \in Keys |-> <<>>]]
    /\ work = [r \in Runs |-> [Fresh EXCEPT !.at = "none"]]

-----------------------------------------------------------------------------
(* GitHub, as the client sees it: lists are answered newest first.         *)

Change(removes) ==
    /\ edits < MaxEdits
    /\ edits' = edits + 1
    /\ work' = [r \in Runs |-> IF work[r].at \in Started
           THEN [work[r] EXCEPT !.changed = TRUE, !.removed = @ \/ removes] ELSE work[r]]
    /\ UNCHANGED <<account, run, known, items>>

AddItem(p, i) ==
    /\ <<p, i>> \notin Listed
    /\ github' = [github EXCEPT ![p].list = <<i>> \o @]
    /\ Change(FALSE)

EditItem(p, i) ==
    /\ <<p, i>> \in Listed
    /\ github' = [github EXCEPT ![p].version[i] = @ + 1]
    /\ Change(FALSE)

RemoveItem(p, i) ==
    /\ \E n \in DOMAIN github[p].list :
           /\ github[p].list[n] = i
           /\ github' = [github EXCEPT ![p].list = RemoveAt(@, n)]
    /\ Change(TRUE)

\* The name now belongs to another repository.
ReplaceRepository(p) ==
    /\ github' = [github EXCEPT ![p].id = @ + 1]
    /\ Change(FALSE)

GitHubStep ==
    \/ \E p \in Repos, i \in Items : AddItem(p, i) \/ EditItem(p, i) \/ RemoveItem(p, i)
    \/ \E p \in Repos : ReplaceRepository(p)

-----------------------------------------------------------------------------
(* The refresh of run r, step by step.                                     *)

Step(r, place) == work[r].at = place

\* The routes and the tick: the claim commits before the refresh begins.
Begin(r, a, trigger) ==
    /\ Claim(r, a, trigger)
    /\ work' = [work EXCEPT ![r] = Fresh]
    /\ UNCHANGED <<account, github, edits, known, items>>

\* A tick takes the run of a dead worker up again, from the start; validate_network_fence
\* has found the account unchanged.
Resume(r) ==
    /\ Step(r, "dead") /\ run[r].trigger = "scheduled"
    /\ run[r].status \in Active /\ Captured(r)
    /\ work' = [work EXCEPT ![r] = Fresh]
    /\ UNCHANGED <<account, run, github, edits, known, items>>

Crash(r) ==
    /\ work[r].at \notin {"none", "done", "dead"}
    /\ work' = [work EXCEPT ![r] = [Fresh EXCEPT !.at = "dead"]]
    /\ UNCHANGED <<account, run, github, edits, known, items>>

Start(r) ==
    /\ Step(r, "captured")
    /\ MarkRunning(r)
    /\ work' = [work EXCEPT ![r] =
           [@ EXCEPT !.at = "user", !.todo = RunRepos(r), !.absent = Keys \ Listed]]
    /\ UNCHANGED <<account, github, edits, known, items>>

Go(r, local) ==
    /\ work' = [work EXCEPT ![r] = local]
    /\ UNCHANGED <<account, run, github, edits, known, items>>

\* GET /user answers the account's own identity.
ReadUser(r) ==
    /\ Step(r, "user")
    /\ Go(r, [work[r] EXCEPT !.at = "repository"])

\* Check, then GET the repository; after the last one the account is validated.
ReadRepository(r) ==
    /\ Step(r, "repository") /\ Captured(r)
    /\ LET w == work[r]  p == Head(w.todo)
       IN  Go(r, [w EXCEPT !.ids[p] = github[p].id, !.todo = Tail(@),
                           !.at = IF Len(w.todo) = 1 THEN "validate" ELSE @])

\* The validation transaction reads the account without a lock ...
ReadAccount(r) ==
    /\ Step(r, "validate") /\ Captured(r)
    /\ Go(r, [work[r] EXCEPT !.at = "mark"])

\* ... and its UPDATE names the row only by id: a revocation that committed in between
\* keeps its lifecycle but loses its validation status.
MarkValid(r) ==
    /\ Step(r, "mark")
    /\ account' = [account EXCEPT ![run[r].account].val = "valid"]
    /\ work' = [work EXCEPT ![r] = [@ EXCEPT !.at = "snapshot", !.todo = RunRepos(r)]]
    /\ UNCHANGED <<run, github, edits, known, items>>

\* The identity already recorded under this name, if any, is the one just read.
SameRepository(r, p) == known[run[r].account][p] \in {0, work[r].ids[p]}

PersistRepository(r) ==
    LET p == Head(work[r].todo)
    IN  /\ Step(r, "snapshot") /\ Captured(r) /\ SameRepository(r, p)
        /\ known' = [known EXCEPT ![run[r].account][p] = work[r].ids[p]]
        /\ work' = [work EXCEPT ![r] = [@ EXCEPT !.at = "request", !.page = 1]]
        /\ UNCHANGED <<account, run, github, edits, items>>

\* Check, then GET one page of the list.
ReadPage(r) ==
    /\ Step(r, "request") /\ Captured(r)
    /\ LET w == work[r]  p == Head(w.todo)  list == github[p].list
           from == (w.page - 1) * PageSize
           onPage == {j \in 1 .. PageSize : from + j <= Len(list)}
       IN  Go(r, [w EXCEPT !.at = "persist",
                    !.got = [j \in onPage |-> [item |-> list[from + j],
                                  version |-> github[p].version[list[from + j]]]]])

\* record_item_revision: an exact replay writes nothing, anything else is the next revision.
Recorded(r, rows, version) ==
    IF \E n \in DOMAIN rows : rows[n].version = version THEN rows
    ELSE Append(rows, [version |-> version, state |-> "current",
                       scope |-> run[r].scope, by |-> r])

PageKeys(r) == {<<Head(work[r].todo), work[r].got[j].item>> : j \in DOMAIN work[r].got}

\* The version of item i on the page.
PageVersion(r, i) ==
    work[r].got[CHOOSE j \in DOMAIN work[r].got : work[r].got[j].item = i].version

PersistRows(r) ==
    LET a == run[r].account
    IN  [items EXCEPT ![a] = [k \in Keys |->
            IF k \in PageKeys(r)
            THEN Recorded(r, items[a][k], PageVersion(r, k[2]))
            ELSE items[a][k]]]

\* Faulty variant: a full last page passes for the end of the list.
AfterPageComplete(r) ==
    LET w == [work[r] EXCEPT !.observed = @ \cup PageKeys(r), !.got = <<>>]
    IN  IF Len(work[r].got) = PageSize /\ w.page < MaxPages
        THEN [w EXCEPT !.at = "request", !.page = @ + 1]
        ELSE [w EXCEPT !.todo = Tail(@), !.page = 1,
                       !.at = IF Len(w.todo) = 1 THEN "reconcile" ELSE "snapshot"]

\* Faulty variant: one page too many.
AfterPageBeyond(r) ==
    LET w == [work[r] EXCEPT !.observed = @ \cup PageKeys(r), !.got = <<>>]
    IN  IF Len(work[r].got) = PageSize /\ w.page <= MaxPages
        THEN [w EXCEPT !.at = "request", !.page = @ + 1]
        ELSE [w EXCEPT !.todo = Tail(@), !.page = 1,
                       !.at = IF Len(w.todo) = 1 THEN "reconcile" ELSE "snapshot"]

\* The page loop: a short page ends the list, a full last page leaves it incomplete.
AfterPage(r) ==
    LET w == [work[r] EXCEPT !.observed = @ \cup PageKeys(r), !.got = <<>>]
        full == Len(work[r].got) = PageSize
    IN  IF full /\ w.page < MaxPages
        THEN [w EXCEPT !.at = "request", !.page = @ + 1]
        ELSE [w EXCEPT !.incomplete = @ \/ full, !.todo = Tail(@), !.page = 1,
                       !.at = IF Len(w.todo) = 1 THEN "reconcile" ELSE "snapshot"]

PersistPage(r) ==
    /\ Step(r, "persist") /\ Captured(r)
    /\ items' = PersistRows(r)
    /\ work' = [work EXCEPT ![r] = AfterPage(r)]
    /\ UNCHANGED <<account, run, github, edits, known>>

\* The worker is gone; what it observed is kept for the properties alone.
Done(r) == work' = [work EXCEPT ![r] = [Fresh EXCEPT !.at = "done", !.observed = work[r].observed]]

\* reconcile_latest_items: only the latest rows, and only those of the run's scope.
Reconciled(r) ==
    LET a == run[r].account
    IN  [items EXCEPT ![a] = [k \in Keys |->
            IF Has(a, k) /\ Latest(a, k).scope = run[r].scope
            THEN [items[a][k] EXCEPT ![Len(items[a][k])].state =
                    IF k \in work[r].observed THEN "current" ELSE "stale"]
            ELSE items[a][k]]]

Complete(r) ==
    /\ Step(r, "reconcile") /\ ~work[r].incomplete /\ Captured(r)
    /\ items' = Reconciled(r)
    /\ Settle(r, "succeeded") /\ Done(r)
    /\ UNCHANGED <<account, github, edits, known>>

\* Faulty variant: an incomplete run reconciles too.
EndIncompleteReconciling(r) ==
    /\ Step(r, "reconcile") /\ work[r].incomplete
    /\ items' = Reconciled(r)
    /\ Settle(r, "incomplete") /\ Done(r)
    /\ UNCHANGED <<account, github, edits, known>>

EndIncomplete(r) ==
    /\ Step(r, "reconcile") /\ work[r].incomplete
    /\ Settle(r, "incomplete") /\ Done(r)
    /\ UNCHANGED <<account, github, edits, known, items>>

\* A check found the account changed.
Drift(r) ==
    /\ work[r].at \in {"captured", "repository", "validate", "snapshot", "request",
                       "persist", "reconcile"}
    /\ Step(r, "reconcile") => ~work[r].incomplete
    /\ ~Captured(r)
    /\ Settle(r, "failed") /\ Done(r)
    /\ UNCHANGED <<account, github, edits, known, items>>

\* CredentialStore.read raises.
CredentialLost(r) == Step(r, "captured")

\* github._get raises: a timeout, a rate limit, a redirect or an unavailable provider.
TransportFails(r) == work[r].at \in {"user", "repository", "request"}

\* The answer is not what the schema allows: _list_snapshots, _repository_snapshot.
AnswerUnusable(r) == work[r].at \in {"repository", "request"}

Fail(r) ==
    /\ CredentialLost(r) \/ TransportFails(r) \/ AnswerUnusable(r)
    /\ Settle(r, "failed") /\ Done(r)
    /\ UNCHANGED <<account, github, edits, known, items>>

\* The request, byte, item and deadline ceilings.
Ceilings(r) ==
    work[r].at \in {"captured", "user", "repository", "validate", "snapshot", "request", "persist"}

HitCeiling(r) ==
    /\ Ceilings(r)
    /\ Settle(r, "incomplete") /\ Done(r)
    /\ UNCHANGED <<account, github, edits, known, items>>

\* GitHub refuses the credential, answers with another identity, or the name has been
\* recorded with another repository.
Refused(r) ==
    \/ TransportFails(r)
    \/ Step(r, "snapshot") /\ Captured(r) /\ ~SameRepository(r, Head(work[r].todo))

FailIdentity(r) ==
    /\ Refused(r)
    /\ FenceAccount(r) /\ Settle(r, "failed") /\ Done(r)
    /\ UNCHANGED <<github, edits, known, items>>

WorkerStep(r) ==
    \/ Start(r) \/ ReadUser(r) \/ ReadRepository(r) \/ ReadAccount(r) \/ MarkValid(r)
    \/ PersistRepository(r) \/ ReadPage(r) \/ PersistPage(r)
    \/ Complete(r) \/ EndIncomplete(r)
    \/ Drift(r) \/ Fail(r) \/ HitCeiling(r) \/ FailIdentity(r)

-----------------------------------------------------------------------------
Configure(a) ==
    /\ ConfigureAccount(a)
    /\ UNCHANGED <<github, edits, known, items, work>>

Next ==
    \/ \E a \in Accounts : Configure(a)
    \/ \E r \in Runs, a \in Accounts, t \in {"manual", "scheduled"} : Begin(r, a, t)
    \/ \E r \in Runs : WorkerStep(r) \/ Crash(r) \/ Resume(r)
    \/ GitHubStep

Spec == Init /\ [][Next]_syncVars

-----------------------------------------------------------------------------
(* Properties.                                                             *)

\* Every table and every worker local keeps its shape; `got` and `todo` stay within a
\* page and within the allowlist.
TypeOK ==
    /\ account \in [Accounts -> AccountRows] /\ run \in [Runs -> RunRows]
    /\ DOMAIN github = Repos /\ edits \in 0 .. MaxEdits
    /\ known \in [Accounts -> [Repos -> Nat]]
    /\ items \in [Accounts -> [Keys -> Seq(ItemRows)]]
    /\ \A r \in Runs :
          /\ work[r].at \in Places /\ work[r].observed \subseteq Keys
          /\ Len(work[r].got) <= PageSize /\ work[r].page \in 1 .. MaxPages

\* _confirmed_through: the last complete run of account a in the item's scope, 0 for none.
CompleteRuns(a, s) ==
    {r \in Runs : run[r].account = a /\ run[r].scope = s /\ run[r].complete}

ConfirmedBy(a, k) ==
    IF Latest(a, k).state = "current"
    THEN Max({0} \cup CompleteRuns(a, Latest(a, k).scope))
    ELSE 0

\* list_latest: the latest revisions of the account, in its present scope only.
Shown(a) == {k \in Keys : Has(a, k) /\ Latest(a, k).scope = account[a].scope}

\* What External Context shows as `confirmed_present_through` a run was observed by that
\* run, or recorded by a later one; and an item is shown stale only after a complete run
\* of its own scope that came no earlier than its latest revision (query.py,
\* reconcile_latest_items).
ConfirmedItemsSeen ==
    \A a \in Accounts : \A k \in Shown(a) :
        /\ ConfirmedBy(a, k) # 0 =>
              k \in work[ConfirmedBy(a, k)].observed \/ Latest(a, k).by > ConfirmedBy(a, k)
        /\ Latest(a, k).state = "stale" =>
              \E r \in CompleteRuns(a, Latest(a, k).scope) : r >= Latest(a, k).by

\* A complete run mirrors GitHub.  If GitHub removed nothing while the run read it, an item
\* turns stale only if it was absent when the run started (page numbers shift only on a
\* removal); and if nothing at all changed, every listed item of the allowlist has its
\* provider version as its latest revision, and every latest revision in the run's scope
\* says current exactly for the items listed.
Stales(a, k) ==
    /\ Has(a, k) /\ Latest(a, k).state = "current"
    /\ Last(items'[a][k]).state = "stale"

MirrorsGitHub ==
    [][\A r \in Runs : Complete(r) =>
         LET a == run[r].account
             here == {k \in Listed : k[1] \in account[a].allow}
         IN  /\ ~work[r].removed => \A k \in Keys : Stales(a, k) =>
                    k \in work[r].absent \/ k[1] \notin account[a].allow
             /\ ~work[r].changed =>
                  /\ \A k \in here : Has(a, k) /\ Latest(a, k).version = github[k[1]].version[k[2]]
                  /\ \A k \in Keys : Has(a, k) /\ Latest(a, k).scope = run[r].scope =>
                        (Last(items'[a][k]).state = "current") = (k \in here)]_syncVars

\* The reader's view of the ledger: what SyncPromise is about.
AnyOf(runs) == IF runs = {} THEN 0 ELSE CHOOSE r \in runs : TRUE

OpenRun == [a \in Accounts |-> AnyOf(ActiveRuns(a))]

UsedRuns == {r \in Runs : run[r].status # "none"}

WholeRuns == {r \in Runs : run[r].complete}

View == [a \in Accounts |-> [k \in Keys |->
    IF Has(a, k) THEN Latest(a, k).state ELSE "unknown"]]

Promise == INSTANCE SyncPromise WITH
    NoRun <- 0, open <- OpenRun, used <- UsedRuns, whole <- WholeRuns, view <- View

\* The refresh keeps its promise: no item is inferred gone by a failed, incomplete or
\* interrupted run, and nothing changes what is shown of an account without its open run.
KeepsPromise == Promise!PromiseSpec

=============================================================================
