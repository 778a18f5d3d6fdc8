------------------------ MODULE ConnectorSyncProofs ------------------------
(***************************************************************************)
(* A connector refresh implements SyncPromise, confirms only what it saw   *)
(* and mirrors GitHub, for any accounts, runs, repositories, items, pages  *)
(* and page sizes.                                                         *)
(***************************************************************************)
EXTENDS ConnectorSync, SequenceTheorems, FiniteSetTheorems, TLAPS

-----------------------------------------------------------------------------
(* The inductive invariant.                                                *)

PageRows == [item : Items, version : Nat]

WorkRows ==
    [at : Places, todo : Seq(Repos), ids : [Repos -> Nat], page : 1 .. MaxPages,
     got : Seq(PageRows), observed : SUBSET Keys, incomplete : BOOLEAN,
     absent : SUBSET Keys, removed : BOOLEAN, changed : BOOLEAN]

GitHubRows == [id : Nat, list : Seq(Items), version : [Items -> Nat]]

TablesTyped ==
    /\ account \in [Accounts -> AccountRows] /\ run \in [Runs -> RunRows]
    /\ known \in [Accounts -> [Repos -> Nat]]
    /\ items \in [Accounts -> [Keys -> Seq(ItemRows)]]

OutsideTyped == github \in [Repos -> GitHubRows] /\ edits \in 0 .. MaxEdits

\* Where a worker is busy with the first repository it has left.
WithRepository == {"user", "repository", "snapshot", "request", "persist"}

WorkersTyped ==
    /\ work \in [Runs -> WorkRows]
    /\ \A r \in Runs :
           /\ work[r].at \in WithRepository => work[r].todo # <<>>
           /\ Len(work[r].got) <= PageSize

Working == Places \ {"none", "done", "dead"}

\* A worker that is not done holds an active run, and an active run is not complete.
WorkersHoldRuns ==
    \A r \in Runs :
        /\ work[r].at \in Working => run[r].status \in Active
        /\ run[r].status \in Active \cup {"none"} => ~run[r].complete

\* uq_connector_sync_runs_one_active_account.
OneActive ==
    \A q, r \in Runs :
        /\ run[q].status \in Active /\ run[r].status \in Active
        /\ run[q].account = run[r].account
        => q = r

RunsSound == WorkersHoldRuns /\ OneActive

SyncInv == TablesTyped /\ OutsideTyped /\ WorkersTyped /\ RunsSound

-----------------------------------------------------------------------------
(* Facts about the operators the actions are built from.                   *)

LEMMA FreshTyped == Fresh \in WorkRows /\ Len(Fresh.got) = 0
  BY SyncAssumption, EmptySeq DEF Fresh, WorkRows, Places, PageRows

\* The repositories of a run are a non-empty sequence.
LEMMA RunReposTyped ==
    ASSUME TablesTyped, NEW r \in Runs
    PROVE  RunRepos(r) \in Seq(Repos) /\ RunRepos(r) # <<>>
  <1> DEFINE S == account[run[r].account].allow
  <1>1. S \subseteq Repos /\ S # {}
    BY DEF TablesTyped, RunRows, AccountRows, Allowlists
  <1>2. IsFiniteSet(S)
    BY <1>1, FS_Subset, ConnectorsAssumption
  <1>3. Cardinality(S) \in Nat /\ Cardinality(S) # 0
    BY <1>1, <1>2, FS_CardinalityType, FS_EmptySet
  <1>4. \E f \in [1 .. Cardinality(S) -> S] : IsInjective(f)
    BY <1>2, FS_CardinalityType DEF ExistsBijection, Bijection, Injection
  <1>5. SetToSeq(S) \in [1 .. Cardinality(S) -> S]
    BY <1>4 DEF SetToSeq
  <1>6. SetToSeq(S) \in Seq(Repos) /\ SetToSeq(S) # <<>>
    BY <1>1, <1>3, <1>5
  <1> QED  BY <1>6 DEF RunRepos

\* A page of a list is a sequence of at most PageSize rows.
LEMMA PageTyped ==
    ASSUME NEW list \in Seq(Items), NEW version \in [Items -> Nat], NEW from \in Nat
    PROVE  LET onPage == {j \in 1 .. PageSize : from + j <= Len(list)}
               page == [j \in onPage |-> [item |-> list[from + j],
                                          version |-> version[list[from + j]]]]
           IN  page \in Seq(PageRows) /\ Len(page) <= PageSize
  <1> DEFINE onPage == {j \in 1 .. PageSize : from + j <= Len(list)}
             page == [j \in onPage |-> [item |-> list[from + j],
                                        version |-> version[list[from + j]]]]
  <1>1. PICK n \in 0 .. PageSize : onPage = 1 .. n
    <2>1. Len(list) \in Nat /\ PageSize \in Nat
      BY SyncAssumption, LenProperties
    <2>2. CASE Len(list) <= from
      <3>1. onPage = 1 .. 0
        BY <2>1, <2>2
      <3> QED  BY <2>1, <3>1
    <2>3. CASE Len(list) > from /\ Len(list) - from <= PageSize
      <3>1. onPage = 1 .. (Len(list) - from) /\ Len(list) - from \in 0 .. PageSize
        BY <2>1, <2>3
      <3> QED  BY <3>1
    <2>4. CASE Len(list) > from /\ Len(list) - from > PageSize
      <3>1. onPage = 1 .. PageSize /\ PageSize \in 0 .. PageSize
        BY <2>1, <2>4
      <3> QED  BY <3>1
    <2>5. \/ Len(list) <= from
          \/ Len(list) > from /\ Len(list) - from <= PageSize
          \/ Len(list) > from /\ Len(list) - from > PageSize
      BY <2>1
    <2> QED  BY <2>2, <2>3, <2>4, <2>5
  <1>2. \A j \in onPage : list[from + j] \in Items
    <2>1. \A j \in onPage : from + j \in 1 .. Len(list)
      BY SyncAssumption, LenProperties
    <2>2. \A i \in 1 .. Len(list) : list[i] \in Items
      BY ElementOfSeq
    <2> QED  BY <2>1, <2>2
  <1>3. page \in [1 .. n -> PageRows]
    BY <1>1, <1>2 DEF PageRows
  <1>4. n \in Nat /\ n <= PageSize
    BY SyncAssumption
  <1> HIDE DEF page
  <1>5. page \in Seq(PageRows) /\ Len(page) = n
    BY <1>3, <1>4
  <1> QED  BY <1>4, <1>5 DEF page

\* Replacing, adding and removing keep the lists typed.
LEMMA RemovedTyped ==
    ASSUME NEW list \in Seq(Items), NEW n \in DOMAIN list
    PROVE  RemoveAt(list, n) \in Seq(Items)
  <1>1. Len(list) \in Nat /\ n \in 1 .. Len(list) /\ \A i \in 1 .. Len(list) : list[i] \in Items
    BY LenProperties
  <1>2. SubSeq(list, 1, n - 1) \in Seq(Items) /\ SubSeq(list, n + 1, Len(list)) \in Seq(Items)
    BY <1>1, SubSeqProperties
  <1> QED  BY <1>2, ConcatProperties DEF RemoveAt

\* What record_item_revision leaves of a history.
LEMMA RecordedTyped ==
    ASSUME NEW r \in Runs, run[r] \in RunRows, NEW rows \in Seq(ItemRows), NEW version \in Nat
    PROVE  /\ Recorded(r, rows, version) \in Seq(ItemRows)
           /\ \/ Recorded(r, rows, version) = rows
              \/ /\ Recorded(r, rows, version) # <<>>
                 /\ Last(Recorded(r, rows, version)).state = "current"
           /\ rows # <<>> => Recorded(r, rows, version) # <<>>
  <1> DEFINE row == [version |-> version, state |-> "current",
                     scope |-> run[r].scope, by |-> r]
  <1>1. row \in ItemRows
    BY DEF ItemRows, RunRows
  <1>2. /\ Append(rows, row) \in Seq(ItemRows) /\ Append(rows, row) # <<>>
        /\ Append(rows, row)[Len(Append(rows, row))] = row
    BY <1>1, AppendProperties
  <1>3. CASE \E n \in DOMAIN rows : rows[n].version = version
    BY <1>3 DEF Recorded
  <1>4. CASE ~\E n \in DOMAIN rows : rows[n].version = version
    BY <1>2, <1>4 DEF Recorded, Last
  <1> QED  BY <1>3, <1>4

\* What reconcile_latest_items leaves of a history.
LEMMA RestatedTyped ==
    ASSUME NEW rows \in Seq(ItemRows), rows # <<>>, NEW s \in {"current", "stale"}
    PROVE  /\ [rows EXCEPT ![Len(rows)].state = s] \in Seq(ItemRows)
           /\ [rows EXCEPT ![Len(rows)].state = s] # <<>>
  <1>1. Len(rows) \in 1 .. Len(rows) /\ rows[Len(rows)] \in ItemRows
    BY EmptySeq, LenProperties
  <1>2. [rows[Len(rows)] EXCEPT !.state = s] \in ItemRows
    BY <1>1 DEF ItemRows
  <1>3. [rows EXCEPT ![Len(rows)].state = s]
            = [rows EXCEPT ![Len(rows)] = [rows[Len(rows)] EXCEPT !.state = s]]
    OBVIOUS
  <1>4. /\ [rows EXCEPT ![Len(rows)].state = s] \in Seq(ItemRows)
        /\ Len([rows EXCEPT ![Len(rows)].state = s]) = Len(rows)
    BY <1>1, <1>2, <1>3, ExceptSeq
  <1> QED  BY <1>1, <1>4, EmptySeq, LenProperties

-----------------------------------------------------------------------------
(* The invariant, action by action.                                        *)

LEMMA InitSound == Init => SyncInv
  <1> SUFFICES ASSUME Init PROVE SyncInv
    OBVIOUS
  <1>1. TablesTyped
    <2>1. (CHOOSE s \in Scopes : TRUE) \in Scopes /\ (CHOOSE a \in Accounts : TRUE) \in Accounts
          /\ Repos \in Allowlists
      BY ConnectorsAssumption DEF Allowlists
    <2>2. NoAccount \in AccountRows /\ NoRun \in RunRows
      BY <2>1 DEF NoAccount, NoRun, AccountRows, RunRows
    <2> QED  BY <2>2, EmptySeq DEF Init, AccountsInit, TablesTyped
  <1>2. OutsideTyped
    <2>1. \A l \in Lists : l \in Seq(Items)
      BY SyncAssumption, FS_CardinalityType DEF Lists
    <2>2. PICK start \in [Repos -> {l \in Lists : IsInjective(l)}] :
              github = [p \in Repos |-> [id |-> 1, list |-> start[p],
                                         version |-> [i \in Items |-> 1]]]
      BY DEF Init
    <2>3. \A p \in Repos : start[p] \in Seq(Items)
      BY <2>1
    <2> QED  BY <2>2, <2>3, SyncAssumption DEF Init, OutsideTyped, GitHubRows
  <1>3. WorkersTyped
    <2> DEFINE idle == [Fresh EXCEPT !.at = "none"]
    <2>1. idle \in WorkRows
      BY FreshTyped DEF WorkRows, Places
    <2>2. idle.at \notin WithRepository /\ idle.got = <<>>
      BY DEF Fresh, WithRepository
    <2>3. Len(idle.got) <= PageSize
      BY <2>2, SyncAssumption, EmptySeq
    <2>4. work = [r \in Runs |-> idle]
      BY DEF Init
    <2> HIDE DEF idle
    <2> QED  BY <2>1, <2>2, <2>3, <2>4 DEF WorkersTyped
  <1>4. RunsSound
    BY DEF Init, AccountsInit, NoRun, Fresh, RunsSound, WorkersHoldRuns, OneActive, Working, Active
  <1> QED  BY <1>1, <1>2, <1>3, <1>4 DEF SyncInv

\* A worker's move, whatever else the step does to the tables.
LEMMA WorkerMove ==
    ASSUME SyncInv, NEW r \in Runs, NEW local \in WorkRows,
           local.at \in WithRepository => local.todo # <<>>, Len(local.got) <= PageSize,
           work' = [work EXCEPT ![r] = local]
    PROVE  /\ WorkersTyped'
           /\ /\ UNCHANGED run
              /\ local.at \in Working => run[r].status \in Active
              => RunsSound'
  <1>1. WorkersTyped'
    BY DEF SyncInv, WorkersTyped
  <1>2. ASSUME UNCHANGED run, local.at \in Working => run[r].status \in Active
        PROVE  RunsSound'
    BY <1>2 DEF SyncInv, WorkersTyped, RunsSound, WorkersHoldRuns, OneActive
  <1> QED  BY <1>1, <1>2

\* The worker ends its run and is done.
LEMMA WorkerEnds ==
    ASSUME SyncInv, NEW r \in Runs, work[r].at \in Working,
           NEW status \in Terminal, Settle(r, status), Done(r)
    PROVE  WorkersTyped' /\ RunsSound' /\ run' \in [Runs -> RunRows]
  <1> DEFINE local == [Fresh EXCEPT !.at = "done", !.observed = work[r].observed]
  <1>1. local \in WorkRows /\ local.at = "done" /\ Len(local.got) <= PageSize
    <2>1. work[r].observed \in SUBSET Keys
      BY DEF SyncInv, WorkersTyped, WorkRows
    <2>2. local \in WorkRows
      BY <2>1, FreshTyped DEF WorkRows, Places
    <2>3. local.at = "done" /\ local.got = <<>>
      BY DEF Fresh
    <2> QED  BY <2>2, <2>3, SyncAssumption, EmptySeq
  <1> HIDE DEF local
  <1>2. work' = [work EXCEPT ![r] = local]
    BY DEF Done, local
  <1>3. WorkersTyped'
    BY <1>1, <1>2, WorkerMove DEF WithRepository
  <1>4. /\ run' \in [Runs -> RunRows]
        /\ run'[r].status \notin Active \cup {"none"}
        /\ \A q \in Runs : run'[q].account = run[q].account
        /\ \A q \in Runs \ {r} : run'[q] = run[q]
    <2> DEFINE row == [run[r] EXCEPT !.status = status, !.complete = (status = "succeeded")]
    <2>1. run \in [Runs -> RunRows] /\ run[r] \in RunRows
      BY DEF SyncInv, TablesTyped
    <2>2. row \in RunRows /\ row.status = status /\ row.account = run[r].account
      BY <2>1 DEF RunRows, Terminal
    <2>3. run' = [run EXCEPT ![r] = row]
      BY <2>1 DEF Settle, RunRows
    <2>4. status \notin Active \cup {"none"}
      BY DEF Active, Terminal
    <2> HIDE DEF row
    <2> QED  BY <2>1, <2>2, <2>3, <2>4
  <1>5. /\ work'[r].at \notin Working
        /\ \A q \in Runs \ {r} : work'[q] = work[q]
    BY <1>1, <1>2 DEF SyncInv, WorkersTyped, Working
  <1>6. RunsSound'
    BY <1>4, <1>5 DEF SyncInv, RunsSound, WorkersHoldRuns, OneActive
  <1> QED  BY <1>3, <1>4, <1>6

LEMMA ConfigureSound ==
    ASSUME SyncInv, NEW a \in Accounts, Configure(a)
    PROVE  SyncInv'
  <1>0. account \in [Accounts -> AccountRows]
    BY DEF SyncInv, TablesTyped
  <1>e. Edited(a) \in AccountRows
    BY <1>0 DEF Edited, AccountRows
  <1>1. account' \in [Accounts -> AccountRows]
    <2>1. CASE CreateAccount(a)
      <3>1. PICK s \in Scopes, l \in Allowlists : account' = [account EXCEPT ![a] =
                [account[a] EXCEPT !.life = "disabled", !.scope = s, !.allow = l]]
        BY <2>1 DEF CreateAccount
      <3> DEFINE row == [account[a] EXCEPT !.life = "disabled", !.scope = s, !.allow = l]
      <3>2. row \in AccountRows
        BY <1>0 DEF AccountRows
      <3> HIDE DEF row
      <3> QED  BY <1>0, <3>1, <3>2 DEF row
    <2>2. CASE UpdateAccount(a)
      <3>1. PICK s \in Scopes, l \in Allowlists : account' = [account EXCEPT ![a] =
                [Edited(a) EXCEPT !.scope = s, !.allow = l, !.val = "unvalidated"]]
        BY <2>2 DEF UpdateAccount
      <3> QED  BY <1>0, <1>e, <3>1 DEF AccountRows
    <2>3. ASSUME NEW t \in {"enabled", "disabled", "revoked"}, SetLifecycle(a, t)
          PROVE  account' \in [Accounts -> AccountRows]
      <3> DEFINE row == [Edited(a) EXCEPT !.life = t,
                                          !.val = IF t = "revoked" THEN "revoked" ELSE @]
      <3>1. row \in AccountRows
        BY <1>e DEF AccountRows
      <3>2. account' = [account EXCEPT ![a] = row]
        BY <2>3 DEF SetLifecycle
      <3> HIDE DEF row
      <3> QED  BY <1>0, <3>1, <3>2
    <2> QED  BY <2>1, <2>2, <2>3 DEF Configure, ConfigureAccount
  <1>2. UNCHANGED <<run, github, edits, known, items, work>>
    BY DEF Configure, ConfigureAccount, CreateAccount, UpdateAccount, SetLifecycle
  <1> QED  BY <1>1, <1>2 DEF SyncInv, TablesTyped, OutsideTyped, WorkersTyped, RunsSound,
           WorkersHoldRuns, OneActive

LEMMA BeginSound ==
    ASSUME SyncInv, NEW r \in Runs, NEW a \in Accounts,
           NEW trigger \in {"manual", "scheduled"}, Begin(r, a, trigger)
    PROVE  SyncInv'
  <1>1. /\ run' \in [Runs -> RunRows]
        /\ run'[r].status = "claimed" /\ run'[r].account = a /\ ~run'[r].complete
        /\ \A q \in Runs \ {r} : run'[q] = run[q]
    BY DEF SyncInv, TablesTyped, RunRows, AccountRows, Begin, Claim, Active
  <1>2. \A q \in Runs : run[q].account = a => run[q].status \notin Active
    BY DEF Begin, Claim, Claimable, ActiveRuns
  <1>3. WorkersTyped'
    <2>1. Fresh.at \notin WithRepository /\ Len(Fresh.got) <= PageSize
      BY FreshTyped, SyncAssumption DEF Fresh, WithRepository
    <2> QED  BY <2>1, FreshTyped, WorkerMove DEF Begin
  <1>4. \A q \in Runs \ {r} : work'[q] = work[q]
    BY DEF SyncInv, WorkersTyped, Begin
  <1>5. RunsSound'
    BY <1>1, <1>2, <1>4 DEF SyncInv, RunsSound, WorkersHoldRuns, OneActive, Active
  <1> QED  BY <1>1, <1>3, <1>5 DEF SyncInv, TablesTyped, OutsideTyped, Begin

LEMMA GitHubSound ==
    ASSUME SyncInv, GitHubStep
    PROVE  SyncInv'
  <1>1. PICK removes \in BOOLEAN : Change(removes)
    BY DEF GitHubStep, AddItem, EditItem, RemoveItem, ReplaceRepository
  <1>2. github' \in [Repos -> GitHubRows]
    <2>1. ASSUME NEW p \in Repos, NEW i \in Items, AddItem(p, i)
          PROVE  github' \in [Repos -> GitHubRows]
      <3>1. <<i>> \o github[p].list \in Seq(Items)
        BY ConcatProperties DEF SyncInv, OutsideTyped, GitHubRows
      <3> QED  BY <2>1, <3>1 DEF AddItem, SyncInv, OutsideTyped, GitHubRows
    <2>2. ASSUME NEW p \in Repos, NEW i \in Items, EditItem(p, i)
          PROVE  github' \in [Repos -> GitHubRows]
      <3> DEFINE version == [github[p].version EXCEPT ![i] = @ + 1]
      <3>1. github \in [Repos -> GitHubRows] /\ version \in [Items -> Nat]
        BY DEF SyncInv, OutsideTyped, GitHubRows
      <3>2. github' = [github EXCEPT ![p].version = version]
        BY <2>2 DEF EditItem
      <3> HIDE DEF version
      <3> QED  BY <3>1, <3>2 DEF GitHubRows
    <2>3. ASSUME NEW p \in Repos, NEW i \in Items, RemoveItem(p, i)
          PROVE  github' \in [Repos -> GitHubRows]
      <3>1. PICK n \in DOMAIN github[p].list :
                github' = [github EXCEPT ![p].list = RemoveAt(@, n)]
        BY <2>3 DEF RemoveItem
      <3>2. RemoveAt(github[p].list, n) \in Seq(Items)
        BY RemovedTyped DEF SyncInv, OutsideTyped, GitHubRows
      <3> QED  BY <3>1, <3>2 DEF SyncInv, OutsideTyped, GitHubRows
    <2>4. ASSUME NEW p \in Repos, ReplaceRepository(p)
          PROVE  github' \in [Repos -> GitHubRows]
      <3>1. github \in [Repos -> GitHubRows] /\ github[p].id + 1 \in Nat
        BY DEF SyncInv, OutsideTyped, GitHubRows
      <3> QED  BY <2>4, <3>1 DEF ReplaceRepository, GitHubRows
    <2> QED  BY <2>1, <2>2, <2>3, <2>4 DEF GitHubStep
  <1>3. edits' \in 0 .. MaxEdits
    <2>1. edits < MaxEdits /\ edits' = edits + 1 /\ edits \in 0 .. MaxEdits
      BY <1>1 DEF Change, SyncInv, OutsideTyped
    <2> QED  BY <2>1, SyncAssumption
  <1>4. /\ work' \in [Runs -> WorkRows]
        /\ \A r \in Runs : /\ work'[r].at = work[r].at /\ work'[r].todo = work[r].todo
                          /\ work'[r].got = work[r].got
    <2>1. work \in [Runs -> WorkRows]
      BY DEF SyncInv, WorkersTyped
    <2>2. work' = [r \in Runs |-> IF work[r].at \in Started
              THEN [work[r] EXCEPT !.changed = TRUE, !.removed = @ \/ removes] ELSE work[r]]
      BY <1>1 DEF Change
    <2> SUFFICES ASSUME NEW r \in Runs
                 PROVE  /\ work'[r] \in WorkRows /\ work'[r].at = work[r].at
                        /\ work'[r].todo = work[r].todo /\ work'[r].got = work[r].got
      BY <2>2
    <2>3. work[r] \in WorkRows
      BY <2>1
    <2>4. work'[r] = work[r] \/
          work'[r] = [work[r] EXCEPT !.changed = TRUE, !.removed = work[r].removed \/ removes]
      BY <2>2
    <2> QED  BY <2>3, <2>4 DEF WorkRows
  <1> QED  BY <1>1, <1>2, <1>3, <1>4 DEF Change, SyncInv, TablesTyped, OutsideTyped,
           WorkersTyped, RunsSound, WorkersHoldRuns, OneActive

\* Resuming and crashing put the worker somewhere else and touch no table.
LEMMA MovesSound ==
    ASSUME SyncInv, NEW r \in Runs, Resume(r) \/ Crash(r)
    PROVE  SyncInv'
  <1> DEFINE dead == [Fresh EXCEPT !.at = "dead"]
  <1>1. /\ dead \in WorkRows /\ dead.at = "dead" /\ dead.got = <<>>
        /\ Fresh \in WorkRows /\ Fresh.at = "captured" /\ Fresh.got = <<>>
    <2>1. dead \in WorkRows
      BY FreshTyped DEF WorkRows, Places
    <2> QED  BY <2>1, FreshTyped DEF Fresh
  <1> HIDE DEF dead
  <1>2. PICK local \in {Fresh, dead} :
            /\ work' = [work EXCEPT ![r] = local]
            /\ local = Fresh => run[r].status \in Active
    BY <1>1 DEF Resume, Crash, dead
  <1>3. WorkersTyped' /\ RunsSound'
    <2>1. UNCHANGED run
      BY DEF Resume, Crash
    <2>2. /\ local \in WorkRows /\ local.at \notin WithRepository /\ Len(local.got) <= PageSize
          /\ local.at \in Working => run[r].status \in Active
      BY <1>1, <1>2, SyncAssumption, EmptySeq DEF WithRepository, Working
    <2> QED  BY <1>2, <2>1, <2>2, WorkerMove
  <1> QED  BY <1>3 DEF Resume, Crash, SyncInv, TablesTyped, OutsideTyped

LEMMA StartSound ==
    ASSUME SyncInv, NEW r \in Runs, Start(r)
    PROVE  SyncInv'
  <1> DEFINE local == [work[r] EXCEPT !.at = "user", !.todo = RunRepos(r),
                                      !.absent = Keys \ Listed]
  <1>1. RunRepos(r) \in Seq(Repos) /\ RunRepos(r) # <<>>
    BY RunReposTyped DEF SyncInv
  <1>2. work[r] \in WorkRows /\ Len(work[r].got) <= PageSize
    BY DEF SyncInv, WorkersTyped
  <1>3. /\ local \in WorkRows /\ local.at = "user" /\ local.got = work[r].got
        /\ local.todo = RunRepos(r)
    BY <1>1, <1>2 DEF WorkRows, Places
  <1> HIDE DEF local
  <1>4. work' = [work EXCEPT ![r] = local]
    BY DEF Start, local
  <1>5. WorkersTyped'
    BY <1>1, <1>2, <1>3, <1>4, WorkerMove
  <1>6. /\ run' \in [Runs -> RunRows] /\ run'[r].status \in Active
        /\ run[r].status \in Active
        /\ \A q \in Runs : run'[q].account = run[q].account /\ run'[q].complete = run[q].complete
        /\ \A q \in Runs \ {r} : run'[q] = run[q]
    BY DEF Start, MarkRunning, SyncInv, TablesTyped, RunRows, Active
  <1>7. \A q \in Runs \ {r} : work'[q] = work[q]
    BY <1>4 DEF SyncInv, WorkersTyped
  <1>8. RunsSound'
    BY <1>6, <1>7 DEF SyncInv, RunsSound, WorkersHoldRuns, OneActive
  <1> QED  BY <1>5, <1>6, <1>8 DEF Start, SyncInv, TablesTyped, OutsideTyped

\* Steps that change the worker's locals and no table.
LEMMA LocalSound ==
    ASSUME SyncInv, NEW r \in Runs, work[r].at \in Working, NEW local \in WorkRows, Go(r, local),
           local.at \in WithRepository => local.todo # <<>>, Len(local.got) <= PageSize
    PROVE  SyncInv'
  <1>1. run[r].status \in Active
    BY DEF SyncInv, RunsSound, WorkersHoldRuns
  <1>2. WorkersTyped' /\ RunsSound'
    BY <1>1, WorkerMove DEF Go
  <1> QED  BY <1>2 DEF Go, SyncInv, TablesTyped, OutsideTyped

LEMMA ReadsSound ==
    ASSUME SyncInv, NEW r \in Runs,
           ReadUser(r) \/ ReadRepository(r) \/ ReadAccount(r) \/ ReadPage(r)
    PROVE  SyncInv'
  <1> DEFINE w == work[r]
             p == Head(w.todo)
  <1>1. w \in WorkRows /\ Len(w.got) <= PageSize /\ (w.at \in WithRepository => w.todo # <<>>)
    BY DEF SyncInv, WorkersTyped
  <1>2. CASE ReadUser(r)
    <2> DEFINE local == [w EXCEPT !.at = "repository"]
    <2>1. w.at = "user" /\ Go(r, local)
      BY <1>2 DEF ReadUser, Step
    <2>2. local \in WorkRows /\ local.at = "repository" /\ local.todo = w.todo /\ local.got = w.got
      BY <1>1 DEF WorkRows, Places
    <2> HIDE DEF local
    <2> QED  BY <1>1, <2>1, <2>2, LocalSound DEF WithRepository, Working, Places
  <1>3. CASE ReadRepository(r)
    <2> DEFINE local == [w EXCEPT !.ids[p] = github[p].id, !.todo = Tail(@),
                                  !.at = IF Len(w.todo) = 1 THEN "validate" ELSE @]
    <2>1. w.at = "repository" /\ Go(r, local)
      BY <1>3 DEF ReadRepository, Step
    <2>2. w.todo \in Seq(Repos) /\ w.todo # <<>>
      BY <1>1, <2>1 DEF WithRepository, WorkRows
    <2>3. /\ p \in Repos /\ Tail(w.todo) \in Seq(Repos)
          /\ Len(w.todo) # 1 => Tail(w.todo) # <<>>
      <3>1. /\ p \in Repos /\ Tail(w.todo) \in Seq(Repos)
            /\ Len(Tail(w.todo)) = Len(w.todo) - 1
        BY <2>2, HeadTailProperties
      <3>2. Len(w.todo) \in Nat
        BY <2>2, LenProperties
      <3>3. Len(<<>>) = 0
        BY EmptySeq
      <3>4. ASSUME Tail(w.todo) = <<>> PROVE Len(w.todo) = 1
        <4>1. Len(Tail(w.todo)) = 0
          BY <3>3, <3>4, Zenon
        <4>2. \A m \in Nat : 0 = m - 1 => m = 1
          OBVIOUS
        <4> QED  BY <3>1, <3>2, <4>1, <4>2, Zenon
      <3> QED  BY <3>1, <3>4
    <2>4. [w.ids EXCEPT ![p] = github[p].id] \in [Repos -> Nat]
      BY <1>1, <2>3 DEF WorkRows, SyncInv, OutsideTyped, GitHubRows
    <2>5. /\ local \in WorkRows /\ local.todo = Tail(w.todo) /\ local.got = w.got
          /\ local.at = IF Len(w.todo) = 1 THEN "validate" ELSE "repository"
      BY <1>1, <2>1, <2>3, <2>4 DEF WorkRows, Places
    <2> HIDE DEF local
    <2> QED  BY <1>1, <2>1, <2>3, <2>5, LocalSound DEF WithRepository, Working, Places
  <1>4. CASE ReadAccount(r)
    <2> DEFINE local == [w EXCEPT !.at = "mark"]
    <2>1. w.at = "validate" /\ Go(r, local)
      BY <1>4 DEF ReadAccount, Step
    <2>2. local \in WorkRows /\ local.at = "mark" /\ local.got = w.got
      BY <1>1 DEF WorkRows, Places
    <2> HIDE DEF local
    <2> QED  BY <1>1, <2>1, <2>2, LocalSound DEF WithRepository, Working, Places
  <1>5. CASE ReadPage(r)
    <2> DEFINE list == github[p].list
               from == (w.page - 1) * PageSize
               onPage == {j \in 1 .. PageSize : from + j <= Len(list)}
               rows == [j \in onPage |-> [item |-> list[from + j],
                                          version |-> github[p].version[list[from + j]]]]
               local == [w EXCEPT !.at = "persist", !.got = rows]
    <2>1. w.at = "request" /\ Go(r, local)
      BY <1>5 DEF ReadPage, Step
    <2>2. p \in Repos /\ w.todo # <<>>
      BY <1>1, <2>1, HeadTailProperties DEF WithRepository, WorkRows
    <2>3. list \in Seq(Items) /\ github[p].version \in [Items -> Nat] /\ from \in Nat
      <3>1. w.page - 1 \in Nat /\ PageSize \in Nat
        BY <1>1, SyncAssumption DEF WorkRows
      <3> QED  BY <2>2, <3>1 DEF SyncInv, OutsideTyped, GitHubRows
    <2>4. rows \in Seq(PageRows) /\ Len(rows) <= PageSize
      BY <2>3, PageTyped
    <2> HIDE DEF rows
    <2>5. /\ local \in WorkRows /\ local.at = "persist" /\ local.todo = w.todo /\ local.got = rows
      BY <1>1, <2>4 DEF WorkRows, Places
    <2> HIDE DEF local
    <2> QED  BY <2>1, <2>2, <2>4, <2>5, LocalSound DEF WithRepository, Working, Places
  <1> QED  BY <1>2, <1>3, <1>4, <1>5

LEMMA MarkValidSound ==
    ASSUME SyncInv, NEW r \in Runs, MarkValid(r)
    PROVE  SyncInv'
  <1> DEFINE local == [work[r] EXCEPT !.at = "snapshot", !.todo = RunRepos(r)]
  <1>1. RunRepos(r) \in Seq(Repos) /\ RunRepos(r) # <<>>
    BY RunReposTyped DEF SyncInv
  <1>2. work[r] \in WorkRows /\ Len(work[r].got) <= PageSize
    BY DEF SyncInv, WorkersTyped
  <1>3. /\ local \in WorkRows /\ local.todo = RunRepos(r) /\ local.got = work[r].got
    BY <1>1, <1>2 DEF WorkRows, Places
  <1> HIDE DEF local
  <1>4. work' = [work EXCEPT ![r] = local] /\ work[r].at = "mark"
    BY DEF MarkValid, Step, local
  <1>5. run[r].status \in Active
    BY <1>4 DEF SyncInv, RunsSound, WorkersHoldRuns, Working, Places
  <1>6. WorkersTyped' /\ RunsSound'
    BY <1>1, <1>2, <1>3, <1>4, <1>5, WorkerMove DEF MarkValid
  <1>7. account' \in [Accounts -> AccountRows]
    <2>1. run[r].account \in Accounts /\ account \in [Accounts -> AccountRows]
      BY DEF SyncInv, TablesTyped, RunRows
    <2> QED  BY <2>1 DEF MarkValid, AccountRows
  <1> QED  BY <1>6, <1>7 DEF MarkValid, SyncInv, TablesTyped, OutsideTyped

LEMMA PersistRepositorySound ==
    ASSUME SyncInv, NEW r \in Runs, PersistRepository(r)
    PROVE  SyncInv'
  <1> DEFINE p == Head(work[r].todo)
             local == [work[r] EXCEPT !.at = "request", !.page = 1]
  <1>1. /\ work[r] \in WorkRows /\ Len(work[r].got) <= PageSize
        /\ work[r].at = "snapshot" /\ work[r].todo # <<>>
    BY DEF SyncInv, WorkersTyped, PersistRepository, Step, WithRepository
  <1>2. /\ local \in WorkRows /\ local.todo = work[r].todo /\ local.got = work[r].got
    <2>1. 1 \in 1 .. MaxPages
      BY SyncAssumption
    <2> QED  BY <1>1, <2>1 DEF WorkRows, Places
  <1> HIDE DEF local
  <1>3. work' = [work EXCEPT ![r] = local]
    BY DEF PersistRepository, local
  <1>4. run[r].status \in Active
    BY <1>1 DEF SyncInv, RunsSound, WorkersHoldRuns, Working, Places
  <1>5. WorkersTyped' /\ RunsSound'
    BY <1>1, <1>2, <1>3, <1>4, WorkerMove DEF PersistRepository
  <1>6. known' \in [Accounts -> [Repos -> Nat]]
    <2>1. p \in Repos /\ work[r].ids[p] \in Nat /\ run[r].account \in Accounts
      BY <1>1, HeadTailProperties DEF WorkRows, SyncInv, TablesTyped, RunRows
    <2>2. known' = [known EXCEPT ![run[r].account][p] = work[r].ids[p]]
      BY DEF PersistRepository
    <2> HIDE DEF p
    <2> QED  BY <2>1, <2>2 DEF SyncInv, TablesTyped
  <1> QED  BY <1>5, <1>6 DEF PersistRepository, SyncInv, TablesTyped, OutsideTyped

\* What a page holds, and the version it has of each of its items.
LEMMA PageFacts ==
    ASSUME SyncInv, NEW r \in Runs, PersistPage(r)
    PROVE  /\ work[r] \in WorkRows /\ work[r].at = "persist" /\ work[r].todo # <<>>
           /\ run[r] \in RunRows /\ run[r].status \in Active
           /\ PageKeys(r) \subseteq Keys
           /\ \A k \in PageKeys(r) : PageVersion(r, k[2]) \in Nat
  <1> DEFINE w == work[r]
  <1>1. /\ w \in WorkRows /\ w.at = "persist" /\ w.todo # <<>>
        /\ run[r] \in RunRows /\ run[r].status \in Active
    BY DEF SyncInv, TablesTyped, WorkersTyped, PersistPage, Step, WithRepository,
           RunsSound, WorkersHoldRuns, Working, Places
  <1>2. Head(w.todo) \in Repos /\ w.got \in Seq(PageRows)
    BY <1>1, HeadTailProperties DEF WorkRows
  <1>3. \A j \in DOMAIN w.got : w.got[j] \in PageRows
    BY <1>2, ElementOfSeq, LenProperties
  <1>4. PageKeys(r) \subseteq Keys
    BY <1>2, <1>3 DEF PageKeys, Keys, PageRows
  <1>5. ASSUME NEW k \in PageKeys(r) PROVE PageVersion(r, k[2]) \in Nat
    <2>1. \E j \in DOMAIN w.got : w.got[j].item = k[2]
      BY DEF PageKeys
    <2>2. (CHOOSE j \in DOMAIN w.got : w.got[j].item = k[2]) \in DOMAIN w.got
      BY <2>1
    <2> QED  BY <1>3, <2>2 DEF PageVersion, PageRows
  <1> QED  BY <1>1, <1>4, <1>5

LEMMA PersistPageSound ==
    ASSUME SyncInv, NEW r \in Runs, PersistPage(r)
    PROVE  SyncInv'
  <1> DEFINE local == AfterPage(r)
             w == [work[r] EXCEPT !.observed = @ \cup PageKeys(r), !.got = <<>>]
             a == run[r].account
  <1>1. /\ work[r] \in WorkRows /\ work[r].at = "persist" /\ work[r].todo # <<>>
        /\ run[r] \in RunRows /\ run[r].status \in Active
        /\ PageKeys(r) \subseteq Keys
        /\ \A k \in PageKeys(r) : PageVersion(r, k[2]) \in Nat
    BY PageFacts
  <1>2. /\ w \in WorkRows /\ w.todo = work[r].todo /\ w.got = <<>> /\ w.page = work[r].page
        /\ w.incomplete = work[r].incomplete
    BY <1>1, EmptySeq DEF WorkRows
  <1>3. /\ local \in WorkRows /\ (local.at \in WithRepository => local.todo # <<>>)
        /\ local.got = <<>>
    <2> DEFINE full == Len(work[r].got) = PageSize
               last == [w EXCEPT !.incomplete = @ \/ full, !.todo = Tail(@), !.page = 1,
                                 !.at = IF Len(w.todo) = 1 THEN "reconcile" ELSE "snapshot"]
               next == [w EXCEPT !.at = "request", !.page = @ + 1]
    <2>1. CASE full /\ w.page < MaxPages
      <3>1. local = next
        BY <2>1, <1>2 DEF AfterPage
      <3>2. w.page + 1 \in 1 .. MaxPages
        <4>1. w.page \in 1 .. MaxPages /\ MaxPages \in Nat
          BY <1>2, SyncAssumption DEF WorkRows
        <4> HIDE DEF w
        <4> QED  BY <2>1, <4>1
      <3>3. next \in WorkRows /\ next.todo = w.todo /\ next.got = w.got
        BY <1>2, <3>2 DEF WorkRows, Places
      <3> QED  BY <1>1, <1>2, <3>1, <3>3
    <2>2. CASE ~(full /\ w.page < MaxPages)
      <3>1. local = last
        BY <2>2, <1>2 DEF AfterPage
      <3>2. Tail(w.todo) \in Seq(Repos) /\ (Len(w.todo) # 1 => Tail(w.todo) # <<>>)
        <4>1. w.todo \in Seq(Repos) /\ w.todo # <<>>
          BY <1>1, <1>2 DEF WorkRows
        <4>2. /\ Tail(w.todo) \in Seq(Repos) /\ Len(Tail(w.todo)) = Len(w.todo) - 1
              /\ Len(w.todo) \in Nat /\ Len(<<>>) = 0
          BY <4>1, HeadTailProperties, LenProperties, EmptySeq
        <4>3. \A m \in Nat : 0 = m - 1 => m = 1
          OBVIOUS
        <4> QED  BY <4>2, <4>3, Zenon
      <3> DEFINE incomplete == w.incomplete \/ full
                 rest == Tail(w.todo)
                 at == IF Len(w.todo) = 1 THEN "reconcile" ELSE "snapshot"
      <3>3. 1 \in 1 .. MaxPages /\ incomplete \in BOOLEAN
        BY <1>2, SyncAssumption DEF WorkRows
      <3>4. at \in {"reconcile", "snapshot"} /\ (at = "snapshot" => rest # <<>>)
        <4> HIDE DEF w
        <4> QED  BY <3>2
      <3>5. last = [w EXCEPT !.incomplete = incomplete, !.todo = rest, !.page = 1, !.at = at]
        OBVIOUS
      <3> HIDE DEF full, w, incomplete, rest, at, last
      <3>6. rest \in Seq(Repos)
        BY <3>2, Zenon DEF rest
      <3>7. last \in WorkRows /\ last.todo = rest /\ last.got = w.got /\ last.at = at
        BY <1>2, <3>3, <3>4, <3>5, <3>6 DEF WorkRows, Places
      <3> QED  BY <1>2, <3>1, <3>4, <3>7 DEF WithRepository
    <2> QED  BY <2>1, <2>2
  <1> HIDE DEF local, w
  <1>4. work' = [work EXCEPT ![r] = local] /\ items' = PersistRows(r)
        /\ UNCHANGED <<account, run, github, edits, known>>
    BY DEF PersistPage, local
  <1>5. WorkersTyped' /\ RunsSound'
    <2>1. Len(local.got) <= PageSize
      BY <1>3, SyncAssumption, EmptySeq
    <2> QED  BY <1>1, <1>3, <1>4, <2>1, WorkerMove
  <1>6. items' \in [Accounts -> [Keys -> Seq(ItemRows)]]
    <2>1. items \in [Accounts -> [Keys -> Seq(ItemRows)]] /\ a \in Accounts
      BY <1>1 DEF SyncInv, TablesTyped, RunRows
    <2>2. \A k \in PageKeys(r) :
              Recorded(r, items[a][k], PageVersion(r, k[2])) \in Seq(ItemRows)
      BY <1>1, <2>1, RecordedTyped
    <2> QED  BY <1>4, <2>1, <2>2 DEF PersistRows
  <1> QED  BY <1>4, <1>5, <1>6 DEF SyncInv, TablesTyped, OutsideTyped

Ends(r) ==
    Complete(r) \/ EndIncomplete(r) \/ Drift(r) \/ Fail(r) \/ HitCeiling(r) \/ FailIdentity(r)

\* However a run ends, its worker was busy, is done afterwards and settles the run.
LEMMA EndFacts ==
    ASSUME SyncInv, NEW r \in Runs, Ends(r)
    PROVE  /\ work[r].at \in Working /\ Done(r)
           /\ UNCHANGED <<github, edits, known>>
           /\ \/ items' = Reconciled(r) /\ Settle(r, "succeeded")
              \/ UNCHANGED items /\ \E status \in {"incomplete", "failed"} : Settle(r, status)
  <1>1. CASE Complete(r)
    BY <1>1 DEF Complete, Step, Working, Places
  <1>2. CASE EndIncomplete(r)
    BY <1>2 DEF EndIncomplete, Step, Working, Places
  <1>3. CASE Drift(r)
    BY <1>3 DEF Drift, Step, Working, Places
  <1>4. CASE Fail(r)
    BY <1>4 DEF Fail, CredentialLost, TransportFails, AnswerUnusable, Step, Working, Places
  <1>5. CASE HitCeiling(r)
    BY <1>5 DEF HitCeiling, Ceilings, Working, Places
  <1>6. CASE FailIdentity(r)
    BY <1>6 DEF FailIdentity, Refused, TransportFails, Step, Working, Places
  <1> QED  BY <1>1, <1>2, <1>3, <1>4, <1>5, <1>6 DEF Ends

\* What reconciliation does to the histories of an account.
LEMMA ReconciledTyped ==
    ASSUME SyncInv, NEW r \in Runs
    PROVE  Reconciled(r) \in [Accounts -> [Keys -> Seq(ItemRows)]]
  <1> DEFINE a == run[r].account
             restate(k) == Has(a, k) /\ Latest(a, k).scope = run[r].scope
             word(k) == IF k \in work[r].observed THEN "current" ELSE "stale"
             told == [k \in Keys |-> IF restate(k)
                         THEN [items[a][k] EXCEPT ![Len(items[a][k])].state = word(k)]
                         ELSE items[a][k]]
  <1>1. items \in [Accounts -> [Keys -> Seq(ItemRows)]] /\ a \in Accounts
    BY DEF SyncInv, TablesTyped, RunRows
  <1>2. ASSUME NEW k \in Keys, restate(k)
        PROVE  [items[a][k] EXCEPT ![Len(items[a][k])].state = word(k)] \in Seq(ItemRows)
    <2>1. items[a][k] # <<>> /\ word(k) \in {"current", "stale"} /\ items[a][k] \in Seq(ItemRows)
      BY <1>1, <1>2 DEF Has
    <2> HIDE DEF word
    <2> QED  BY <2>1, RestatedTyped
  <1>3. told \in [Keys -> Seq(ItemRows)]
    <2> HIDE DEF restate, word, a
    <2> QED  BY <1>1, <1>2
  <1>4. Reconciled(r) = [items EXCEPT ![a] = told]
    BY DEF Reconciled
  <1> HIDE DEF told
  <1> QED  BY <1>1, <1>3, <1>4

LEMMA EndSound ==
    ASSUME SyncInv, NEW r \in Runs, Ends(r)
    PROVE  SyncInv'
  <1>1. PICK status \in Terminal : Settle(r, status)
    BY EndFacts DEF Terminal
  <1>2. WorkersTyped' /\ RunsSound' /\ run' \in [Runs -> RunRows]
    BY <1>1, EndFacts, WorkerEnds
  <1>3. account' \in [Accounts -> AccountRows]
    <2>1. account \in [Accounts -> AccountRows] /\ run[r].account \in Accounts
      BY DEF SyncInv, TablesTyped, RunRows
    <2>2. CASE FailIdentity(r)
      <3> DEFINE a == run[r].account
                 row == [Edited(a) EXCEPT !.life = "disabled", !.val = "invalid"]
      <3>1. Edited(a) \in AccountRows
        BY <2>1 DEF Edited, AccountRows
      <3>2. row \in AccountRows
        BY <3>1 DEF AccountRows
      <3>3. account' = account \/ account' = [account EXCEPT ![a] = row]
        BY <2>2 DEF FailIdentity, FenceAccount
      <3> HIDE DEF row
      <3> QED  BY <2>1, <3>2, <3>3
    <2>3. CASE ~FailIdentity(r)
      <3>1. UNCHANGED account
        BY <2>3 DEF Ends, Complete, EndIncomplete, Drift, Fail, HitCeiling
      <3> QED  BY <2>1, <3>1
    <2> QED  BY <2>2, <2>3
  <1>4. items' \in [Accounts -> [Keys -> Seq(ItemRows)]]
    <2>1. items \in [Accounts -> [Keys -> Seq(ItemRows)]]
      BY DEF SyncInv, TablesTyped
    <2> QED  BY <2>1, ReconciledTyped, EndFacts
  <1>5. UNCHANGED <<github, edits, known>>
    BY EndFacts
  <1> QED  BY <1>2, <1>3, <1>4, <1>5 DEF SyncInv, TablesTyped, OutsideTyped

LEMMA WorkerSound ==
    ASSUME SyncInv, NEW r \in Runs, WorkerStep(r)
    PROVE  SyncInv'
  <1>1. \/ Start(r) \/ MarkValid(r) \/ PersistRepository(r) \/ PersistPage(r) \/ Ends(r)
        \/ ReadUser(r) \/ ReadRepository(r) \/ ReadAccount(r) \/ ReadPage(r)
    BY DEF WorkerStep, Ends
  <1> QED  BY <1>1, StartSound, MarkValidSound, PersistRepositorySound, PersistPageSound,
              EndSound, ReadsSound

LEMMA NextSound == SyncInv /\ [Next]_syncVars => SyncInv'
  <1> SUFFICES ASSUME SyncInv, [Next]_syncVars PROVE SyncInv'
    OBVIOUS
  <1>1. CASE UNCHANGED syncVars
    BY <1>1 DEF syncVars, SyncInv, TablesTyped, OutsideTyped, WorkersTyped, RunsSound,
                WorkersHoldRuns, OneActive
  <1>2. CASE Next
    <2>1. \/ \E a \in Accounts : Configure(a)
          \/ \E r \in Runs, a \in Accounts, t \in {"manual", "scheduled"} : Begin(r, a, t)
          \/ \E r \in Runs : WorkerStep(r) \/ Crash(r) \/ Resume(r)
          \/ GitHubStep
      BY <1>2 DEF Next
    <2> QED  BY <2>1, ConfigureSound, BeginSound, WorkerSound, MovesSound, GitHubSound
  <1> QED  BY <1>1, <1>2

LEMMA SyncInvariant == Spec => []SyncInv
  BY InitSound, NextSound, PTL DEF Spec

\* Every table and every worker keeps its shape, whatever the interleaving of operators,
\* refreshes, crashes and GitHub.
THEOREM SyncTypes == Spec => []TypeOK
  <1>1. SyncInv => TypeOK
    BY DEF SyncInv, TablesTyped, OutsideTyped, WorkersTyped, WorkRows, GitHubRows, TypeOK
  <1> QED  BY <1>1, SyncInvariant, PTL

\* uq_connector_sync_runs_one_active_account and has_active_sync_run: an account never has
\* two runs that may write, and a worker that may write holds one of them.
THEOREM OneActiveRun == Spec => []RunsSound
  <1>1. SyncInv => RunsSound
    BY DEF SyncInv
  <1> QED  BY <1>1, SyncInvariant, PTL

-----------------------------------------------------------------------------
(* The refresh implements SyncPromise: a claim opens a run, a page that    *)
(* adds revisions shows items, and the end of a run closes it.             *)

LEMMA LastTyped ==
    ASSUME NEW rows \in Seq(ItemRows), rows # <<>>
    PROVE  Last(rows) \in ItemRows
  <1>1. Len(rows) \in 1 .. Len(rows)
    BY EmptySeq, LenProperties
  <1> QED  BY <1>1, ElementOfSeq DEF Last

LEMMA OpenRunIs ==
    ASSUME SyncInv, NEW r \in Runs, run[r].status \in Active
    PROVE  OpenRun[run[r].account] = r /\ r # 0
  <1> DEFINE a == run[r].account
  <1>1. a \in Accounts /\ ActiveRuns(a) = {r}
    BY DEF SyncInv, TablesTyped, RunRows, RunsSound, OneActive, ActiveRuns
  <1>2. r # 0
    BY ConnectorsAssumption DEF Runs
  <1>3. AnyOf({r}) = r
    BY DEF AnyOf
  <1> HIDE DEF a
  <1> QED  BY <1>1, <1>2, <1>3 DEF a, OpenRun

\* What a history says of its item.
LEMMA ViewIs ==
    ASSUME SyncInv
    PROVE  /\ View \in [Accounts -> [Keys -> {"unknown", "current", "stale"}]]
           /\ \A a \in Accounts, k \in Keys : View[a][k] = "unknown" <=> items[a][k] = <<>>
  <1> SUFFICES ASSUME NEW a \in Accounts, NEW k \in Keys
               PROVE  /\ View[a][k] \in {"unknown", "current", "stale"}
                      /\ View[a][k] = "unknown" <=> items[a][k] = <<>>
    BY DEF View
  <1> DEFINE rows == items[a][k]
  <1>1. rows \in Seq(ItemRows)
    BY DEF SyncInv, TablesTyped
  <1>2. CASE rows = <<>>
    BY <1>2 DEF View, Has
  <1>3. CASE rows # <<>>
    <2>1. Last(rows) \in ItemRows
      BY <1>1, <1>3, LastTyped
    <2>2. View[a][k] = Last(rows).state
      BY <1>3 DEF View, Has, Latest
    <2> QED  BY <1>3, <2>1, <2>2 DEF ItemRows
  <1> QED  BY <1>2, <1>3

\* A step that opens, closes and shows nothing stutters.
LEMMA Stutters ==
    ASSUME UNCHANGED items,
           \A r \in Runs : /\ run'[r].account = run[r].account
                           /\ run'[r].complete = run[r].complete
                           /\ run'[r].status \in Active <=> run[r].status \in Active
                           /\ run'[r].status = "none" <=> run[r].status = "none"
    PROVE  UNCHANGED <<OpenRun, UsedRuns, WholeRuns, View>>
  <1>1. \A a \in Accounts : ActiveRuns(a)' = ActiveRuns(a)
    BY DEF ActiveRuns
  <1>2. UNCHANGED OpenRun
    BY <1>1 DEF OpenRun
  <1>3. UNCHANGED UsedRuns /\ UNCHANGED WholeRuns
    BY DEF UsedRuns, WholeRuns
  <1>4. UNCHANGED View
    BY DEF View, Has, Latest
  <1> QED  BY <1>2, <1>3, <1>4

LEMMA BeginOpens ==
    ASSUME SyncInv, SyncInv', NEW r \in Runs, NEW a \in Accounts,
           NEW trigger \in {"manual", "scheduled"}, Begin(r, a, trigger)
    PROVE  Promise!Open(a, r)
  <1>1. /\ run' = [run EXCEPT ![r] = [status |-> "claimed", account |-> a,
               rev |-> account[a].rev, scope |-> account[a].scope,
               trigger |-> trigger, complete |-> FALSE]]
        /\ run[r].status = "none" /\ ActiveRuns(a) = {} /\ UNCHANGED items
    BY DEF Begin, Claim, NextRun, Claimable
  <1>2. /\ run'[r].status = "claimed" /\ run'[r].account = a /\ ~run'[r].complete
        /\ \A q \in Runs \ {r} : run'[q] = run[q]
    BY <1>1 DEF SyncInv, TablesTyped
  <1>3. ~run[r].complete
    BY <1>1 DEF SyncInv, RunsSound, WorkersHoldRuns
  <1>4. OpenRun[a] = 0
    BY <1>1 DEF OpenRun, AnyOf
  <1>5. OpenRun' = [OpenRun EXCEPT ![a] = r]
    <2>1. ActiveRuns(a)' = {r}
      BY <1>1, <1>2 DEF ActiveRuns, Active
    <2>2. ASSUME NEW b \in Accounts \ {a} PROVE ActiveRuns(b)' = ActiveRuns(b)
      BY <1>1, <1>2 DEF ActiveRuns, Active
    <2>3. AnyOf({r}) = r
      BY DEF AnyOf
    <2> QED  BY <2>1, <2>2, <2>3 DEF OpenRun
  <1>6. r \notin UsedRuns /\ UsedRuns' = UsedRuns \cup {r}
    BY <1>1, <1>2 DEF UsedRuns
  <1>7. WholeRuns' = WholeRuns
    BY <1>2, <1>3 DEF WholeRuns
  <1>8. View' = View
    BY <1>1 DEF View, Has, Latest
  <1> QED  BY <1>4, <1>5, <1>6, <1>7, <1>8 DEF Promise!Open

LEMMA PageShows ==
    ASSUME SyncInv, NEW r \in Runs, PersistPage(r)
    PROVE  Promise!Show(run[r].account,
                        {k \in PageKeys(r) : items'[run[r].account][k] # items[run[r].account][k]})
  <1> DEFINE a == run[r].account
             page == {k \in PageKeys(r) : items'[a][k] # items[a][k]}
             shown == [k \in Keys |-> IF k \in page THEN "current" ELSE View[a][k]]
  <1>1. /\ run[r] \in RunRows /\ run[r].status \in Active /\ PageKeys(r) \subseteq Keys
        /\ \A k \in PageKeys(r) : PageVersion(r, k[2]) \in Nat
        /\ items' = PersistRows(r) /\ UNCHANGED run
    BY PageFacts DEF PersistPage
  <1>2. items \in [Accounts -> [Keys -> Seq(ItemRows)]] /\ a \in Accounts
    BY <1>1 DEF SyncInv, TablesTyped, RunRows
  <1>3. OpenRun[a] # 0
    BY <1>1, OpenRunIs
  <1>4. UNCHANGED <<OpenRun, UsedRuns, WholeRuns>>
    BY <1>1 DEF OpenRun, ActiveRuns, UsedRuns, WholeRuns
  <1>5. /\ \A b \in Accounts \ {a} : items'[b] = items[b]
        /\ \A k \in Keys : items'[a][k] = IF k \in PageKeys(r)
               THEN Recorded(r, items[a][k], PageVersion(r, k[2])) ELSE items[a][k]
    BY <1>1, <1>2 DEF PersistRows
  <1>6. ASSUME NEW k \in page
        PROVE  items'[a][k] # <<>> /\ Last(items'[a][k]).state = "current"
    <2>1. k \in Keys /\ k \in PageKeys(r) /\ items'[a][k] # items[a][k]
      BY <1>1
    <2>2. items'[a][k] = Recorded(r, items[a][k], PageVersion(r, k[2]))
      BY <1>5, <2>1
    <2>3. items[a][k] \in Seq(ItemRows) /\ PageVersion(r, k[2]) \in Nat
      BY <1>1, <1>2, <2>1
    <2> DEFINE rows == items[a][k]
               new == Recorded(r, rows, PageVersion(r, k[2]))
    <2>4. new = rows \/ (new # <<>> /\ Last(new).state = "current")
      BY <1>1, <2>3, RecordedTyped, Zenon
    <2> HIDE DEF rows, new
    <2>5. items'[a][k] = new /\ items'[a][k] # rows
      BY <2>1, <2>2 DEF rows, new
    <2> QED  BY <2>4, <2>5
  <1>7. \A k \in Keys \ page : items'[a][k] = items[a][k]
    BY <1>5
  <1> HIDE DEF page, a
  <1>8. View'[a] = shown
    <2>1. ASSUME NEW k \in Keys PROVE View'[a][k] = shown[k]
      <3>1. CASE k \in page
        BY <1>2, <1>6, <3>1 DEF View, Has, Latest
      <3>2. CASE k \notin page
        BY <1>2, <1>7, <3>2 DEF View, Has, Latest
      <3> QED  BY <3>1, <3>2
    <2> QED  BY <1>2, <2>1 DEF View
  <1>9. \A b \in Accounts \ {a} : View'[b] = View[b]
    BY <1>5 DEF View, Has, Latest
  <1> HIDE DEF shown
  <1>10. View' = [View EXCEPT ![a] = shown]
    <2>1. View = [b \in Accounts |-> View[b]] /\ View' = [b \in Accounts |-> View'[b]]
      BY DEF View
    <2> HIDE DEF View
    <2> QED  BY <1>2, <1>8, <1>9, <2>1
  <1> QED  BY <1>2, <1>3, <1>4, <1>10 DEF Promise!Show, shown, page, a

\* The end of a run frees its account and counts the run among the complete ones only
\* when it succeeded.
LEMMA EndFrees ==
    ASSUME SyncInv, NEW r \in Runs, run[r].status \in Active,
           NEW status \in Terminal, Settle(r, status)
    PROVE  /\ OpenRun' = [OpenRun EXCEPT ![run[r].account] = 0]
           /\ UsedRuns' = UsedRuns
           /\ WholeRuns' = IF status = "succeeded" THEN WholeRuns \cup {r} ELSE WholeRuns
  <1> DEFINE a == run[r].account
  <1>1. /\ run'[r].status = status /\ run'[r].complete = (status = "succeeded")
        /\ run'[r].account = a
        /\ \A q \in Runs \ {r} : run'[q] = run[q]
    BY DEF SyncInv, TablesTyped, RunRows, Settle
  <1>2. status \notin Active /\ status # "none" /\ run[r].status # "none" /\ ~run[r].complete
    BY DEF SyncInv, RunsSound, WorkersHoldRuns, Active, Terminal
  <1>3. ActiveRuns(a)' = {} /\ \A b \in Accounts \ {a} : ActiveRuns(b)' = ActiveRuns(b)
    BY <1>1, <1>2 DEF SyncInv, RunsSound, OneActive, ActiveRuns
  <1>4. OpenRun' = [OpenRun EXCEPT ![a] = 0]
    <2>1. AnyOf({}) = 0
      BY DEF AnyOf
    <2> QED  BY <1>1, <1>3, <2>1 DEF OpenRun
  <1>5. UsedRuns' = UsedRuns
    BY <1>1, <1>2 DEF UsedRuns
  <1>6. WholeRuns' = IF status = "succeeded" THEN WholeRuns \cup {r} ELSE WholeRuns
    BY <1>1, <1>2 DEF WholeRuns
  <1> QED  BY <1>4, <1>5, <1>6

\* Reconciliation forgets no item and touches one account.
LEMMA ReconciledKeeps ==
    ASSUME SyncInv, NEW r \in Runs
    PROVE  /\ \A k \in Keys : Reconciled(r)[run[r].account][k] = <<>>
                                  <=> items[run[r].account][k] = <<>>
           /\ \A b \in Accounts \ {run[r].account} : Reconciled(r)[b] = items[b]
  <1> DEFINE a == run[r].account
  <1>1. items \in [Accounts -> [Keys -> Seq(ItemRows)]] /\ a \in Accounts
    BY DEF SyncInv, TablesTyped, RunRows
  <1>2. ASSUME NEW k \in Keys, items[a][k] # <<>>
        PROVE  Reconciled(r)[a][k] # <<>>
    <2> DEFINE word == IF k \in work[r].observed THEN "current" ELSE "stale"
    <2>1. \/ Reconciled(r)[a][k] = items[a][k]
          \/ Reconciled(r)[a][k] = [items[a][k] EXCEPT ![Len(items[a][k])].state = word]
      BY <1>1 DEF Reconciled
    <2>2. word \in {"current", "stale"} /\ items[a][k] \in Seq(ItemRows)
      BY <1>1
    <2> HIDE DEF word
    <2>3. [items[a][k] EXCEPT ![Len(items[a][k])].state = word] # <<>>
      BY <1>2, <2>2, RestatedTyped
    <2> QED  BY <1>2, <2>1, <2>3
  <1>3. \A k \in Keys : items[a][k] = <<>> => Reconciled(r)[a][k] = <<>>
    BY <1>1 DEF Reconciled, Has
  <1>4. \A b \in Accounts \ {a} : Reconciled(r)[b] = items[b]
    BY <1>1 DEF Reconciled
  <1> QED  BY <1>2, <1>3, <1>4

LEMMA EndCloses ==
    ASSUME SyncInv, SyncInv', NEW r \in Runs, Ends(r)
    PROVE  Promise!CloseComplete(run[r].account) \/ Promise!CloseOther(run[r].account)
  <1> DEFINE a == run[r].account
             Words == {"unknown", "current", "stale"}
  <1>1. run[r].status \in Active
    BY EndFacts DEF SyncInv, RunsSound, WorkersHoldRuns
  <1>2. a \in Accounts /\ OpenRun[a] = r /\ r # 0
    BY <1>1, OpenRunIs DEF SyncInv, TablesTyped, RunRows
  <1>3. CASE items' = Reconciled(r) /\ Settle(r, "succeeded")
    <2>1. /\ OpenRun' = [OpenRun EXCEPT ![a] = 0] /\ UsedRuns' = UsedRuns
          /\ WholeRuns' = WholeRuns \cup {OpenRun[a]}
      BY <1>1, <1>2, <1>3, EndFrees DEF Terminal
    <2>2. /\ View \in [Accounts -> [Keys -> Words]] /\ View' \in [Accounts -> [Keys -> Words]]
      <3>1. \A b \in Accounts, k \in Keys : View'[b][k] \in Words
        <4> SUFFICES ASSUME NEW b \in Accounts, NEW k \in Keys PROVE View'[b][k] \in Words
          OBVIOUS
        <4>1. items'[b][k] \in Seq(ItemRows)
          BY DEF SyncInv, TablesTyped
        <4>2. CASE items'[b][k] = <<>>
          BY <4>2 DEF View, Has
        <4>3. CASE items'[b][k] # <<>>
          <5>1. Last(items'[b][k]) \in ItemRows
            BY <4>1, <4>3, LastTyped
          <5> QED  BY <4>3, <5>1 DEF View, Has, Latest, ItemRows
        <4> QED  BY <4>2, <4>3
      <3> QED  BY <3>1, ViewIs DEF View
    <2>3. \A k \in Keys : View'[a][k] = "unknown" <=> View[a][k] = "unknown"
      <3> SUFFICES ASSUME NEW k \in Keys PROVE View'[a][k] = "unknown" <=> View[a][k] = "unknown"
        OBVIOUS
      <3>1. View[a][k] = "unknown" <=> items[a][k] = <<>>
        BY <1>2, ViewIs
      <3>2. items'[a][k] = <<>> <=> items[a][k] = <<>>
        BY <1>3, ReconciledKeeps
      <3>3. items'[a][k] = <<>> => View'[a][k] = "unknown"
        BY <1>2 DEF View, Has
      <3>4. items'[a][k] # <<>> => View'[a][k] # "unknown"
        <4> SUFFICES ASSUME items'[a][k] # <<>> PROVE View'[a][k] # "unknown"
          OBVIOUS
        <4>1. Last(items'[a][k]) \in ItemRows
          BY <1>2, LastTyped DEF SyncInv, TablesTyped
        <4> QED  BY <1>2, <4>1 DEF View, Has, Latest, ItemRows
      <3> QED  BY <3>1, <3>2, <3>3, <3>4
    <2>4. View' = [View EXCEPT ![a] = View'[a]]
      <3>1. \A b \in Accounts \ {a} : items'[b] = items[b]
        BY <1>3, ReconciledKeeps
      <3>2. \A b \in Accounts \ {a} : View'[b] = View[b]
        BY <3>1 DEF View, Has, Latest
      <3> QED  BY <1>2, <2>2, <3>2
    <2>5. View'[a] \in [Keys -> Words]
      BY <1>2, <2>2
    <2> HIDE DEF a
    <2>6. Promise!CloseComplete(a)
      BY <1>2, <2>1, <2>3, <2>4, <2>5 DEF Promise!CloseComplete, Promise!Views
    <2> QED  BY <2>6 DEF a
  <1>4. CASE UNCHANGED items /\ \E status \in {"incomplete", "failed"} : Settle(r, status)
    <2>1. /\ OpenRun' = [OpenRun EXCEPT ![a] = 0]
          /\ UsedRuns' = UsedRuns /\ WholeRuns' = WholeRuns
      BY <1>1, <1>4, EndFrees DEF Terminal
    <2>2. View' = View
      BY <1>4 DEF View, Has, Latest
    <2> HIDE DEF a
    <2>3. Promise!CloseOther(a)
      BY <1>2, <2>1, <2>2 DEF Promise!CloseOther
    <2> QED  BY <2>3 DEF a
  <1> QED  BY <1>3, <1>4, EndFacts

\* A worker's step that is neither a page nor an end stutters.
LEMMA WorkerStutters ==
    ASSUME SyncInv, NEW r \in Runs, WorkerStep(r), ~PersistPage(r), ~Ends(r)
    PROVE  UNCHANGED <<OpenRun, UsedRuns, WholeRuns, View>>
  <1>1. CASE Start(r)
    BY <1>1, Stutters DEF Start, MarkRunning, SyncInv, TablesTyped, RunRows, Active
  <1>2. CASE ~Start(r)
    <2>1. UNCHANGED <<run, items>>
      BY <1>2 DEF WorkerStep, Ends, Go, ReadUser, ReadRepository, ReadAccount, ReadPage, MarkValid,
                  PersistRepository
    <2> QED  BY <2>1, Stutters
  <1> QED  BY <1>1, <1>2

LEMMA InitPromised == Init => Promise!PromiseInit
  <1> SUFFICES ASSUME Init PROVE Promise!PromiseInit
    OBVIOUS
  <1>1. \A r \in Runs : run[r].status = "none" /\ ~run[r].complete
    BY DEF Init, AccountsInit, NoRun
  <1>2. OpenRun = [a \in Accounts |-> 0]
    <2>1. \A a \in Accounts : ActiveRuns(a) = {}
      BY <1>1 DEF ActiveRuns, Active
    <2>2. AnyOf({}) = 0
      BY DEF AnyOf
    <2> QED  BY <2>1, <2>2 DEF OpenRun
  <1>3. UsedRuns = {} /\ WholeRuns = {}
    BY <1>1 DEF UsedRuns, WholeRuns
  <1>4. View = [a \in Accounts |-> [k \in Keys |-> "unknown"]]
    BY DEF Init, View, Has
  <1> QED  BY <1>2, <1>3, <1>4 DEF Promise!PromiseInit

LEMMA NextPromised ==
    ASSUME SyncInv, SyncInv', [Next]_syncVars
    PROVE  [Promise!PromiseNext]_(Promise!promiseVars)
  <1> DEFINE Same == UNCHANGED <<OpenRun, UsedRuns, WholeRuns, View>>
  <1>0. Same => UNCHANGED Promise!promiseVars
    BY DEF Promise!promiseVars
  <1>1. CASE UNCHANGED syncVars
    <2>1. Same
      BY <1>1, Stutters DEF syncVars
    <2> QED  BY <1>0, <2>1
  <1>2. ASSUME NEW a \in Accounts, Configure(a) PROVE Same
    BY <1>2, Stutters DEF Configure, ConfigureAccount, CreateAccount, UpdateAccount, SetLifecycle
  <1>3. ASSUME NEW r \in Runs, NEW a \in Accounts, NEW t \in {"manual", "scheduled"}, Begin(r, a, t)
        PROVE  Promise!PromiseNext
    BY <1>3, BeginOpens DEF Promise!PromiseNext
  <1>4. ASSUME NEW r \in Runs, PersistPage(r) PROVE Promise!PromiseNext
    <2>1. run[r].account \in Accounts /\ PageKeys(r) \subseteq Keys
      BY <1>4, PageFacts DEF RunRows
    <2> QED  BY <1>4, <2>1, PageShows DEF Promise!PromiseNext
  <1>5. ASSUME NEW r \in Runs, Ends(r) PROVE Promise!PromiseNext
    <2>1. run[r].account \in Accounts
      BY DEF SyncInv, TablesTyped, RunRows
    <2> QED  BY <1>5, <2>1, EndCloses DEF Promise!PromiseNext
  <1>6. ASSUME NEW r \in Runs, WorkerStep(r), ~PersistPage(r), ~Ends(r) PROVE Same
    BY <1>6, WorkerStutters
  <1>7. ASSUME NEW r \in Runs, Crash(r) \/ Resume(r) PROVE Same
    BY <1>7, Stutters DEF Crash, Resume
  <1>8. CASE GitHubStep
    <2>1. PICK removes \in BOOLEAN : Change(removes)
      BY <1>8 DEF GitHubStep, AddItem, EditItem, RemoveItem, ReplaceRepository
    <2>2. Same
      BY <2>1, Stutters DEF Change
    <2> QED  BY <1>0, <2>2
  <1> HIDE DEF Same
  <1> QED  BY <1>0, <1>1, <1>2, <1>3, <1>4, <1>5, <1>6, <1>7, <1>8 DEF Next

\* The refresh implements SyncPromise: pages, checks, crashes, resumptions and the edits
\* of operators and of GitHub never show, withdraw or infer more than the promise allows.
THEOREM RefreshKeepsPromise == Spec => KeepsPromise
  <1>1. SyncInv /\ SyncInv' /\ [Next]_syncVars => [Promise!PromiseNext]_(Promise!promiseVars)
    BY NextPromised
  <1> QED  BY <1>1, InitPromised, SyncInvariant, PTL DEF Spec, KeepsPromise, Promise!PromiseSpec

-----------------------------------------------------------------------------
(* The ledger: what the complete runs of an account say of its items.      *)

\* Runs are inserted in order, and the active run of an account is its newest.
InOrder ==
    /\ \A q, r \in Runs : q < r /\ run[r].status # "none" => run[q].status # "none"
    /\ \A q, r \in Runs : run[r].status \in Active /\ run[q].status # "none"
                          /\ run[q].account = run[r].account => q <= r

\* Run r is the last complete run of account a in scope s.
LastComplete(a, s, r) == r \in CompleteRuns(a, s) /\ \A q \in CompleteRuns(a, s) : q <= r

\* The latest revision of an item was recorded by a run of its account.  While it says
\* current, the last complete run of its scope observed the item or came before the
\* revision; once it says stale, a complete run came no earlier.
Told(a, k) ==
    LET row == Latest(a, k)
    IN  Has(a, k) =>
            /\ row.by \in Runs /\ run[row.by].status # "none" /\ run[row.by].account = a
            /\ row.state = "current" =>
                  \A r \in Runs : LastComplete(a, row.scope, r) => k \in work[r].observed \/ row.by > r
            /\ row.state = "stale" => \E r \in CompleteRuns(a, row.scope) : r >= row.by

LastKnown ==
    \A a \in Accounts, s \in Scopes :
        CompleteRuns(a, s) = {} \/ \E r \in Runs : LastComplete(a, s, r)

Ledger == InOrder /\ LastKnown /\ \A a \in Accounts, k \in Keys : Told(a, k)

LEMMA InitLedger ==
    ASSUME Init
    PROVE  Ledger
  <1>1. \A r \in Runs : run[r].status = "none" /\ ~run[r].complete
    BY DEF Init, AccountsInit, NoRun
  <1>2. \A a \in Accounts, s \in Scopes : CompleteRuns(a, s) = {}
    BY <1>1 DEF CompleteRuns
  <1>3. \A a \in Accounts, k \in Keys : ~Has(a, k)
    BY DEF Init, Has
  <1>4. InOrder
    BY <1>1 DEF InOrder, Active
  <1> QED  BY <1>2, <1>3, <1>4 DEF Ledger, LastKnown, Told

\* A step that completes no run, and keeps what the runs claimed so far hold.
RunsKept ==
    /\ \A r \in Runs : run'[r].complete = run[r].complete
    /\ \A r \in Runs : run[r].status # "none" =>
           /\ run'[r].status # "none" /\ run'[r].account = run[r].account
           /\ run'[r].scope = run[r].scope
    /\ \A r \in Runs : run[r].complete => work'[r].observed = work[r].observed

\* A step that inserts no run and opens none.
OrderKept ==
    \A r \in Runs : /\ run'[r].account = run[r].account
                    /\ run'[r].status \in Active => run[r].status \in Active
                    /\ run'[r].status = "none" <=> run[r].status = "none"

LEMMA InOrderKept ==
    ASSUME InOrder, OrderKept
    PROVE  InOrder'
  BY DEF InOrder, OrderKept

LEMMA CompleteKept ==
    ASSUME SyncInv, RunsKept, NEW a, NEW s
    PROVE  /\ CompleteRuns(a, s)' = CompleteRuns(a, s)
           /\ \A r : LastComplete(a, s, r)' = LastComplete(a, s, r)
  <1>1. \A r \in Runs : run[r].complete => run[r].status # "none"
    BY DEF SyncInv, RunsSound, WorkersHoldRuns
  <1>2. CompleteRuns(a, s)' = CompleteRuns(a, s)
    BY <1>1 DEF RunsKept, CompleteRuns
  <1> QED  BY <1>2 DEF LastComplete

\* Such a step leaves a history that it does not touch as well told as it was.
LEMMA ToldKept ==
    ASSUME SyncInv, Ledger, RunsKept, NEW a \in Accounts, NEW k \in Keys, items'[a][k] = items[a][k]
    PROVE  Told(a, k)'
  <1>1. PICK row : row = Latest(a, k)
    OBVIOUS
  <1>2. Latest(a, k)' = row /\ Has(a, k)' = Has(a, k)
    BY <1>1 DEF Latest, Has
  <1>3. CASE ~Has(a, k)
    BY <1>2, <1>3 DEF Told
  <1>4. CASE Has(a, k)
    <2>1. /\ row.by \in Runs /\ run[row.by].status # "none" /\ run[row.by].account = a
          /\ row.state = "current" =>
                \A r \in Runs : LastComplete(a, row.scope, r) => k \in work[r].observed \/ row.by > r
          /\ row.state = "stale" => \E r \in CompleteRuns(a, row.scope) : r >= row.by
      BY <1>1, <1>4 DEF Ledger, Told
    <2>2. run'[row.by].status # "none" /\ run'[row.by].account = a
      BY <2>1 DEF RunsKept
    <2>3. \A r \in Runs : LastComplete(a, row.scope, r)' =>
              LastComplete(a, row.scope, r) /\ work'[r].observed = work[r].observed
      BY CompleteKept DEF RunsKept, LastComplete, CompleteRuns
    <2>4. row.state = "stale" => \E r \in CompleteRuns(a, row.scope)' : r >= row.by
      BY <2>1, CompleteKept
    <2> QED  BY <1>2, <2>1, <2>2, <2>3, <2>4 DEF Told
  <1> QED  BY <1>3, <1>4

LEMMA QuietLedger ==
    ASSUME SyncInv, Ledger, RunsKept, InOrder', UNCHANGED items
    PROVE  Ledger'
  <1>1. LastKnown'
    BY CompleteKept DEF Ledger, LastKnown
  <1>2. \A a \in Accounts, k \in Keys : Told(a, k)'
    BY ToldKept
  <1> QED  BY <1>1, <1>2 DEF Ledger

LEMMA BeginLedger ==
    ASSUME SyncInv, Ledger, NEW r \in Runs, NEW a \in Accounts,
           NEW trigger \in {"manual", "scheduled"}, Begin(r, a, trigger)
    PROVE  Ledger'
  <1>0. PICK row : row = [status |-> "claimed", account |-> a, rev |-> account[a].rev,
                         scope |-> account[a].scope, trigger |-> trigger, complete |-> FALSE]
    OBVIOUS
  <1>1. /\ run' = [run EXCEPT ![r] = row] /\ row.status = "claimed" /\ row.account = a
        /\ row.complete = FALSE
    BY <1>0 DEF Begin, Claim
  <1>2. /\ run[r].status = "none" /\ \A q \in 1 .. (r - 1) : run[q].status # "none"
        /\ ActiveRuns(a) = {} /\ UNCHANGED items
    BY DEF Begin, Claim, NextRun, Claimable
  <1>3. run'[r] = row /\ \A q \in Runs \ {r} : run'[q] = run[q] /\ work'[q] = work[q]
    BY <1>1 DEF SyncInv, TablesTyped, WorkersTyped, Begin
  <1>4. run[r].complete = FALSE
    BY <1>2 DEF SyncInv, RunsSound, WorkersHoldRuns, TablesTyped, RunRows
  <1>5. RunsKept
    BY <1>1, <1>2, <1>3, <1>4 DEF RunsKept
  <1>6. \A q \in Runs : q \in Nat /\ (q < r => q \in 1 .. (r - 1))
    BY ConnectorsAssumption DEF Runs
  <1>7. ASSUME NEW q \in Runs, NEW p \in Runs, q < p, run'[p].status # "none"
        PROVE  run'[q].status # "none"
    <2>1. CASE q = r
      BY <1>1, <1>3, <2>1
    <2>2. CASE q # r /\ p = r
      BY <1>2, <1>3, <1>6, <1>7, <2>2
    <2>3. CASE q # r /\ p # r
      BY <1>3, <1>7, <2>3 DEF Ledger, InOrder
    <2> QED  BY <2>1, <2>2, <2>3
  <1>8. ASSUME NEW q \in Runs, NEW p \in Runs, run'[p].status \in Active, run'[q].status # "none",
               run'[q].account = run'[p].account
        PROVE  q <= p
    <2>1. CASE q = r /\ p = r
      BY <1>6, <2>1
    <2>2. CASE q = r /\ p # r
      BY <1>1, <1>2, <1>3, <1>8, <2>2 DEF ActiveRuns
    <2>3. CASE q # r /\ p = r
      <3>1. run[q].status # "none"
        BY <1>3, <1>8, <2>3
      <3>2. ~(r < q)
        BY <1>2, <3>1 DEF Ledger, InOrder
      <3> QED  BY <1>6, <2>3, <3>2
    <2>4. CASE q # r /\ p # r
      BY <1>3, <1>8, <2>4 DEF Ledger, InOrder
    <2> QED  BY <2>1, <2>2, <2>3, <2>4
  <1>9. InOrder'
    BY <1>7, <1>8 DEF InOrder
  <1> QED  BY <1>2, <1>5, <1>9, QuietLedger

\* The revision a page adds is the work of a run that came after every complete one.
LEMMA PageLedger ==
    ASSUME SyncInv, Ledger, NEW r \in Runs, PersistPage(r)
    PROVE  Ledger'
  <1>1. PICK a \in Accounts : a = run[r].account
    BY DEF SyncInv, TablesTyped, RunRows
  <1>2. /\ run[r] \in RunRows /\ run[r].status \in Active /\ PageKeys(r) \subseteq Keys
        /\ \A k \in PageKeys(r) : PageVersion(r, k[2]) \in Nat
        /\ items' = PersistRows(r) /\ UNCHANGED run
    BY PageFacts DEF PersistPage
  <1>3. ~run[r].complete /\ run[r].status # "none"
    BY <1>2 DEF SyncInv, RunsSound, WorkersHoldRuns, Active
  <1>4. \A q \in Runs \ {r} : work'[q] = work[q]
    BY DEF PersistPage, SyncInv, WorkersTyped
  <1>5. RunsKept
    BY <1>2, <1>3, <1>4 DEF RunsKept
  <1>6. InOrder'
    BY <1>2 DEF Ledger, InOrder
  <1>7. LastKnown'
    BY <1>5, CompleteKept DEF Ledger, LastKnown
  <1>8. \A b \in Accounts, k \in Keys : items'[b][k] =
            IF b = a /\ k \in PageKeys(r) THEN Recorded(r, items[a][k], PageVersion(r, k[2]))
            ELSE items[b][k]
    BY <1>1, <1>2 DEF PersistRows, SyncInv, TablesTyped
  <1>9. ASSUME NEW b \in Accounts, NEW k \in Keys
        PROVE  Told(b, k)'
    <2>1. CASE items'[b][k] = items[b][k]
      BY <1>5, <2>1, ToldKept
    <2>2. CASE items'[b][k] # items[b][k]
      <3>1. PICK row : row = [version |-> PageVersion(r, k[2]), state |-> "current",
                              scope |-> run[r].scope, by |-> r]
        OBVIOUS
      <3>2. b = a /\ items'[a][k] = Append(items[a][k], row) /\ row \in ItemRows
        BY <1>2, <1>8, <2>2, <3>1 DEF Recorded, ItemRows, RunRows
      <3>3. items[a][k] \in Seq(ItemRows)
        BY DEF SyncInv, TablesTyped
      <3>4. Latest(b, k)' = row
        BY <3>2, <3>3, AppendProperties DEF Latest, Last
      <3>5. row.by = r /\ row.state = "current" /\ row.scope = run[r].scope
        BY <3>1
      <3>6. run'[r].status # "none" /\ run'[r].account = b
        BY <1>1, <1>2, <1>3, <3>2
      <3>7. \A q \in CompleteRuns(b, run[r].scope) : r > q
        <4>1. \A q \in CompleteRuns(b, run[r].scope) : /\ q \in Runs /\ run[q].complete /\ run[q].account = a
                                                       /\ run[q].status # "none"
          BY <3>2 DEF CompleteRuns, SyncInv, RunsSound, WorkersHoldRuns
        <4>2. \A q \in CompleteRuns(b, run[r].scope) : q <= r /\ q # r
          BY <1>1, <1>2, <1>3, <4>1 DEF Ledger, InOrder
        <4>3. \A q \in Runs : q \in Nat
          BY ConnectorsAssumption DEF Runs
        <4> QED  BY <4>1, <4>2, <4>3
      <3>8. \A q \in Runs : LastComplete(b, row.scope, q)' => row.by > q
        BY <1>5, <3>5, <3>7, CompleteKept DEF LastComplete
      <3> QED  BY <3>4, <3>5, <3>6, <3>8 DEF Told
    <2> QED  BY <2>1, <2>2
  <1> QED  BY <1>6, <1>7, <1>9 DEF Ledger

\* Reconciliation touches the latest rows of the run's scope, and only their state.
LEMMA ReconciledRows ==
    ASSUME SyncInv, NEW r \in Runs, NEW a \in Accounts, NEW k \in Keys
    PROVE  IF a = run[r].account /\ Has(a, k) /\ Latest(a, k).scope = run[r].scope
           THEN /\ Reconciled(r)[a][k] # <<>>
                /\ Last(Reconciled(r)[a][k]) =
                       [Latest(a, k) EXCEPT !.state = IF k \in work[r].observed THEN "current" ELSE "stale"]
                /\ Latest(a, k) \in ItemRows
           ELSE Reconciled(r)[a][k] = items[a][k]
  <1> DEFINE rows == items[a][k]
  <1>1. items \in [Accounts -> [Keys -> Seq(ItemRows)]] /\ rows \in Seq(ItemRows)
    BY DEF SyncInv, TablesTyped
  <1>2. PICK word \in {"current", "stale"} : word = IF k \in work[r].observed THEN "current" ELSE "stale"
    OBVIOUS
  <1>3. CASE a = run[r].account /\ Has(a, k) /\ Latest(a, k).scope = run[r].scope
    <2>1. Reconciled(r)[a][k] = [rows EXCEPT ![Len(rows)].state = word]
      BY <1>1, <1>2, <1>3 DEF Reconciled
    <2>2. rows # <<>> /\ Latest(a, k) = rows[Len(rows)]
      BY <1>3 DEF Has, Latest, Last
    <2> HIDE DEF rows
    <2>3. Len(rows) \in 1 .. Len(rows) /\ rows[Len(rows)] \in ItemRows
      BY <1>1, <2>2, EmptySeq, LenProperties
    <2>4. PICK last \in ItemRows : last = [rows[Len(rows)] EXCEPT !.state = word]
      BY <2>3 DEF ItemRows
    <2>5. [rows EXCEPT ![Len(rows)].state = word] = [rows EXCEPT ![Len(rows)] = last]
      BY <2>4
    <2>6. /\ [rows EXCEPT ![Len(rows)] = last] \in Seq(ItemRows)
          /\ Len([rows EXCEPT ![Len(rows)] = last]) = Len(rows)
      BY <1>1, <2>3, <2>4, ExceptSeq
    <2>7. [rows EXCEPT ![Len(rows)] = last][Len(rows)] = last
      BY <1>1, <2>3, LenProperties
    <2>8. Last([rows EXCEPT ![Len(rows)] = last]) = last
      BY <2>6, <2>7 DEF Last
    <2>9. [rows EXCEPT ![Len(rows)] = last] # <<>>
      BY <2>3, <2>6, EmptySeq, LenProperties
    <2> QED  BY <1>2, <1>3, <2>1, <2>2, <2>3, <2>4, <2>5, <2>8, <2>9
  <1>4. CASE ~(a = run[r].account /\ Has(a, k) /\ Latest(a, k).scope = run[r].scope)
    BY <1>1, <1>4 DEF Reconciled
  <1> QED  BY <1>3, <1>4

LEMMA CompleteLedger ==
    ASSUME SyncInv, Ledger, NEW r \in Runs, Complete(r)
    PROVE  Ledger'
  <1>1. PICK a \in Accounts, s \in Scopes : a = run[r].account /\ s = run[r].scope
    BY DEF SyncInv, TablesTyped, RunRows
  <1>2. /\ work[r].at \in Working /\ Done(r) /\ items' = Reconciled(r) /\ Settle(r, "succeeded")
    BY DEF Complete, Step, Working, Places
  <1>3. run[r].status \in Active /\ run[r].status # "none" /\ ~run[r].complete
    BY <1>2 DEF SyncInv, RunsSound, WorkersHoldRuns, Active
  <1>4. /\ run'[r].status = "succeeded" /\ run'[r].complete = TRUE /\ run'[r].account = a /\ run'[r].scope = s
        /\ \A q \in Runs \ {r} : run'[q] = run[q]
    <2>1. PICK row \in RunRows : row = run[r]
      BY DEF SyncInv, TablesTyped
    <2>2. run' = [run EXCEPT ![r] = [row EXCEPT !.status = "succeeded", !.complete = TRUE]]
      BY <1>2, <2>1 DEF Settle, SyncInv, TablesTyped, RunRows
    <2>3. run'[r] = [row EXCEPT !.status = "succeeded", !.complete = TRUE]
      BY <2>2 DEF SyncInv, TablesTyped
    <2> QED  BY <1>1, <2>1, <2>2, <2>3 DEF RunRows, SyncInv, TablesTyped
  <1>5. /\ work'[r].observed = work[r].observed
        /\ \A q \in Runs \ {r} : work'[q] = work[q]
    <2>1. work'[r] = [Fresh EXCEPT !.at = "done", !.observed = work[r].observed]
      BY <1>2 DEF Done, SyncInv, WorkersTyped
    <2>2. work'[r].observed = work[r].observed
      BY <2>1 DEF Fresh
    <2> QED  BY <1>2, <2>2 DEF Done, SyncInv, WorkersTyped
  <1>6. /\ CompleteRuns(a, s)' = CompleteRuns(a, s) \cup {r}
        /\ \A b \in Accounts, t \in Scopes : ~(b = a /\ t = s) => CompleteRuns(b, t)' = CompleteRuns(b, t)
    BY <1>1, <1>3, <1>4 DEF CompleteRuns
  <1>7. \A q \in CompleteRuns(a, s) : q <= r /\ q \in Runs
    BY <1>1, <1>3 DEF CompleteRuns, SyncInv, RunsSound, WorkersHoldRuns, Ledger, InOrder
  <1>8. \A q \in Runs : q \in Nat /\ q <= q
    BY ConnectorsAssumption DEF Runs
  <1>9. LastComplete(a, s, r)' /\ \A q : LastComplete(a, s, q)' => q = r
    <2>1. r \in CompleteRuns(a, s)' /\ \A q \in CompleteRuns(a, s)' : q <= r /\ q \in Runs
      BY <1>6, <1>7, <1>8
    <2>2. \A q \in CompleteRuns(a, s)' : r <= q => q = r
      BY <1>8, <2>1
    <2> QED  BY <2>1, <2>2 DEF LastComplete
  <1>10. \A b \in Accounts, t \in Scopes : ~(b = a /\ t = s) =>
             \A q : LastComplete(b, t, q)' = LastComplete(b, t, q)
    BY <1>6 DEF LastComplete
  <1>11. LastKnown'
    <2>1. ASSUME NEW b \in Accounts, NEW t \in Scopes
          PROVE  CompleteRuns(b, t)' = {} \/ \E q \in Runs : LastComplete(b, t, q)'
      <3>1. CASE b = a /\ t = s
        BY <1>9, <3>1
      <3>2. CASE ~(b = a /\ t = s)
        BY <1>6, <1>10, <3>2 DEF Ledger, LastKnown
      <3> QED  BY <3>1, <3>2
    <2> QED  BY <2>1 DEF LastKnown
  <1>12. InOrder'
    <2>1. OrderKept
      BY <1>1, <1>3, <1>4 DEF OrderKept, Active
    <2> QED  BY <2>1, InOrderKept DEF Ledger
  <1>13. ASSUME NEW b \in Accounts, NEW k \in Keys, Has(b, k)'
         PROVE  Told(b, k)'
    <2>1. PICK row, new : row = Latest(b, k) /\ new = Latest(b, k)'
      OBVIOUS
    <2>2. Has(b, k)
      BY <1>2, <1>13, ReconciledRows DEF Has
    <2>3. row \in ItemRows
      BY <2>1, <2>2, LastTyped DEF SyncInv, TablesTyped, Has, Latest
    <2>4. /\ row.by \in Runs /\ run[row.by].status # "none" /\ run[row.by].account = b
          /\ row.state = "current" =>
                \A q \in Runs : LastComplete(b, row.scope, q) => k \in work[q].observed \/ row.by > q
          /\ row.state = "stale" => \E q \in CompleteRuns(b, row.scope) : q >= row.by
      BY <2>1, <2>2 DEF Ledger, Told
    <2>5. run'[row.by].status # "none" /\ run'[row.by].account = b
      BY <1>1, <1>4, <2>4
    <2>6. CASE b = a /\ row.scope = s
      <3>1. PICK word \in {"current", "stale"} : word = IF k \in work[r].observed THEN "current" ELSE "stale"
        OBVIOUS
      <3>2. new = [row EXCEPT !.state = word]
        BY <1>1, <1>2, <2>1, <2>2, <2>6, <3>1, ReconciledRows DEF Latest
      <3>3. new.by = row.by /\ new.scope = s /\ new.state = word
        BY <2>3, <2>6, <3>2 DEF ItemRows
      <3>4. row.by <= r
        BY <1>1, <1>3, <2>4, <2>6 DEF Ledger, InOrder
      <3>5. word = "stale" => \E q \in CompleteRuns(b, s)' : q >= row.by
        <4>1. r \in CompleteRuns(b, s)' /\ r >= row.by
          BY <1>6, <1>8, <2>4, <2>6, <3>4
        <4> QED  BY <4>1
      <3>6. word = "current" => \A q \in Runs : LastComplete(b, s, q)' => k \in work'[q].observed
        BY <1>5, <1>9, <2>6, <3>1
      <3> QED  BY <2>1, <2>4, <2>5, <3>3, <3>5, <3>6 DEF Told
    <2>7. CASE ~(b = a /\ row.scope = s)
      <3>1. new = row
        BY <1>1, <1>2, <2>1, <2>7, ReconciledRows DEF Latest
      <3>2. row.scope \in Scopes
        BY <2>3 DEF ItemRows
      <3>3. \A q \in Runs : LastComplete(b, row.scope, q)' =>
                LastComplete(b, row.scope, q) /\ work'[q].observed = work[q].observed
        BY <1>5, <1>10, <2>7, <3>2
      <3>4. CompleteRuns(b, row.scope)' = CompleteRuns(b, row.scope)
        BY <1>6, <2>7, <3>2
      <3> QED  BY <2>1, <2>4, <2>5, <3>1, <3>3, <3>4 DEF Told
    <2> QED  BY <2>6, <2>7
  <1>14. \A b \in Accounts, k \in Keys : Told(b, k)'
    BY <1>13 DEF Told
  <1> QED  BY <1>11, <1>12, <1>14 DEF Ledger

\* A run that ends otherwise leaves the ledger as it was.
LEMMA EndLedger ==
    ASSUME SyncInv, Ledger, NEW r \in Runs, Ends(r), ~Complete(r)
    PROVE  Ledger'
  <1>1. PICK status \in {"incomplete", "failed"} : Settle(r, status) /\ UNCHANGED items
    BY DEF Ends, EndIncomplete, Drift, Fail, HitCeiling, FailIdentity
  <1>2. work[r].at \in Working /\ Done(r)
    BY EndFacts
  <1>3. run[r].status \in Active /\ run[r].status # "none" /\ run[r].complete = FALSE
    BY <1>2 DEF SyncInv, RunsSound, WorkersHoldRuns, TablesTyped, RunRows, Active
  <1>4. /\ run'[r].status = status /\ run'[r].complete = FALSE
        /\ run'[r].account = run[r].account /\ run'[r].scope = run[r].scope
        /\ \A q \in Runs \ {r} : run'[q] = run[q]
    <2>1. PICK row \in RunRows : row = run[r]
      BY DEF SyncInv, TablesTyped
    <2>2. run' = [run EXCEPT ![r] = [row EXCEPT !.status = status, !.complete = FALSE]]
      BY <1>1, <2>1 DEF Settle, SyncInv, TablesTyped, RunRows
    <2>3. run'[r] = [row EXCEPT !.status = status, !.complete = FALSE]
      BY <2>2 DEF SyncInv, TablesTyped
    <2> QED  BY <2>1, <2>2, <2>3 DEF RunRows, SyncInv, TablesTyped
  <1>5. \A q \in Runs \ {r} : work'[q] = work[q]
    BY <1>2 DEF Done, SyncInv, WorkersTyped
  <1>6. RunsKept
    BY <1>3, <1>4, <1>5 DEF RunsKept
  <1>7. OrderKept
    BY <1>3, <1>4 DEF OrderKept, Active
  <1> QED  BY <1>1, <1>6, <1>7, InOrderKept, QuietLedger DEF Ledger

\* The steps of a worker that only read, or prepare.
LEMMA MoveLedger ==
    ASSUME SyncInv, Ledger, NEW r \in Runs,
           \/ Start(r) \/ ReadUser(r) \/ ReadRepository(r) \/ ReadAccount(r) \/ MarkValid(r)
           \/ PersistRepository(r) \/ ReadPage(r) \/ Crash(r) \/ Resume(r)
    PROVE  Ledger'
  <1>1. work[r].at \in Working \/ run[r].status \in Active
    BY DEF Start, ReadUser, ReadRepository, ReadAccount, MarkValid, PersistRepository, ReadPage,
           Crash, Resume, Step, Working, Places, SyncInv, WorkersTyped, WorkRows
  <1>2. run[r].status \in Active /\ run[r].status # "none" /\ ~run[r].complete
    BY <1>1 DEF SyncInv, RunsSound, WorkersHoldRuns, Active
  <1>3. UNCHANGED items /\ \A q \in Runs \ {r} : work'[q] = work[q] /\ run'[q] = run[q]
    BY DEF Start, MarkRunning, ReadUser, ReadRepository, ReadAccount, MarkValid, PersistRepository,
           ReadPage, Crash, Resume, Go, SyncInv, TablesTyped, WorkersTyped
  <1>4. run'[r] = run[r] \/ run'[r] = [run[r] EXCEPT !.status = "running"]
    BY DEF Start, MarkRunning, ReadUser, ReadRepository, ReadAccount, MarkValid, PersistRepository,
           ReadPage, Crash, Resume, Go, SyncInv, TablesTyped
  <1>5. /\ run'[r].complete = run[r].complete /\ run'[r].account = run[r].account
        /\ run'[r].scope = run[r].scope /\ run'[r].status \in Active
    <2>1. PICK row \in RunRows : row = run[r]
      BY DEF SyncInv, TablesTyped
    <2>2. run'[r] = row \/ run'[r] = [row EXCEPT !.status = "running"]
      BY <1>4, <2>1
    <2> QED  BY <1>2, <2>1, <2>2 DEF RunRows, Active
  <1>6. RunsKept
    BY <1>2, <1>3, <1>5 DEF RunsKept, Active
  <1>7. OrderKept
    BY <1>2, <1>3, <1>5 DEF OrderKept, Active
  <1> QED  BY <1>3, <1>6, <1>7, InOrderKept, QuietLedger DEF Ledger

LEMMA OutsideLedger ==
    ASSUME SyncInv, Ledger, (\E a \in Accounts : Configure(a)) \/ GitHubStep \/ UNCHANGED syncVars
    PROVE  Ledger'
  <1>1. /\ UNCHANGED <<run, items>>
        /\ \A r \in Runs : work'[r].observed = work[r].observed
    <2>1. CASE GitHubStep
      <3>1. PICK removes \in BOOLEAN : Change(removes)
        BY <2>1 DEF GitHubStep, AddItem, EditItem, RemoveItem, ReplaceRepository
      <3>2. ASSUME NEW r \in Runs PROVE work'[r].observed = work[r].observed
        <4>1. PICK row \in WorkRows : row = work[r]
          BY DEF SyncInv, WorkersTyped
        <4>2. work'[r] = row \/ work'[r] = [row EXCEPT !.changed = TRUE, !.removed = @ \/ removes]
          BY <3>1, <4>1 DEF Change
        <4> QED  BY <4>1, <4>2 DEF WorkRows
      <3> QED  BY <3>1, <3>2 DEF Change
    <2>2. CASE \E a \in Accounts : Configure(a)
      BY <2>2 DEF Configure, ConfigureAccount, CreateAccount, UpdateAccount, SetLifecycle
    <2>3. CASE UNCHANGED syncVars
      BY <2>3 DEF syncVars
    <2> QED  BY <2>1, <2>2, <2>3
  <1>2. RunsKept
    BY <1>1 DEF RunsKept
  <1>3. OrderKept
    BY <1>1 DEF OrderKept
  <1> QED  BY <1>1, <1>2, <1>3, InOrderKept, QuietLedger DEF Ledger

LEMMA LedgerStep ==
    ASSUME SyncInv, Ledger, [Next]_syncVars
    PROVE  Ledger'
  <1>1. ASSUME NEW r \in Runs, WorkerStep(r) PROVE Ledger'
    BY <1>1, MoveLedger, PageLedger, CompleteLedger, EndLedger DEF WorkerStep, Ends
  <1> QED  BY <1>1, BeginLedger, MoveLedger, OutsideLedger DEF Next

LEMMA LedgerInvariant == Spec => []Ledger
  <1>1. SyncInv /\ Ledger /\ [Next]_syncVars => Ledger'
    BY LedgerStep
  <1> QED  BY <1>1, InitLedger, SyncInvariant, PTL DEF Spec

\* The greatest of the complete runs, as _confirmed_through takes it.
LEMMA ConfirmedIsLast ==
    ASSUME Ledger, NEW a \in Accounts, NEW k \in Keys, Latest(a, k).scope \in Scopes, ConfirmedBy(a, k) # 0
    PROVE  Latest(a, k).state = "current" /\ LastComplete(a, Latest(a, k).scope, ConfirmedBy(a, k))
  <1>1. PICK C : C = CompleteRuns(a, Latest(a, k).scope)
    OBVIOUS
  <1>2. Latest(a, k).state = "current" /\ ConfirmedBy(a, k) = Max({0} \cup C)
    BY <1>1 DEF ConfirmedBy
  <1>3. \A q \in C : q \in Nat /\ q > 0
    BY <1>1, ConnectorsAssumption DEF CompleteRuns, Runs
  <1>4. C = {} \/ \E r \in C : \A q \in C : q <= r
    BY <1>1 DEF Ledger, LastKnown, LastComplete
  <1>5. \E x \in {0} \cup C : \A y \in {0} \cup C : x >= y
    <2>1. CASE C = {}
      BY <2>1
    <2>2. CASE C # {}
      <3>1. PICK r \in C : \A q \in C : q <= r
        BY <1>4, <2>2
      <3>2. \A y \in {0} \cup C : r >= y
        BY <1>3, <3>1
      <3> QED  BY <3>2
    <2> QED  BY <2>1, <2>2
  <1>6. Max({0} \cup C) \in {0} \cup C /\ \A y \in {0} \cup C : Max({0} \cup C) >= y
    BY <1>5 DEF Max
  <1>7. ConfirmedBy(a, k) \in C /\ \A q \in C : ConfirmedBy(a, k) >= q
    BY <1>2, <1>6
  <1>8. \A q \in C : q <= ConfirmedBy(a, k)
    BY <1>3, <1>7
  <1> QED  BY <1>1, <1>2, <1>7, <1>8 DEF LastComplete

\* What is shown as confirmed present through a run was observed by that run, or recorded
\* by a later one, and an item is shown stale only after a complete run of its own scope
\* that came no earlier than its latest revision (query.py, reconcile_latest_items).
THEOREM ConfirmedSeen == Spec => []ConfirmedItemsSeen
  <1>1. SyncInv /\ Ledger => ConfirmedItemsSeen
    <2> SUFFICES ASSUME SyncInv, Ledger, NEW a \in Accounts, NEW k \in Shown(a)
                 PROVE  /\ ConfirmedBy(a, k) # 0 =>
                              k \in work[ConfirmedBy(a, k)].observed \/ Latest(a, k).by > ConfirmedBy(a, k)
                        /\ Latest(a, k).state = "stale" =>
                              \E r \in CompleteRuns(a, Latest(a, k).scope) : r >= Latest(a, k).by
      BY DEF ConfirmedItemsSeen
    <2>1. k \in Keys /\ Has(a, k)
      BY DEF Shown
    <2>2. Latest(a, k).scope \in Scopes
      BY <2>1, LastTyped DEF SyncInv, TablesTyped, Has, Latest, ItemRows
    <2>3. Told(a, k)
      BY <2>1 DEF Ledger
    <2>4. ASSUME ConfirmedBy(a, k) # 0
          PROVE  k \in work[ConfirmedBy(a, k)].observed \/ Latest(a, k).by > ConfirmedBy(a, k)
      <3>1. /\ Latest(a, k).state = "current" /\ LastComplete(a, Latest(a, k).scope, ConfirmedBy(a, k))
        BY <2>1, <2>2, <2>4, ConfirmedIsLast
      <3>2. ConfirmedBy(a, k) \in Runs
        BY <3>1 DEF LastComplete, CompleteRuns
      <3> QED  BY <2>1, <2>3, <3>1, <3>2 DEF Told
    <2> QED  BY <2>1, <2>3, <2>4 DEF Told
  <1> QED  BY <1>1, LedgerInvariant, SyncInvariant, PTL

-----------------------------------------------------------------------------
(* The readings: what a worker has read of lists that change under it.     *)

Allowed(r) == account[run[r].account].allow

\* Repository p lists item i after its first `from` items.
ListedAfter(p, i, from) == \E j \in DOMAIN github[p].list : github[p].list[j] = i /\ j > from

\* The items before the page the worker of r asks for.
From(r) == (work[r].page - 1) * PageSize

Preparing == {"user", "repository", "validate", "mark"}

Reading == {"snapshot", "request", "persist"}

\* Item k is listed, and the worker of r has still to come to it.
ToCome(r, k) ==
    \/ work[r].at \in Preparing /\ k \in Listed
    \/ work[r].at = "snapshot" /\ k[1] \in ToSet(work[r].todo) /\ k \in Listed
    \/ work[r].at \in {"request", "persist"} /\ k[1] \in ToSet(Tail(work[r].todo)) /\ k \in Listed
    \/ work[r].at = "request" /\ k[1] = Head(work[r].todo) /\ ListedAfter(k[1], k[2], From(r))
    \/ work[r].at = "persist" /\ k \in PageKeys(r)
    \/ /\ work[r].at = "persist" /\ k[1] = Head(work[r].todo)
       /\ Len(work[r].got) = PageSize /\ ListedAfter(k[1], k[2], From(r) + PageSize)

\* While nothing was removed, an item of the allowlist that was there at the start was
\* observed or is to come, unless the run is incomplete.
Ahead(r) ==
    ~work[r].removed => \A k \in Keys \ work[r].absent :
        k[1] \in Allowed(r) => k \in work[r].observed \/ work[r].incomplete \/ ToCome(r, k)

\* Item k is listed, allowed and recorded with the version GitHub has.
Exact(r, k) ==
    /\ k \in Listed /\ k[1] \in Allowed(r) /\ Has(run[r].account, k)
    /\ Latest(run[r].account, k).version = github[k[1]].version[k[2]]

PageKey(r, j) == <<Head(work[r].todo), work[r].got[j].item>>

\* What the page says is what GitHub says.
PageTrue(r) ==
    work[r].at = "persist" => \A j \in DOMAIN work[r].got :
        /\ PageKey(r, j) \in Listed
        /\ work[r].got[j].version = github[PageKey(r, j)[1]].version[PageKey(r, j)[2]]

\* While nothing has changed, what was read is what GitHub says.
Faithful(r) ==
    ~work[r].changed =>
        /\ work[r].absent = Keys \ Listed
        /\ \A k \in work[r].observed : Exact(r, k)
        /\ PageTrue(r)

\* A worker reads the repositories of the allowlist.
Follows(r) ==
    /\ work[r].at = "captured" => work[r] = Fresh
    /\ work[r].at \in Started =>
           /\ work[r].removed => work[r].changed
           /\ work[r].at \in Reading => ToSet(work[r].todo) \subseteq Allowed(r)
           /\ Ahead(r) /\ Faithful(r)

\* The page a worker is about to store is no newer than GitHub and no older than the ledger.
PageNew(r) ==
    work[r].at = "persist" => \A j \in DOMAIN work[r].got :
        LET k == PageKey(r, j)
        IN  /\ work[r].got[j].version <= github[k[1]].version[k[2]]
            /\ Has(run[r].account, k) => Latest(run[r].account, k).version <= work[r].got[j].version

\* The latest revision of an item has its newest version, and GitHub's is no older.
Newest ==
    \A a \in Accounts, k \in Keys : Has(a, k) =>
        /\ Latest(a, k).version <= github[k[1]].version[k[2]]
        /\ \A n \in DOMAIN items[a][k] : items[a][k][n].version <= Latest(a, k).version

Existing == \A r \in Runs : run[r].status \in Active => account[run[r].account].life # "absent"

Readings == Existing /\ Newest /\ \A r \in Runs : PageNew(r) /\ Follows(r)

LEMMA InitReadings ==
    ASSUME Init
    PROVE  Readings
  <1>1. \A r \in Runs : run[r].status = "none" /\ work[r].at = "none"
    BY DEF Init, AccountsInit, NoRun, Fresh
  <1>2. \A r \in Runs : PageNew(r) /\ Follows(r)
    BY <1>1 DEF PageNew, Follows, Started, Places
  <1>3. Newest
    BY DEF Init, Newest, Has
  <1> QED  BY <1>1, <1>2, <1>3 DEF Readings, Existing, Active

\* A busy worker's run is active, with the account and its allowlist of the claim.
LEMMA BusyFacts ==
    ASSUME SyncInv, NEW r \in Runs, work[r].at \in Working
    PROVE  /\ work[r] \in WorkRows /\ run[r] \in RunRows /\ run[r].status \in Active
           /\ run[r].account \in Accounts
           /\ \A q \in Runs : run[q].status \in Active /\ run[q].account = run[r].account => q = r
  BY DEF SyncInv, WorkersTyped, TablesTyped, RunRows, RunsSound, WorkersHoldRuns, OneActive

\* The first repository of a worker that is busy with one.
LEMMA HeadTyped ==
    ASSUME SyncInv, NEW r \in Runs, work[r].at \in WithRepository
    PROVE  /\ work[r].todo \in Seq(Repos) /\ Head(work[r].todo) \in Repos
           /\ Head(work[r].todo) \in ToSet(work[r].todo)
           /\ Tail(work[r].todo) \in Seq(Repos)
           /\ ToSet(work[r].todo) = {Head(work[r].todo)} \cup ToSet(Tail(work[r].todo))
           /\ Len(work[r].todo) = 1 => ToSet(Tail(work[r].todo)) = {}
  <1>1. PICK todo \in Seq(Repos) : todo = work[r].todo /\ todo # <<>>
    BY DEF SyncInv, WorkersTyped, WorkRows
  <1>2. /\ Head(todo) = todo[1] /\ Head(todo) \in Repos /\ Tail(todo) \in Seq(Repos)
        /\ Len(Tail(todo)) = Len(todo) - 1
        /\ \A j \in 1 .. Len(Tail(todo)) : Tail(todo)[j] = todo[j + 1]
    BY <1>1, HeadTailProperties
  <1>3. Len(todo) \in Nat /\ Len(todo) > 0 /\ DOMAIN todo = 1 .. Len(todo)
        /\ DOMAIN Tail(todo) = 1 .. (Len(todo) - 1)
    BY <1>1, <1>2, EmptySeq, LenProperties
  <1>4. PICK L \in Nat : L = Len(todo) /\ L > 0
    BY <1>3
  <1>5. PICK rest \in Seq(Repos) : rest = Tail(todo)
    BY <1>2
  <1>6. DOMAIN todo = 1 .. L /\ DOMAIN rest = 1 .. (L - 1) /\ \A j \in 1 .. (L - 1) : rest[j] = todo[j + 1]
    BY <1>2, <1>3, <1>4, <1>5
  <1>7. todo[1] \in ToSet(todo)
    BY <1>4, <1>6 DEF ToSet
  <1>8. \A p \in ToSet(rest) : p \in ToSet(todo)
    <2>1. \A j \in 1 .. (L - 1) : j + 1 \in 1 .. L
      BY <1>4
    <2> QED  BY <1>6, <2>1 DEF ToSet
  <1>9. \A p \in ToSet(todo) : p = todo[1] \/ p \in ToSet(rest)
    <2> SUFFICES ASSUME NEW j \in 1 .. L, j # 1  PROVE  todo[j] \in ToSet(rest)
      BY <1>6 DEF ToSet
    <2>1. PICK i \in 1 .. (L - 1) : i + 1 = j
      <3>1. j - 1 \in 1 .. (L - 1) /\ (j - 1) + 1 = j
        BY <1>4
      <3> QED  BY <3>1
    <2>2. rest[i] = todo[j]
      BY <1>6, <2>1
    <2> QED  BY <1>6, <2>2 DEF ToSet
  <1>10. L = 1 => ToSet(rest) = {}
    <2>1. L = 1 => DOMAIN rest = {}
      BY <1>6
    <2> QED  BY <2>1 DEF ToSet
  <1> QED  BY <1>1, <1>2, <1>4, <1>5, <1>7, <1>8, <1>9, <1>10

\* The page of a worker, row by row.
LEMMA PageRowTyped ==
    ASSUME SyncInv, NEW r \in Runs, NEW j \in DOMAIN work[r].got, work[r].at \in WithRepository
    PROVE  /\ PageKey(r, j) \in Keys /\ PageKey(r, j)[1] = Head(work[r].todo)
           /\ work[r].got[j].version \in Nat /\ PageKey(r, j) \in PageKeys(r)
  <1>1. PICK got \in Seq(PageRows) : got = work[r].got
    BY DEF SyncInv, WorkersTyped, WorkRows
  <1>2. got[j] \in PageRows
    BY <1>1, ElementOfSeq, LenProperties
  <1>3. Head(work[r].todo) \in Repos
    BY HeadTyped
  <1> QED  BY <1>1, <1>2, <1>3 DEF PageKey, PageKeys, Keys, PageRows

LEMMA LatestTyped ==
    ASSUME SyncInv, NEW a \in Accounts, NEW k \in Keys, Has(a, k)
    PROVE  Latest(a, k) \in ItemRows /\ Latest(a, k).version \in Nat
  BY LastTyped DEF SyncInv, TablesTyped, Has, Latest, ItemRows

LEMMA GitHubTyped ==
    ASSUME SyncInv, NEW p \in Repos
    PROVE  /\ github[p].list \in Seq(Items) /\ github[p].version \in [Items -> Nat]
           /\ \A i \in Items : github[p].version[i] \in Nat
  BY DEF SyncInv, OutsideTyped, GitHubRows

LEMMA KeyTyped ==
    ASSUME NEW k \in Keys
    PROVE  k[1] \in Repos /\ k[2] \in Items /\ k = <<k[1], k[2]>>
  BY DEF Keys

-----------------------------------------------------------------------------
(* The readings, step by step.                                             *)

\* A worker that a step leaves alone, with its run, its account and GitHub.
LEMMA FollowsKept ==
    ASSUME SyncInv, NEW r \in Runs, Follows(r), PageNew(r), work'[r] = work[r], UNCHANGED github,
           work[r].at \in Working => /\ run'[r].account = run[r].account
                                     /\ Allowed(r)' = Allowed(r)
                                     /\ items'[run[r].account] = items[run[r].account]
    PROVE  Follows(r)' /\ PageNew(r)'
  <1>1. CASE work[r].at \notin Started
    BY <1>1 DEF Follows, PageNew, Started, Places
  <1>2. CASE work[r].at \in Started
    <2>1. work[r].at \in Working
      BY <1>2 DEF Started, Working
    <2>2. PICK a : a = run[r].account
      OBVIOUS
    <2>3. run'[r].account = a /\ items'[a] = items[a] /\ Allowed(r)' = Allowed(r)
      BY <2>1, <2>2
    <2>4. Listed' = Listed /\ From(r)' = From(r) /\ PageKeys(r)' = PageKeys(r)
      BY DEF Listed, From, PageKeys
    <2>5. \A k : Has(a, k)' = Has(a, k) /\ Latest(a, k)' = Latest(a, k)
      BY <2>3 DEF Has, Latest
    <2>6. \A j : PageKey(r, j)' = PageKey(r, j)
      BY DEF PageKey
    <2>7. \A p, i : /\ ListedAfter(p, i, From(r))' = ListedAfter(p, i, From(r))
                    /\ ListedAfter(p, i, From(r) + PageSize)' = ListedAfter(p, i, From(r) + PageSize)
      BY <2>4 DEF ListedAfter
    <2>8. \A k : ToCome(r, k)' = ToCome(r, k)
      BY <2>4, <2>7 DEF ToCome
    <2>9. \A k : Exact(r, k)' = Exact(r, k)
      BY <2>2, <2>3, <2>4, <2>5 DEF Exact
    <2>10. PageNew(r)'
      BY <2>2, <2>3, <2>5, <2>6 DEF PageNew
    <2>11. Ahead(r)'
      BY <1>2, <2>3, <2>8 DEF Follows, Ahead
    <2>12. Faithful(r)'
      BY <1>2, <2>4, <2>6, <2>9 DEF Follows, Faithful, PageTrue
    <2> QED  BY <1>2, <2>3, <2>10, <2>11, <2>12 DEF Follows, Started
  <1> QED  BY <1>1, <1>2

\* Steps that record nothing, and after which GitHub's versions are no older.
LEMMA NewestKept ==
    ASSUME SyncInv, SyncInv', Newest, UNCHANGED items,
           \A k \in Keys : github[k[1]].version[k[2]] <= github'[k[1]].version[k[2]]
    PROVE  Newest'
  <1> SUFFICES ASSUME NEW a \in Accounts, NEW k \in Keys, Has(a, k)'
               PROVE  /\ Latest(a, k)'.version <= github'[k[1]].version[k[2]]
                      /\ \A n \in DOMAIN items'[a][k] : items'[a][k][n].version <= Latest(a, k)'.version
    BY DEF Newest
  <1>1. Has(a, k) /\ Latest(a, k)' = Latest(a, k)
    BY DEF Has, Latest
  <1>2. PICK v, g, h \in Nat : /\ v = Latest(a, k).version /\ g = github[k[1]].version[k[2]]
                               /\ h = github'[k[1]].version[k[2]]
    BY <1>1, LatestTyped, GitHubTyped, KeyTyped DEF SyncInv, OutsideTyped, GitHubRows
  <1>3. v <= g /\ g <= h
    BY <1>1, <1>2 DEF Newest
  <1> QED  BY <1>1, <1>2, <1>3 DEF Newest

\* The repositories a worker starts with are those of the allowlist, every one of them.
LEMMA RunReposAll ==
    ASSUME TablesTyped, NEW r \in Runs
    PROVE  ToSet(RunRepos(r)) = Allowed(r) /\ Allowed(r) \subseteq Repos
  <1> DEFINE S == account[run[r].account].allow
             N == Cardinality(S)
             f == SetToSeq(S)
  <1>1. S \subseteq Repos
    BY DEF TablesTyped, RunRows, AccountRows, Allowlists
  <1>2. IsFiniteSet(S)
    BY <1>1, FS_Subset, ConnectorsAssumption
  <1>3. N \in Nat /\ IsFiniteSet(1 .. N) /\ Cardinality(1 .. N) = N
    BY <1>2, FS_CardinalityType, FS_Interval
  <1>4. \E g \in [1 .. N -> S] : IsInjective(g)
    BY <1>2, FS_CardinalityType DEF ExistsBijection, Bijection, Injection
  <1>5. f \in [1 .. N -> S] /\ IsInjective(f)
    BY <1>4 DEF SetToSeq
  <1> HIDE DEF S, N, f
  <1>6. f \in Injection(1 .. N, S)
    BY <1>5 DEF Injection, IsInjective
  <1>7. f \in Surjection(1 .. N, S)
    BY <1>2, <1>3, <1>6, FS_Injection DEF N
  <1>8. \A p \in S : \E j \in 1 .. N : f[j] = p
    BY <1>7 DEF Surjection
  <1>9. ToSet(f) = S
    BY <1>5, <1>8 DEF ToSet
  <1> QED  BY <1>1, <1>9 DEF S, f, RunRepos, Allowed

\* A move of the worker of r that keeps its readings: what was to come is observed or
\* still to come, what is observed is exact and the page it holds is GitHub's.
LEMMA FollowsMove ==
    ASSUME NEW r \in Runs, Follows(r), work[r].at \in Started, work'[r].at \in Started,
           Allowed(r)' = Allowed(r), UNCHANGED github,
           work'[r].removed = work[r].removed, work'[r].changed = work[r].changed,
           work'[r].absent = work[r].absent, work[r].observed \subseteq work'[r].observed,
           work[r].incomplete => work'[r].incomplete,
           \A k \in Keys : k[1] \in Allowed(r) /\ ToCome(r, k) =>
               k \in work'[r].observed \/ work'[r].incomplete \/ ToCome(r, k)',
           ~work[r].changed => PageTrue(r)' /\ \A k \in work'[r].observed : Exact(r, k)',
           work'[r].at \in Reading => ToSet(work'[r].todo) \subseteq Allowed(r)
    PROVE  Follows(r)'
  <1>1. Listed' = Listed
    BY DEF Listed
  <1>2. Ahead(r) /\ Faithful(r) /\ (work[r].removed => work[r].changed)
    BY DEF Follows
  <1>3. Ahead(r)'
    BY <1>2 DEF Ahead
  <1>4. Faithful(r)'
    BY <1>1, <1>2 DEF Faithful
  <1>5. work'[r].at # "captured"
    BY DEF Started
  <1> QED  BY <1>2, <1>3, <1>4, <1>5 DEF Follows

\* What is exact stays so while GitHub, the ledger of the account and its allowlist do.
LEMMA ExactKept ==
    ASSUME NEW r \in Runs, Allowed(r)' = Allowed(r), UNCHANGED github,
           run'[r].account = run[r].account, items'[run[r].account] = items[run[r].account]
    PROVE  \A k : Exact(r, k)' = Exact(r, k)
  <1>1. PICK a : a = run[r].account
    OBVIOUS
  <1>2. run'[r].account = a /\ items'[a] = items[a]
    BY <1>1
  <1>3. \A k : Has(a, k)' = Has(a, k) /\ Latest(a, k)' = Latest(a, k)
    BY <1>2 DEF Has, Latest
  <1> QED  BY <1>1, <1>2, <1>3 DEF Exact, Listed

\* The reads that validate the account.
LEMMA PrepareFollows ==
    ASSUME SyncInv, NEW r \in Runs, Follows(r), ReadUser(r) \/ ReadRepository(r) \/ ReadAccount(r)
    PROVE  Follows(r)' /\ PageNew(r)'
  <1>1. PICK w \in WorkRows : w = work[r]
    BY DEF SyncInv, WorkersTyped
  <1>2. /\ UNCHANGED <<account, run, github, items>>
        /\ w.at \in Preparing
        /\ \E place \in Preparing : \E ids, todo :
               work'[r] = [w EXCEPT !.at = place, !.ids = ids, !.todo = todo]
    <2>1. CASE ReadUser(r)
      <3>1. work'[r] = [w EXCEPT !.at = "repository"] /\ w.at = "user"
        BY <1>1, <2>1 DEF ReadUser, Go, Step, SyncInv, WorkersTyped
      <3>2. work'[r] = [w EXCEPT !.at = "repository", !.ids = w.ids, !.todo = w.todo]
        BY <3>1 DEF WorkRows
      <3> QED  BY <2>1, <3>1, <3>2 DEF ReadUser, Go, Preparing
    <2>2. CASE ReadRepository(r)
      <3>1. PICK p, place, todo : /\ p = Head(w.todo) /\ todo = Tail(w.todo)
                                  /\ place = IF Len(w.todo) = 1 THEN "validate" ELSE w.at
        OBVIOUS
      <3>2. PICK ids : ids = [w.ids EXCEPT ![p] = github[p].id]
        OBVIOUS
      <3>3. work'[r] = [w EXCEPT !.ids[p] = github[p].id, !.todo = todo, !.at = place] /\ w.at = "repository"
        BY <1>1, <2>2, <3>1 DEF ReadRepository, Go, Step, SyncInv, WorkersTyped
      <3>4. work'[r] = [w EXCEPT !.at = place, !.ids = ids, !.todo = todo]
        BY <3>2, <3>3 DEF WorkRows
      <3>5. place \in Preparing
        BY <3>1, <3>3 DEF Preparing
      <3>6. UNCHANGED <<account, run, github, items>>
        BY <2>2 DEF ReadRepository, Go
      <3>7. w.at \in Preparing
        BY <3>3 DEF Preparing
      <3> QED  BY <3>4, <3>5, <3>6, <3>7
    <2>3. CASE ReadAccount(r)
      <3>1. work'[r] = [w EXCEPT !.at = "mark"] /\ w.at = "validate"
        BY <1>1, <2>3 DEF ReadAccount, Go, Step, SyncInv, WorkersTyped
      <3>2. work'[r] = [w EXCEPT !.at = "mark", !.ids = w.ids, !.todo = w.todo]
        BY <3>1 DEF WorkRows
      <3> QED  BY <2>3, <3>1, <3>2 DEF ReadAccount, Go, Preparing
    <2> QED  BY <2>1, <2>2, <2>3
  <1>3. PICK place \in Preparing :
          \E ids, left : work'[r] = [w EXCEPT !.at = place, !.ids = ids, !.todo = left]
    BY <1>2
  <1>4. PICK ids, todo : work'[r] = [w EXCEPT !.at = place, !.ids = ids, !.todo = todo]
    BY <1>3
  <1>5. /\ work'[r].at = place /\ work'[r].removed = w.removed /\ work'[r].changed = w.changed
        /\ work'[r].absent = w.absent /\ work'[r].observed = w.observed
        /\ work'[r].incomplete = w.incomplete
    BY <1>4 DEF WorkRows
  <1>6. Allowed(r)' = Allowed(r) /\ Listed' = Listed /\ \A k : Exact(r, k)' = Exact(r, k)
    BY <1>2, ExactKept DEF Allowed, Listed
  <1>7. w.at \in Started /\ place \in Started /\ place \notin Reading /\ place # "persist" /\ w.at \notin Reading
        /\ place \notin {"request", "persist", "snapshot"} /\ w.at \notin {"request", "persist", "snapshot"}
    BY <1>2 DEF Preparing, Started, Places, Reading
  <1>8. \A k \in Keys : ToCome(r, k) => ToCome(r, k)'
    BY <1>1, <1>5, <1>6, <1>7 DEF ToCome
  <1>9. PageTrue(r)' /\ PageNew(r)'
    BY <1>5, <1>7 DEF PageTrue, PageNew
  <1>10. ~w.changed => \A k \in w.observed : Exact(r, k)
    BY <1>1, <1>7 DEF Follows, Faithful
  <1>11. Follows(r)'
    BY <1>1, <1>2, <1>5, <1>6, <1>7, <1>8, <1>9, <1>10, FollowsMove
  <1> QED  BY <1>9, <1>11

\* Validation writes only the status of the account.
LEMMA MarkValidFacts ==
    ASSUME SyncInv, NEW r \in Runs, MarkValid(r)
    PROVE  \A a \in Accounts : account'[a].allow = account[a].allow /\ account'[a].life = account[a].life
  <1>1. PICK b \in Accounts : b = run[r].account
    BY DEF SyncInv, TablesTyped, RunRows
  <1>2. PICK row \in AccountRows : row = account[b]
    BY DEF SyncInv, TablesTyped
  <1>3. PICK valid : valid = [row EXCEPT !.val = "valid"]
    OBVIOUS
  <1>4. account' = [account EXCEPT ![b] = valid]
    BY <1>1, <1>2, <1>3 DEF MarkValid
  <1>5. valid.allow = row.allow /\ valid.life = row.life
    BY <1>3 DEF AccountRows
  <1> QED  BY <1>2, <1>4, <1>5 DEF SyncInv, TablesTyped

\* Validated, the worker starts over with the whole allowlist.
LEMMA MarkValidFollows ==
    ASSUME SyncInv, NEW r \in Runs, Follows(r), MarkValid(r)
    PROVE  Follows(r)' /\ PageNew(r)'
  <1>1. PICK w \in WorkRows : w = work[r]
    BY DEF SyncInv, WorkersTyped
  <1>2. PICK todo : todo = RunRepos(r)
    OBVIOUS
  <1>3. work'[r] = [w EXCEPT !.at = "snapshot", !.todo = todo] /\ w.at = "mark"
    BY <1>1, <1>2 DEF MarkValid, Step, SyncInv, WorkersTyped
  <1>4. /\ work'[r].at = "snapshot" /\ work'[r].removed = w.removed /\ work'[r].changed = w.changed
        /\ work'[r].absent = w.absent /\ work'[r].observed = w.observed
        /\ work'[r].incomplete = w.incomplete /\ work'[r].todo = todo
    BY <1>3 DEF WorkRows
  <1>5. UNCHANGED <<run, github, items>> /\ Listed' = Listed
    BY DEF MarkValid, Listed
  <1>6. Allowed(r)' = Allowed(r)
    BY <1>5, MarkValidFacts DEF Allowed, SyncInv, TablesTyped, RunRows
  <1>7. \A k : Exact(r, k)' = Exact(r, k)
    BY <1>5, <1>6, ExactKept
  <1>8. ToSet(todo) = Allowed(r)
    BY <1>2, RunReposAll DEF SyncInv
  <1>9. w.at \in Started /\ "snapshot" \in Started
    BY <1>3 DEF Started, Places
  <1>10. \A k \in Keys : k[1] \in Allowed(r) /\ ToCome(r, k) => ToCome(r, k)'
    BY <1>1, <1>3, <1>4, <1>5, <1>8 DEF ToCome
  <1>11. PageTrue(r)' /\ PageNew(r)'
    BY <1>4 DEF PageTrue, PageNew
  <1>12. ~w.changed => \A k \in w.observed : Exact(r, k)
    BY <1>1, <1>9 DEF Follows, Faithful
  <1>13. Follows(r)'
    BY <1>1, <1>4, <1>5, <1>6, <1>7, <1>8, <1>9, <1>10, <1>11, <1>12, FollowsMove
  <1> QED  BY <1>11, <1>13

\* The repository is recorded, its first page is next.
LEMMA PersistRepositoryFollows ==
    ASSUME SyncInv, NEW r \in Runs, Follows(r), PersistRepository(r)
    PROVE  Follows(r)' /\ PageNew(r)'
  <1>1. PICK w \in WorkRows : w = work[r]
    BY DEF SyncInv, WorkersTyped
  <1>2. work'[r] = [w EXCEPT !.at = "request", !.page = 1] /\ w.at = "snapshot"
    BY <1>1 DEF PersistRepository, Step, SyncInv, WorkersTyped
  <1>3. /\ work'[r].at = "request" /\ work'[r].removed = w.removed /\ work'[r].changed = w.changed
        /\ work'[r].absent = w.absent /\ work'[r].observed = w.observed
        /\ work'[r].incomplete = w.incomplete /\ work'[r].todo = w.todo /\ work'[r].page = 1
    BY <1>2 DEF WorkRows
  <1>4. UNCHANGED <<account, run, github, items>> /\ Listed' = Listed /\ Allowed(r)' = Allowed(r)
    BY DEF PersistRepository, Listed, Allowed
  <1>5. \A k : Exact(r, k)' = Exact(r, k)
    BY <1>4, ExactKept
  <1>6. w.at \in Started /\ "request" \in Started /\ w.at \in WithRepository /\ w.at \in Reading
    BY <1>2 DEF Started, Places, WithRepository, Reading
  <1>7. ToSet(w.todo) = {Head(w.todo)} \cup ToSet(Tail(w.todo)) /\ ToSet(w.todo) \subseteq Allowed(r)
    BY <1>1, <1>6, HeadTyped DEF Follows
  <1>8. From(r)' = 0
    <2>1. PICK size \in Nat : size = PageSize
      BY SyncAssumption
    <2>2. (1 - 1) * size = 0
      OBVIOUS
    <2> QED  BY <1>3, <2>1, <2>2 DEF From
  <1>9. ASSUME NEW k \in Keys, ToCome(r, k)
        PROVE  ToCome(r, k)'
    <2>1. k[1] \in ToSet(w.todo) /\ k \in Listed
      BY <1>1, <1>2, <1>9 DEF ToCome, Preparing
    <2>2. CASE k[1] \in ToSet(Tail(w.todo))
      BY <1>3, <1>4, <2>1, <2>2 DEF ToCome
    <2>3. CASE k[1] = Head(w.todo)
      <3>1. PICK j \in DOMAIN github[k[1]].list : github[k[1]].list[j] = k[2]
        BY <2>1 DEF Listed
      <3>2. j > 0
        BY <3>1, KeyTyped, GitHubTyped, LenProperties
      <3>3. ListedAfter(k[1], k[2], From(r))'
        BY <1>4, <1>8, <3>1, <3>2 DEF ListedAfter
      <3> QED  BY <1>3, <2>3, <3>3 DEF ToCome
    <2> QED  BY <1>7, <2>1, <2>2, <2>3
  <1>10. PageTrue(r)' /\ PageNew(r)'
    BY <1>3 DEF PageTrue, PageNew
  <1>11. ~w.changed => \A k \in w.observed : Exact(r, k)
    BY <1>1, <1>6 DEF Follows, Faithful
  <1>12. Follows(r)'
    BY <1>1, <1>3, <1>4, <1>5, <1>6, <1>7, <1>9, <1>10, <1>11, FollowsMove
  <1> QED  BY <1>10, <1>12

LEMMA FromTyped ==
    ASSUME SyncInv, NEW r \in Runs
    PROVE  From(r) \in Nat
  <1>1. PICK page \in 1 .. MaxPages : page = work[r].page
    BY DEF SyncInv, WorkersTyped, WorkRows
  <1>2. PICK before, size \in Nat : before = page - 1 /\ size = PageSize
    BY <1>1, SyncAssumption
  <1>3. before * size \in Nat
    OBVIOUS
  <1> QED  BY <1>1, <1>2, <1>3 DEF From

\* The page a worker gets: the places of the list after those of the pages before.
OnPage(list, from) == {j \in 1 .. PageSize : from + j \in DOMAIN list}

PageOf(got, list, version, from) ==
    /\ got \in Seq(PageRows) /\ DOMAIN got = OnPage(list, from)
    /\ \A j \in OnPage(list, from) :
           got[j].item = list[from + j] /\ got[j].version = version[list[from + j]]

LEMMA PageRead ==
    ASSUME SyncInv, NEW r \in Runs, ReadPage(r), NEW p, p = Head(work[r].todo)
    PROVE  /\ work[r] \in WorkRows /\ work[r].at = "request"
           /\ \E got : /\ work'[r] = [work[r] EXCEPT !.at = "persist", !.got = got]
                       /\ PageOf(got, github[p].list, github[p].version, From(r))
  <1>1. PICK w \in WorkRows : w = work[r] /\ w.at = "request"
    BY DEF SyncInv, WorkersTyped, ReadPage, Step
  <1>2. w.at \in WithRepository
    BY <1>1 DEF WithRepository
  <1>3. p \in Repos
    BY <1>1, <1>2, HeadTyped
  <1>4. PICK list \in Seq(Items), version \in [Items -> Nat] :
            list = github[p].list /\ version = github[p].version
    BY <1>3, GitHubTyped
  <1>5. PICK from \in Nat : from = From(r)
    BY FromTyped
  <1> DEFINE onPage == {j \in 1 .. PageSize : from + j <= Len(list)}
             got == [j \in onPage |-> [item |-> list[from + j], version |-> version[list[from + j]]]]
  <1>6. work'[r] = [w EXCEPT !.at = "persist", !.got = got]
    BY <1>1, <1>4, <1>5 DEF ReadPage, Go, Step, From, SyncInv, WorkersTyped
  <1>7. got \in Seq(PageRows)
    BY PageTyped
  <1>8. onPage = OnPage(list, from)
    <2>1. DOMAIN list = 1 .. Len(list) /\ Len(list) \in Nat /\ PageSize \in Nat
      BY LenProperties, SyncAssumption
    <2> QED  BY <2>1 DEF OnPage
  <1>9. PICK page : page = got
    OBVIOUS
  <1>10. DOMAIN page = onPage
    BY <1>9
  <1>11. \A j \in onPage : page[j].item = list[from + j] /\ page[j].version = version[list[from + j]]
    BY <1>9
  <1> HIDE DEF got, onPage
  <1>12. PageOf(page, list, version, from)
    BY <1>7, <1>8, <1>9, <1>10, <1>11 DEF PageOf
  <1> QED  BY <1>1, <1>4, <1>5, <1>6, <1>9, <1>12

LEMMA ReadPageFollows ==
    ASSUME SyncInv, NEW r \in Runs, Follows(r), Newest, ReadPage(r)
    PROVE  Follows(r)' /\ PageNew(r)'
  <1>1. PICK p : p = Head(work[r].todo)
    OBVIOUS
  <1>2. PICK w \in WorkRows : w = work[r] /\ w.at = "request"
    BY <1>1, PageRead
  <1>3. w.at \in WithRepository /\ w.at \in Started /\ w.at \in Working /\ w.at \in Reading
        /\ "persist" \in Started
    BY <1>2 DEF WithRepository, Started, Places, Reading, Working
  <1>4. p \in Repos
    BY <1>1, <1>2, <1>3, HeadTyped
  <1>5. PICK list \in Seq(Items), from \in Nat : list = github[p].list /\ from = From(r)
    BY <1>4, GitHubTyped, FromTyped
  <1> DEFINE onPage == {j \in 1 .. PageSize : from + j \in DOMAIN list}
  <1>a. PICK got : /\ work'[r] = [w EXCEPT !.at = "persist", !.got = got]
                   /\ PageOf(got, list, github[p].version, from)
    BY <1>1, <1>2, <1>5, PageRead
  <1>6. /\ work'[r] = [w EXCEPT !.at = "persist", !.got = got]
        /\ got \in Seq(PageRows) /\ DOMAIN got = onPage
        /\ \A j \in onPage : /\ got[j].item = list[from + j]
                             /\ got[j].version = github[p].version[list[from + j]]
    BY <1>a DEF PageOf, OnPage
  <1>7. /\ work'[r].at = "persist" /\ work'[r].removed = w.removed /\ work'[r].changed = w.changed
        /\ work'[r].absent = w.absent /\ work'[r].observed = w.observed
        /\ work'[r].incomplete = w.incomplete /\ work'[r].todo = w.todo /\ work'[r].page = w.page
        /\ work'[r].got = got
    BY <1>6 DEF WorkRows
  <1>8. /\ UNCHANGED <<account, run, github, items>> /\ Listed' = Listed /\ Allowed(r)' = Allowed(r)
        /\ From(r)' = from
    BY <1>2, <1>5, <1>7 DEF ReadPage, Go, Listed, Allowed, From
  <1>9. \A k : Exact(r, k)' = Exact(r, k)
    BY <1>8, ExactKept
  <1>10. \A j \in DOMAIN got : /\ PageKey(r, j)' = <<p, list[from + j]>>
                               /\ got[j].version = github[p].version[list[from + j]]
                               /\ <<p, list[from + j]>> \in Listed /\ <<p, list[from + j]>> \in Keys
    <2> SUFFICES ASSUME NEW j \in onPage
                 PROVE  /\ PageKey(r, j)' = <<p, list[from + j]>>
                        /\ got[j].version = github[p].version[list[from + j]]
                        /\ <<p, list[from + j]>> \in Listed /\ <<p, list[from + j]>> \in Keys
      BY <1>6
    <2>1. got[j].item = list[from + j] /\ got[j].version = github[p].version[list[from + j]]
      BY <1>6
    <2>2. from + j \in DOMAIN list
      OBVIOUS
    <2>3. list[from + j] \in Items
      BY <2>2, ElementOfSeq, LenProperties
    <2> QED  BY <1>1, <1>2, <1>4, <1>5, <1>7, <2>1, <2>2, <2>3 DEF PageKey, Listed, Keys
  <1>11. ASSUME NEW k \in Keys, ToCome(r, k)
         PROVE  ToCome(r, k)'
    <2>1. \/ k[1] \in ToSet(Tail(w.todo)) /\ k \in Listed
          \/ k[1] = p /\ ListedAfter(p, k[2], from)
      BY <1>1, <1>2, <1>5, <1>11 DEF ToCome, Preparing
    <2>2. CASE k[1] \in ToSet(Tail(w.todo)) /\ k \in Listed
      BY <1>7, <1>8, <2>2 DEF ToCome
    <2>3. CASE k[1] = p /\ ListedAfter(p, k[2], from)
      <3>1. PICK n \in DOMAIN list : list[n] = k[2] /\ n > from
        BY <1>5, <2>3 DEF ListedAfter
      <3>2. DOMAIN list = 1 .. Len(list) /\ Len(list) \in Nat
        BY LenProperties
      <3>3. PICK size \in Nat \ {0} : size = PageSize
        BY SyncAssumption
      <3>4. CASE n <= from + size
        <4>1. PICK j \in 1 .. size : from + j = n
          <5>1. n - from \in 1 .. size /\ from + (n - from) = n
            BY <3>1, <3>2, <3>4
          <5> QED  BY <5>1
        <4>2. j \in onPage
          BY <3>3, <4>1
        <4>3. got[j].item = k[2]
          BY <1>6, <3>1, <4>1, <4>2
        <4>4. k \in PageKeys(r)'
          <5>1. k = <<p, k[2]>>
            BY <2>3, KeyTyped
          <5> QED  BY <1>1, <1>2, <1>6, <1>7, <4>2, <4>3, <5>1 DEF PageKeys
        <4> QED  BY <1>7, <4>4 DEF ToCome
      <3>5. CASE n > from + size
        <4>1. \A j \in 1 .. size : from + j \in 1 .. Len(list)
          BY <3>1, <3>2, <3>5
        <4>2. onPage = 1 .. size
          BY <3>2, <3>3, <4>1
        <4>3. Len(got) = size
          <5>1. DOMAIN got = 1 .. Len(got) /\ Len(got) \in Nat
            BY <1>6, LenProperties
          <5>2. 1 .. Len(got) = 1 .. size
            BY <1>6, <4>2, <5>1
          <5>3. PICK n1 \in Nat : n1 = Len(got)
            BY <5>1
          <5>4. 1 .. n1 = 1 .. size
            BY <5>2, <5>3
          <5>5. n1 = size
            <6>1. size \in 1 .. n1
              BY <5>4
            <6>2. n1 \in 1 .. size
              BY <5>4, <6>1
            <6> QED  BY <6>1, <6>2
          <5> QED  BY <5>3, <5>5
        <4>4. ListedAfter(p, k[2], from + PageSize)'
          BY <1>5, <1>8, <3>1, <3>3, <3>5 DEF ListedAfter
        <4>5. ListedAfter(p, k[2], From(r) + PageSize)'
          BY <1>8, <4>4
        <4> QED  BY <1>1, <1>2, <1>7, <2>3, <3>3, <4>3, <4>5 DEF ToCome
      <3> QED  BY <3>1, <3>2, <3>3, <3>4, <3>5
    <2> QED  BY <2>1, <2>2, <2>3
  <1> HIDE DEF onPage
  <1>12. PageTrue(r)'
    <2> SUFFICES ASSUME NEW j \in DOMAIN got
                 PROVE  /\ PageKey(r, j)' \in Listed'
                        /\ work'[r].got[j].version = github'[PageKey(r, j)'[1]].version[PageKey(r, j)'[2]]
      BY <1>7 DEF PageTrue
    <2>1. PICK i : i = list[from + j]
      OBVIOUS
    <2>2. PICK k : k = <<p, i>>
      OBVIOUS
    <2>3. k[1] = p /\ k[2] = i
      BY <2>2
    <2>4. PageKey(r, j)' = k /\ k \in Listed /\ got[j].version = github[k[1]].version[k[2]]
      BY <1>10, <2>1, <2>2, <2>3
    <2> QED  BY <1>7, <1>8, <2>4
  <1>13. PageNew(r)'
    <2>1. PICK a \in Accounts : a = run[r].account
      BY <1>2, <1>3, BusyFacts
    <2>2. \A k : Has(a, k)' = Has(a, k) /\ Latest(a, k)' = Latest(a, k)
      BY <1>8 DEF Has, Latest
    <2>3. run'[r].account = a
      BY <1>8, <2>1
    <2> SUFFICES ASSUME NEW j \in DOMAIN got, NEW k, k = PageKey(r, j)'
                 PROVE  /\ got[j].version <= github[k[1]].version[k[2]]
                        /\ Has(a, k) => Latest(a, k).version <= got[j].version
      BY <1>7, <1>8, <2>2, <2>3 DEF PageNew
    <2>4. /\ k \in Keys /\ k[1] = p /\ k[2] = list[from + j]
          /\ got[j].version = github[k[1]].version[k[2]]
      <3>1. PICK i : i = list[from + j]
        OBVIOUS
      <3>2. k = <<p, i>> /\ k \in Keys /\ got[j].version = github[p].version[i]
        BY <1>10, <3>1
      <3>3. k[1] = p /\ k[2] = i
        BY <3>2
      <3> QED  BY <3>1, <3>2, <3>3
    <2>5. got[j].version \in Nat
      BY <2>4, GitHubTyped, KeyTyped
    <2>6. Has(a, k) => Latest(a, k).version <= github[k[1]].version[k[2]]
      BY <2>4 DEF Newest
    <2> QED  BY <2>4, <2>5, <2>6
  <1>14. ~w.changed => \A k \in w.observed : Exact(r, k)
    BY <1>2, <1>3 DEF Follows, Faithful
  <1>15. ToSet(w.todo) \subseteq Allowed(r)
    BY <1>2, <1>3 DEF Follows
  <1>16. Follows(r)'
    BY <1>2, <1>3, <1>7, <1>8, <1>9, <1>11, <1>12, <1>14, <1>15, FollowsMove
  <1> QED  BY <1>13, <1>16

\* A version that no revision exceeds is the latest one once recorded.
LEMMA RecordedLatest ==
    ASSUME NEW r \in Runs, run[r] \in RunRows, NEW rows \in Seq(ItemRows), NEW version \in Nat,
           rows # <<>> => /\ Last(rows).version <= version
                          /\ \A n \in DOMAIN rows : rows[n].version <= Last(rows).version
    PROVE  /\ Recorded(r, rows, version) # <<>> /\ Last(Recorded(r, rows, version)).version = version
           /\ \A n \in DOMAIN Recorded(r, rows, version) : Recorded(r, rows, version)[n].version <= version
  <1>1. \A n \in DOMAIN rows : rows[n] \in ItemRows /\ rows[n].version \in Nat
    <2>1. \A n \in DOMAIN rows : rows[n] \in ItemRows
      BY ElementOfSeq, LenProperties
    <2> QED  BY <2>1 DEF ItemRows
  <1>2. CASE \E n \in DOMAIN rows : rows[n].version = version
    <2>1. PICK n \in DOMAIN rows : rows[n].version = version
      BY <1>2
    <2>2. rows # <<>>
      BY <2>1, EmptySeq, LenProperties
    <2>3. PICK v \in Nat : v = Last(rows).version
      BY <2>2, LastTyped DEF ItemRows
    <2>4. v = version
      BY <2>1, <2>2, <2>3
    <2> QED  BY <1>2, <2>2, <2>3, <2>4 DEF Recorded
  <1>3. CASE ~\E n \in DOMAIN rows : rows[n].version = version
    <2>1. PICK row : row = [version |-> version, state |-> "current", scope |-> run[r].scope, by |-> r]
      OBVIOUS
    <2>2. row \in ItemRows /\ row.version = version
      BY <2>1 DEF ItemRows, RunRows
    <2>3. Recorded(r, rows, version) = Append(rows, row)
      BY <1>3, <2>1 DEF Recorded
    <2>4. /\ Append(rows, row) \in Seq(ItemRows) /\ Len(Append(rows, row)) = Len(rows) + 1
          /\ \A n \in 1 .. Len(rows) : Append(rows, row)[n] = rows[n]
          /\ Append(rows, row)[Len(rows) + 1] = row
      BY <2>2, AppendProperties
    <2>5. PICK L \in Nat : L = Len(rows) /\ DOMAIN rows = 1 .. L
      BY LenProperties
    <2>6. PICK more \in Seq(ItemRows) : more = Append(rows, row)
      BY <2>4
    <2>7. DOMAIN more = 1 .. (L + 1) /\ Len(more) = L + 1 /\ more[L + 1] = row
      BY <2>4, <2>5, <2>6, LenProperties
    <2>8. more # <<>> /\ Last(more) = row
      BY <2>5, <2>7, EmptySeq DEF Last
    <2>9. ASSUME NEW n \in 1 .. (L + 1) PROVE more[n].version <= version
      <3>1. CASE n = L + 1
        BY <2>2, <2>7, <3>1
      <3>2. CASE n # L + 1
        <4>1. n \in 1 .. L
          BY <2>5, <3>2
        <4>2. more[n] = rows[n] /\ rows # <<>>
          BY <2>4, <2>5, <2>6, <4>1, EmptySeq
        <4>3. rows[n].version <= Last(rows).version /\ Last(rows).version <= version
          BY <2>5, <4>1, <4>2
        <4>4. rows[n].version \in Nat /\ Last(rows).version \in Nat
          BY <1>1, <2>5, <4>1, <4>2, LastTyped DEF ItemRows
        <4> QED  BY <4>2, <4>3, <4>4
      <3> QED  BY <3>1, <3>2
    <2> QED  BY <2>2, <2>3, <2>6, <2>7, <2>8, <2>9
  <1> QED  BY <1>2, <1>3

\* What a page leaves of the ledger.
LEMMA PageWritten ==
    ASSUME SyncInv, Newest, NEW r \in Runs, PageNew(r), PersistPage(r), NEW a, a = run[r].account
    PROVE  /\ \A b \in Accounts, k \in Keys :
                  b # a \/ k \notin PageKeys(r) => items'[b][k] = items[b][k]
           /\ \A k \in PageKeys(r) : \E j \in DOMAIN work[r].got :
                  /\ PageKey(r, j) = k /\ items'[a][k] # <<>>
                  /\ Last(items'[a][k]).version = work[r].got[j].version
                  /\ \A n \in DOMAIN items'[a][k] : items'[a][k][n].version <= work[r].got[j].version
  <1>1. /\ work[r] \in WorkRows /\ work[r].at = "persist" /\ run[r] \in RunRows
        /\ PageKeys(r) \subseteq Keys /\ a \in Accounts
        /\ \A k \in PageKeys(r) : PageVersion(r, k[2]) \in Nat
    BY PageFacts DEF RunRows
  <1>2. \A b \in Accounts, k \in Keys : items'[b][k] =
            IF b = a /\ k \in PageKeys(r) THEN Recorded(r, items[a][k], PageVersion(r, k[2]))
            ELSE items[b][k]
    BY <1>1 DEF PersistPage, PersistRows, SyncInv, TablesTyped
  <1>3. ASSUME NEW k \in PageKeys(r)
        PROVE  \E j \in DOMAIN work[r].got :
                  /\ PageKey(r, j) = k /\ items'[a][k] # <<>>
                  /\ Last(items'[a][k]).version = work[r].got[j].version
                  /\ \A n \in DOMAIN items'[a][k] : items'[a][k][n].version <= work[r].got[j].version
    <2>1. k = <<Head(work[r].todo), k[2]>> /\ \E j \in DOMAIN work[r].got : work[r].got[j].item = k[2]
      BY DEF PageKeys
    <2>2. PICK j : j = CHOOSE n \in DOMAIN work[r].got : work[r].got[n].item = k[2]
      OBVIOUS
    <2>3. j \in DOMAIN work[r].got /\ work[r].got[j].item = k[2]
      BY <2>1, <2>2
    <2>4. PageKey(r, j) = k
      BY <2>1, <2>3 DEF PageKey
    <2>5. PICK version \in Nat : version = PageVersion(r, k[2]) /\ version = work[r].got[j].version
      BY <1>1, <2>2 DEF PageVersion
    <2>6. PICK rows \in Seq(ItemRows) : rows = items[a][k]
      BY <1>1 DEF SyncInv, TablesTyped
    <2>7. rows # <<>> => /\ Last(rows).version <= version
                         /\ \A n \in DOMAIN rows : rows[n].version <= Last(rows).version
      BY <1>1, <2>3, <2>4, <2>5, <2>6 DEF PageNew, Newest, Has, Latest
    <2>8. items'[a][k] = Recorded(r, rows, version)
      BY <1>1, <1>2, <2>5, <2>6
    <2> QED  BY <1>1, <2>3, <2>4, <2>5, <2>7, <2>8, RecordedLatest
  <1> QED  BY <1>1, <1>2, <1>3

LEMMA PageNewest ==
    ASSUME SyncInv, Newest, NEW r \in Runs, PageNew(r), PersistPage(r)
    PROVE  Newest'
  <1>1. PICK a : a = run[r].account
    OBVIOUS
  <1>2. UNCHANGED github /\ work[r].at = "persist"
    BY DEF PersistPage, Step
  <1> SUFFICES ASSUME NEW b \in Accounts, NEW k \in Keys, items'[b][k] # <<>>
               PROVE  /\ Last(items'[b][k]).version <= github[k[1]].version[k[2]]
                      /\ \A n \in DOMAIN items'[b][k] : items'[b][k][n].version <= Last(items'[b][k]).version
    BY <1>2 DEF Newest, Has, Latest
  <1>3. CASE b # a \/ k \notin PageKeys(r)
    <2>1. items'[b][k] = items[b][k]
      BY <1>1, <1>3, PageWritten
    <2> QED  BY <2>1 DEF Newest, Has, Latest
  <1>4. CASE b = a /\ k \in PageKeys(r)
    <2>1. PICK j \in DOMAIN work[r].got :
              /\ PageKey(r, j) = k
              /\ Last(items'[a][k]).version = work[r].got[j].version
              /\ \A n \in DOMAIN items'[a][k] : items'[a][k][n].version <= work[r].got[j].version
      BY <1>1, <1>4, PageWritten
    <2>2. work[r].got[j].version <= github[k[1]].version[k[2]]
      BY <1>2, <2>1 DEF PageNew
    <2> QED  BY <1>4, <2>1, <2>2
  <1> QED  BY <1>3, <1>4

\* Where the worker goes after a page, and what it takes along.
LEMMA AfterPageMoves ==
    ASSUME SyncInv, NEW r \in Runs, PersistPage(r), NEW w \in WorkRows, w = work[r],
           NEW full \in BOOLEAN, full = (Len(w.got) = PageSize)
    PROVE  /\ work'[r].removed = w.removed /\ work'[r].changed = w.changed
           /\ work'[r].absent = w.absent /\ work'[r].observed = w.observed \cup PageKeys(r)
           /\ \/ /\ full /\ work'[r].at = "request" /\ work'[r].page = w.page + 1
                 /\ work'[r].todo = w.todo /\ work'[r].incomplete = w.incomplete
              \/ /\ work'[r].todo = Tail(w.todo) /\ work'[r].incomplete = (w.incomplete \/ full)
                 /\ work'[r].at = IF Len(w.todo) = 1 THEN "reconcile" ELSE "snapshot"
  <1>1. PICK seen \in SUBSET Keys : seen = w.observed \cup PageKeys(r)
    BY PageFacts DEF WorkRows
  <1>2. work'[r] = AfterPage(r)
    BY DEF PersistPage, SyncInv, WorkersTyped
  <1>3. PICK read \in WorkRows : read = [w EXCEPT !.observed = seen, !.got = <<>>]
    BY EmptySeq DEF WorkRows
  <1>4. /\ read.removed = w.removed /\ read.changed = w.changed /\ read.absent = w.absent
        /\ read.observed = seen /\ read.todo = w.todo /\ read.page = w.page
        /\ read.incomplete = w.incomplete
    BY <1>3 DEF WorkRows
  <1>5. read = [work[r] EXCEPT !.observed = @ \cup PageKeys(r), !.got = <<>>]
    BY <1>1, <1>3
  <1>6. CASE full /\ w.page < MaxPages
    <2>1. work'[r] = [read EXCEPT !.at = "request", !.page = @ + 1]
      BY <1>2, <1>4, <1>5, <1>6 DEF AfterPage
    <2> QED  BY <1>1, <1>4, <1>6, <2>1 DEF WorkRows
  <1>7. CASE ~(full /\ w.page < MaxPages)
    <2>1. PICK at : at = IF Len(w.todo) = 1 THEN "reconcile" ELSE "snapshot"
      OBVIOUS
    <2>2. PICK rest, over : rest = Tail(read.todo) /\ over = (read.incomplete \/ (Len(w.got) = PageSize))
      OBVIOUS
    <2>a. AfterPage(r) = [read EXCEPT !.incomplete = @ \/ (Len(w.got) = PageSize), !.todo = Tail(@), !.page = 1,
                               !.at = IF Len(read.todo) = 1 THEN "reconcile" ELSE "snapshot"]
      BY <1>4, <1>5, <1>7 DEF AfterPage
    <2>3. work'[r] = [read EXCEPT !.incomplete = over, !.todo = rest, !.page = 1, !.at = at]
      BY <1>2, <1>4, <2>1, <2>2, <2>a
    <2>4. /\ work'[r].removed = read.removed /\ work'[r].changed = read.changed
          /\ work'[r].absent = read.absent /\ work'[r].observed = read.observed
          /\ work'[r].todo = rest /\ work'[r].incomplete = over /\ work'[r].at = at
      BY <2>3 DEF WorkRows
    <2> QED  BY <1>1, <1>4, <2>1, <2>2, <2>4
  <1> QED  BY <1>6, <1>7

\* The next page begins where the last one ended.
LEMMA NextFrom ==
    ASSUME SyncInv, NEW r \in Runs, work'[r].page = work[r].page + 1
    PROVE  From(r)' = From(r) + PageSize
  <1>1. PICK page \in 1 .. MaxPages : page = work[r].page
    BY DEF SyncInv, WorkersTyped, WorkRows
  <1>2. PICK before, size \in Nat : before = page - 1 /\ size = PageSize
    BY <1>1, SyncAssumption
  <1>3. From(r) = before * size
    BY <1>1, <1>2 DEF From
  <1>4. From(r)' = (before + 1) * size
    <2>1. (page + 1) - 1 = before + 1
      BY <1>2, SyncAssumption
    <2> QED  BY <1>1, <1>2, <2>1 DEF From
  <1>5. (before + 1) * size = before * size + size
    BY <1>2
  <1> QED  BY <1>2, <1>3, <1>4, <1>5

LEMMA PersistPageFollows ==
    ASSUME SyncInv, Newest, NEW r \in Runs, Follows(r), PageNew(r), PersistPage(r)
    PROVE  Follows(r)' /\ PageNew(r)'
  <1>1. PICK w \in WorkRows : w = work[r] /\ w.at = "persist"
    BY PageFacts
  <1>2. PICK full \in BOOLEAN : full = (Len(w.got) = PageSize)
    OBVIOUS
  <1>3. PICK p, from, a : p = Head(w.todo) /\ from = From(r) /\ a = run[r].account
    OBVIOUS
  <1>4. w.at \in WithRepository /\ w.at \in Started /\ w.at \in Working /\ w.at \in Reading
    BY <1>1 DEF WithRepository, Started, Places, Reading, Working
  <1>5. /\ UNCHANGED <<account, run, github>> /\ Listed' = Listed /\ Allowed(r)' = Allowed(r)
        /\ a \in Accounts /\ PageKeys(r) \subseteq Keys
    BY <1>1, <1>3, <1>4, BusyFacts, PageFacts DEF PersistPage, Listed, Allowed
  <1>6. /\ work'[r].removed = w.removed /\ work'[r].changed = w.changed
        /\ work'[r].absent = w.absent /\ work'[r].observed = w.observed \cup PageKeys(r)
    BY <1>1, <1>2, AfterPageMoves
  <1>7. \/ /\ full /\ work'[r].at = "request" /\ work'[r].page = w.page + 1
           /\ work'[r].todo = w.todo /\ work'[r].incomplete = w.incomplete
        \/ /\ work'[r].todo = Tail(w.todo) /\ work'[r].incomplete = (w.incomplete \/ full)
           /\ work'[r].at = IF Len(w.todo) = 1 THEN "reconcile" ELSE "snapshot"
    BY <1>1, <1>2, AfterPageMoves
  <1>8. /\ ToSet(w.todo) = {p} \cup ToSet(Tail(w.todo)) /\ ToSet(w.todo) \subseteq Allowed(r)
        /\ Len(w.todo) = 1 => ToSet(Tail(w.todo)) = {}
    BY <1>1, <1>3, <1>4, HeadTyped DEF Follows
  <1>9. work'[r].at \in {"request", "reconcile", "snapshot"} /\ work'[r].at \in Started
    BY <1>7 DEF Started, Places
  <1>10. ASSUME NEW k \in Keys, ToCome(r, k)
         PROVE  k \in work'[r].observed \/ work'[r].incomplete \/ ToCome(r, k)'
    <2>1. \/ k[1] \in ToSet(Tail(w.todo)) /\ k \in Listed
          \/ k \in PageKeys(r)
          \/ k[1] = p /\ full /\ ListedAfter(k[1], k[2], from + PageSize)
      BY <1>1, <1>2, <1>3, <1>10 DEF ToCome, Preparing
    <2>2. CASE k[1] \in ToSet(Tail(w.todo)) /\ k \in Listed
      BY <1>5, <1>7, <1>8, <2>2 DEF ToCome
    <2>3. CASE k \in PageKeys(r)
      BY <1>6, <2>3
    <2>4. CASE k[1] = p /\ full /\ ListedAfter(k[1], k[2], from + PageSize)
      <3>1. CASE work'[r].at = "request" /\ work'[r].page = w.page + 1 /\ work'[r].todo = w.todo
        <4>1. From(r)' = from + PageSize
          BY <1>1, <1>3, <3>1, NextFrom
        <4>2. ListedAfter(k[1], k[2], from + PageSize)'
          BY <1>5, <2>4 DEF ListedAfter
        <4>3. ListedAfter(k[1], k[2], From(r))'
          BY <4>1, <4>2
        <4> QED  BY <1>3, <2>4, <3>1, <4>3 DEF ToCome
      <3>2. CASE work'[r].incomplete
        BY <3>2
      <3> QED  BY <1>7, <2>4, <3>1, <3>2
    <2> QED  BY <2>1, <2>2, <2>3, <2>4
  <1>11. ASSUME ~w.changed, NEW k \in work'[r].observed
         PROVE  Exact(r, k)'
    <2>1. CASE k \in PageKeys(r)
      <3>1. PICK j \in DOMAIN w.got :
                PageKey(r, j) = k /\ items'[a][k] # <<>> /\ Last(items'[a][k]).version = w.got[j].version
        BY <1>1, <1>3, <2>1, PageWritten DEF Newest
      <3>2. k \in Listed /\ w.got[j].version = github[k[1]].version[k[2]]
        BY <1>1, <1>4, <1>11, <3>1 DEF Follows, Faithful, PageTrue
      <3>3. k[1] \in Allowed(r)
        BY <1>1, <1>3, <1>8, <3>1 DEF PageKey
      <3> QED  BY <1>3, <1>5, <3>1, <3>2, <3>3 DEF Exact, Has, Latest
    <2>2. CASE k \notin PageKeys(r)
      <3>1. k \in w.observed /\ k \in Keys
        BY <1>6, <1>11, <2>2 DEF WorkRows
      <3>2. Exact(r, k)
        BY <1>1, <1>4, <1>11, <3>1 DEF Follows, Faithful
      <3>3. items'[a][k] = items[a][k]
        BY <1>3, <1>5, <2>2, <3>1, PageWritten
      <3> QED  BY <1>3, <1>5, <3>2, <3>3 DEF Exact, Has, Latest
    <2> QED  BY <2>1, <2>2
  <1>12. PageTrue(r)' /\ PageNew(r)'
    BY <1>9 DEF PageTrue, PageNew
  <1>13. ToSet(work'[r].todo) \subseteq Allowed(r)
    BY <1>7, <1>8
  <1>14. w.incomplete => work'[r].incomplete
    BY <1>7
  <1>15. Follows(r)'
    BY <1>1, <1>4, <1>5, <1>6, <1>9, <1>10, <1>11, <1>12, <1>13, <1>14, FollowsMove
  <1> QED  BY <1>12, <1>15

\* A worker starts with nothing observed, and with the items listed just then to come.
LEMMA StartFollows ==
    ASSUME SyncInv, NEW r \in Runs, Follows(r), Start(r)
    PROVE  Follows(r)' /\ PageNew(r)'
  <1>1. PICK todo : todo = RunRepos(r)
    OBVIOUS
  <1>2. PICK gone \in SUBSET Keys : gone = Keys \ Listed
    OBVIOUS
  <1>3. work[r] = Fresh
    BY DEF Start, Step, Follows
  <1>4. work'[r] = [Fresh EXCEPT !.at = "user", !.todo = todo, !.absent = gone]
    BY <1>1, <1>2, <1>3 DEF Start, SyncInv, WorkersTyped
  <1>5. /\ work'[r].at = "user" /\ work'[r].removed = FALSE /\ work'[r].changed = FALSE
        /\ work'[r].absent = gone /\ work'[r].observed = {} /\ work'[r].incomplete = FALSE
    BY <1>4 DEF Fresh
  <1>6. Listed' = Listed
    BY DEF Start, Listed
  <1>7. Ahead(r)'
    BY <1>2, <1>5, <1>6 DEF Ahead, ToCome, Preparing
  <1>8. Faithful(r)' /\ PageNew(r)'
    BY <1>2, <1>5, <1>6 DEF Faithful, PageTrue, PageNew
  <1> QED  BY <1>5, <1>7, <1>8 DEF Follows, Reading

\* What a step of the worker of r leaves alone, for the other workers and for the accounts.
LEMMA AccountsKept ==
    ASSUME SyncInv, NEW r \in Runs, WorkerStep(r) \/ Crash(r) \/ Resume(r)
    PROVE  \A b \in Accounts : /\ account'[b].allow = account[b].allow
                               /\ account[b].life # "absent" => account'[b].life # "absent"
  <1>1. CASE UNCHANGED account
    BY <1>1
  <1>2. CASE MarkValid(r)
    BY <1>2, MarkValidFacts
  <1>3. CASE FailIdentity(r)
    <2>1. PICK a \in Accounts : a = run[r].account
      BY DEF SyncInv, TablesTyped, RunRows
    <2>2. PICK row \in AccountRows : row = account[a]
      BY DEF SyncInv, TablesTyped
    <2>3. PICK fenced : fenced = [row EXCEPT !.rev = @ + 1, !.life = "disabled", !.val = "invalid"]
      OBVIOUS
    <2>4. fenced = [Edited(a) EXCEPT !.life = "disabled", !.val = "invalid"]
      BY <2>2, <2>3 DEF Edited, AccountRows
    <2>5. account' = account \/ account' = [account EXCEPT ![a] = fenced]
      BY <1>3, <2>1, <2>4 DEF FailIdentity, FenceAccount
    <2>6. fenced.allow = row.allow /\ fenced.life = "disabled"
      BY <2>3 DEF AccountRows
    <2> QED  BY <2>2, <2>5, <2>6 DEF SyncInv, TablesTyped
  <1>4. UNCHANGED account \/ MarkValid(r) \/ FailIdentity(r)
    BY DEF WorkerStep, Start, ReadUser, ReadRepository, ReadAccount, PersistRepository, ReadPage,
           PersistPage, Complete, EndIncomplete, Drift, Fail, HitCeiling, Crash, Resume, Go
  <1> QED  BY <1>1, <1>2, <1>3, <1>4

LEMMA RunsMove ==
    ASSUME SyncInv, NEW r \in Runs, WorkerStep(r) \/ Crash(r) \/ Resume(r)
    PROVE  /\ UNCHANGED github
           /\ \A q \in Runs \ {r} : work'[q] = work[q] /\ run'[q] = run[q]
           /\ run'[r].account = run[r].account
           /\ run'[r].status \in Active => run[r].status \in Active
           /\ run[r].status \in Active
  <1>1. PICK row \in RunRows : row = run[r]
    BY DEF SyncInv, TablesTyped
  <1>2. CASE Ends(r)
    <2>1. work[r].at \in Working /\ Done(r) /\ UNCHANGED github /\ \E status \in Terminal : Settle(r, status)
      BY <1>2, EndFacts DEF Terminal
    <2>2. PICK status \in Terminal : Settle(r, status)
      BY <2>1
    <2>3. PICK whole \in BOOLEAN : whole = (status = "succeeded")
      OBVIOUS
    <2>4. run' = [run EXCEPT ![r] = [row EXCEPT !.status = status, !.complete = whole]]
      BY <1>1, <2>2, <2>3 DEF Settle, SyncInv, TablesTyped, RunRows
    <2>5. run'[r] = [row EXCEPT !.status = status, !.complete = whole]
      BY <2>4 DEF SyncInv, TablesTyped
    <2>6. run'[r].account = row.account /\ run'[r].status = status
      BY <2>5 DEF RunRows
    <2>7. \A q \in Runs \ {r} : work'[q] = work[q] /\ run'[q] = run[q]
      BY <2>1, <2>4 DEF Done, SyncInv, TablesTyped, WorkersTyped
    <2>8. run[r].status \in Active
      BY <2>1, BusyFacts
    <2> QED  BY <1>1, <2>1, <2>6, <2>7, <2>8
  <1>3. CASE ~Ends(r)
    <2>1. UNCHANGED github /\ \A q \in Runs \ {r} : work'[q] = work[q] /\ run'[q] = run[q]
      BY <1>3 DEF WorkerStep, Ends, Start, MarkRunning, ReadUser, ReadRepository, ReadAccount, MarkValid,
             PersistRepository, ReadPage, PersistPage, Crash, Resume, Go, SyncInv, TablesTyped, WorkersTyped
    <2>2. run'[r] = row \/ run'[r] = [row EXCEPT !.status = "running"]
      BY <1>1, <1>3 DEF WorkerStep, Ends, Start, MarkRunning, ReadUser, ReadRepository, ReadAccount, MarkValid,
             PersistRepository, ReadPage, PersistPage, Crash, Resume, Go, SyncInv, TablesTyped
    <2>3. work[r].at \in Working \/ run[r].status \in Active
      BY <1>3 DEF WorkerStep, Ends, Start, ReadUser, ReadRepository, ReadAccount, MarkValid,
             PersistRepository, ReadPage, PersistPage, Crash, Resume, Step, Working, Places, SyncInv,
             WorkersTyped, WorkRows
    <2>4. run[r].status \in Active
      BY <2>3, BusyFacts
    <2> QED  BY <1>1, <2>1, <2>2, <2>4 DEF RunRows
  <1> QED  BY <1>2, <1>3

LEMMA ItemsElsewhere ==
    ASSUME SyncInv, NEW r \in Runs, WorkerStep(r) \/ Crash(r) \/ Resume(r)
    PROVE  \A b \in Accounts : b # run[r].account => items'[b] = items[b]
  <1>1. UNCHANGED items \/ items' = Reconciled(r) \/ items' = PersistRows(r)
    BY DEF WorkerStep, Start, ReadUser, ReadRepository, ReadAccount, MarkValid, PersistRepository, ReadPage,
           PersistPage, Complete, EndIncomplete, Drift, Fail, HitCeiling, FailIdentity, Crash, Resume, Go
  <1>2. items \in [Accounts -> [Keys -> Seq(ItemRows)]]
    BY DEF SyncInv, TablesTyped
  <1> QED  BY <1>1, <1>2 DEF Reconciled, PersistRows

\* The workers of the other runs read on.
LEMMA OthersFollow ==
    ASSUME SyncInv, NEW r \in Runs, WorkerStep(r) \/ Crash(r) \/ Resume(r),
           \A q \in Runs : PageNew(q) /\ Follows(q)
    PROVE  \A q \in Runs \ {r} : PageNew(q)' /\ Follows(q)'
  <1> SUFFICES ASSUME NEW q \in Runs \ {r}
               PROVE  PageNew(q)' /\ Follows(q)'
    OBVIOUS
  <1>1. work'[q] = work[q] /\ run'[q] = run[q] /\ UNCHANGED github /\ run[r].status \in Active
    BY RunsMove
  <1>2. ASSUME work[q].at \in Working
        PROVE  Allowed(q)' = Allowed(q) /\ items'[run[q].account] = items[run[q].account]
    <2>1. run[q].account \in Accounts /\ run[q].account # run[r].account
      BY <1>1, <1>2, BusyFacts
    <2> QED  BY <1>1, <2>1, AccountsKept, ItemsElsewhere DEF Allowed
  <1> QED  BY <1>1, <1>2, FollowsKept

\* GitHub's versions only grow, and while it removes nothing, what is listed after some
\* place of a list is so for good.
LEMMA GitHubEffect ==
    ASSUME SyncInv, GitHubStep
    PROVE  \E removes \in BOOLEAN :
              /\ Change(removes)
              /\ \A p \in Repos, i \in Items : github[p].version[i] <= github'[p].version[i]
              /\ ~removes => \A p \in Repos, i \in Items, from \in Nat : ListedAfter(p, i, from) => ListedAfter(p, i, from)'
  <1>1. github \in [Repos -> GitHubRows]
    BY DEF SyncInv, OutsideTyped
  <1>2. \A p \in Repos, i \in Items : github[p].version[i] \in Nat
    BY GitHubTyped
  <1>3. ASSUME NEW p \in Repos, NEW i \in Items, AddItem(p, i)
        PROVE  /\ Change(FALSE)
               /\ \A d \in Repos, o \in Items : github[d].version[o] <= github'[d].version[o]
               /\ \A d \in Repos, o \in Items, from \in Nat : ListedAfter(d, o, from) => ListedAfter(d, o, from)'
    <2>1. PICK row \in GitHubRows : row = github[p]
      BY <1>1
    <2>2. PICK list \in Seq(Items) : list = <<i>> \o row.list
      <3>1. <<i>> \in Seq(Items) /\ row.list \in Seq(Items)
        BY DEF GitHubRows
      <3> QED  BY <3>1, ConcatProperties
    <2>3. github' = [github EXCEPT ![p] = [row EXCEPT !.list = list]]
      BY <1>1, <1>3, <2>1, <2>2 DEF AddItem
    <2>4. github'[p].list = list /\ github'[p].version = row.version
      BY <1>1, <2>1, <2>3 DEF GitHubRows
    <2>5. \A d \in Repos \ {p} : github'[d] = github[d]
      BY <1>1, <2>3
    <2>6. \A d \in Repos, o \in Items : github'[d].version[o] = github[d].version[o]
      BY <2>1, <2>4, <2>5
    <2>7. ASSUME NEW o, NEW from \in Nat, ListedAfter(p, o, from)
          PROVE  ListedAfter(p, o, from)'
      <3>1. PICK old \in Seq(Items) : old = row.list
        BY DEF GitHubRows
      <3>2. PICK j \in DOMAIN old : old[j] = o /\ j > from
        BY <2>1, <2>7, <3>1 DEF ListedAfter
      <3>3. /\ <<i>> \in Seq(Items) /\ Len(<<i>>) = 1
            /\ Len(list) = 1 + Len(old) /\ DOMAIN list = 1 .. Len(list)
            /\ DOMAIN old = 1 .. Len(old) /\ Len(old) \in Nat
        BY <2>2, <3>1, ConcatProperties, LenProperties
      <3>4. j + 1 \in DOMAIN list /\ j + 1 > from /\ j + 1 > 1 /\ (j + 1) - 1 = j
        BY <3>2, <3>3
      <3>5. \A n \in 1 .. (Len(<<i>>) + Len(old)) :
                (<<i>> \o old)[n] = IF n <= Len(<<i>>) THEN <<i>>[n] ELSE old[n - Len(<<i>>)]
        BY <3>3, ConcatProperties
      <3>6. list[j + 1] = o
        BY <2>2, <3>1, <3>2, <3>3, <3>4, <3>5
      <3> QED  BY <2>4, <3>4, <3>6 DEF ListedAfter
    <2>8. \A d \in Repos, o \in Items, from \in Nat : ListedAfter(d, o, from) => ListedAfter(d, o, from)'
      BY <2>5, <2>7 DEF ListedAfter
    <2>9. \A d \in Repos, o \in Items : github[d].version[o] <= github'[d].version[o]
      BY <1>2, <2>6
    <2> QED  BY <1>3, <2>8, <2>9 DEF AddItem
  <1>4. ASSUME NEW p \in Repos, NEW i \in Items, EditItem(p, i)
        PROVE  /\ Change(FALSE)
               /\ \A d \in Repos, o \in Items : github[d].version[o] <= github'[d].version[o]
               /\ \A d \in Repos, o \in Items, from \in Nat : ListedAfter(d, o, from) => ListedAfter(d, o, from)'
    <2>1. PICK row \in GitHubRows : row = github[p]
      BY <1>1
    <2>2. PICK version \in [Items -> Nat] : version = [row.version EXCEPT ![i] = @ + 1]
      <3>1. PICK old \in [Items -> Nat], v \in Nat : old = row.version /\ v = old[i]
        BY DEF GitHubRows
      <3>2. [old EXCEPT ![i] = v + 1] \in [Items -> Nat]
        BY <3>1
      <3> QED  BY <3>1, <3>2
    <2>3. github' = [github EXCEPT ![p] = [row EXCEPT !.version = version]]
      BY <1>1, <1>4, <2>1, <2>2 DEF EditItem
    <2>4. github'[p].list = row.list /\ github'[p].version = version
      BY <1>1, <2>1, <2>3 DEF GitHubRows
    <2>5. \A d \in Repos \ {p} : github'[d] = github[d]
      BY <1>1, <2>3
    <2>6. \A o \in Items : row.version[o] \in Nat /\ row.version[o] <= version[o]
      BY <2>2 DEF GitHubRows
    <2>7. \A d \in Repos, o \in Items : github[d].version[o] <= github'[d].version[o]
      BY <1>2, <2>1, <2>4, <2>5, <2>6
    <2>8. \A d \in Repos : github'[d].list = github[d].list
      BY <2>1, <2>4, <2>5
    <2> QED  BY <1>4, <2>7, <2>8 DEF EditItem, ListedAfter
  <1>5. ASSUME NEW p \in Repos, NEW i \in Items, RemoveItem(p, i)
        PROVE  /\ Change(TRUE)
               /\ \A d \in Repos, o \in Items : github[d].version[o] <= github'[d].version[o]
    <2>1. PICK row \in GitHubRows : row = github[p]
      BY <1>1
    <2>2. PICK list : github' = [github EXCEPT ![p] = [row EXCEPT !.list = list]]
      BY <1>1, <1>5, <2>1 DEF RemoveItem
    <2>3. github'[p].version = row.version /\ \A d \in Repos \ {p} : github'[d] = github[d]
      BY <1>1, <2>2 DEF GitHubRows
    <2>4. \A d \in Repos, o \in Items : github'[d].version[o] = github[d].version[o]
      BY <2>1, <2>3
    <2>5. \A d \in Repos, o \in Items : github[d].version[o] <= github'[d].version[o]
      BY <1>2, <2>4
    <2> QED  BY <1>5, <2>5 DEF RemoveItem
  <1>6. ASSUME NEW p \in Repos, ReplaceRepository(p)
        PROVE  /\ Change(FALSE)
               /\ \A d \in Repos, o \in Items : github[d].version[o] <= github'[d].version[o]
               /\ \A d \in Repos, o \in Items, from \in Nat : ListedAfter(d, o, from) => ListedAfter(d, o, from)'
    <2>1. PICK row \in GitHubRows : row = github[p]
      BY <1>1
    <2>2. PICK id : github' = [github EXCEPT ![p] = [row EXCEPT !.id = id]]
      BY <1>1, <1>6, <2>1 DEF ReplaceRepository
    <2>3. github'[p].version = row.version /\ github'[p].list = row.list
          /\ \A d \in Repos \ {p} : github'[d] = github[d]
      BY <1>1, <2>2 DEF GitHubRows
    <2>4. /\ \A d \in Repos, o \in Items : github'[d].version[o] = github[d].version[o]
          /\ \A d \in Repos : github'[d].list = github[d].list
      BY <2>1, <2>3
    <2>5. \A d \in Repos, o \in Items : github[d].version[o] <= github'[d].version[o]
      BY <1>2, <2>4
    <2> QED  BY <1>6, <2>4, <2>5 DEF ReplaceRepository, ListedAfter
  <1> QED  BY <1>3, <1>4, <1>5, <1>6 DEF GitHubStep

LEMMA ListedIs ==
    ASSUME SyncInv, NEW k \in Keys
    PROVE  k \in Listed <=> ListedAfter(k[1], k[2], 0)
  <1>1. \A j \in DOMAIN github[k[1]].list : j > 0
    BY KeyTyped, GitHubTyped, LenProperties
  <1> QED  BY <1>1 DEF Listed, ListedAfter

LEMMA GitHubReadings ==
    ASSUME SyncInv, SyncInv', Readings, GitHubStep
    PROVE  Readings'
  <1>1. PICK removes \in BOOLEAN :
            /\ Change(removes)
            /\ \A p \in Repos, i \in Items : github[p].version[i] <= github'[p].version[i]
            /\ ~removes => \A p \in Repos, i \in Items, from \in Nat : ListedAfter(p, i, from) => ListedAfter(p, i, from)'
    BY GitHubEffect
  <1>2. UNCHANGED <<account, run, known, items>>
    BY <1>1 DEF Change
  <1>3. Existing'
    BY <1>2 DEF Readings, Existing
  <1>4. Newest'
    BY <1>1, <1>2, KeyTyped, NewestKept DEF Readings
  <1>5. ASSUME NEW r \in Runs PROVE PageNew(r)' /\ Follows(r)'
    <2>1. PICK w \in WorkRows : w = work[r]
      BY DEF SyncInv, WorkersTyped
    <2>2. work'[r] = IF w.at \in Started
              THEN [w EXCEPT !.changed = TRUE, !.removed = @ \/ removes] ELSE w
      BY <1>1, <2>1 DEF Change
    <2>3. PageNew(r) /\ Follows(r)
      BY DEF Readings
    <2>4. CASE w.at \notin Started
      BY <2>1, <2>2, <2>3, <2>4 DEF PageNew, Follows, Started, Places
    <2>5. CASE w.at \in Started
      <3>1. PICK removed \in BOOLEAN : removed = (w.removed \/ removes)
        OBVIOUS
      <3>2. work'[r] = [w EXCEPT !.changed = TRUE, !.removed = removed]
        BY <2>2, <2>5, <3>1 DEF WorkRows
      <3>3. /\ work'[r].at = w.at /\ work'[r].changed = TRUE /\ work'[r].removed = removed
            /\ work'[r].todo = w.todo /\ work'[r].page = w.page /\ work'[r].got = w.got
            /\ work'[r].observed = w.observed /\ work'[r].incomplete = w.incomplete
            /\ work'[r].absent = w.absent
        BY <3>2 DEF WorkRows
      <3>4. From(r)' = From(r) /\ From(r) \in Nat /\ From(r) + PageSize \in Nat /\ PageKeys(r)' = PageKeys(r)
        <4>1. From(r)' = From(r) /\ PageKeys(r)' = PageKeys(r)
          BY <2>1, <3>3 DEF From, PageKeys
        <4> QED  BY <4>1, FromTyped, SyncAssumption
      <3>5. Allowed(r)' = Allowed(r)
        BY <1>2 DEF Allowed
      <3>6. ASSUME ~removed, NEW k \in Keys, ToCome(r, k)
            PROVE  ToCome(r, k)'
        <4>0. PICK p \in Repos, i \in Items : p = k[1] /\ i = k[2]
          BY KeyTyped
        <4>a. ~removes
          BY <3>1, <3>6
        <4>b. \A from \in Nat : ListedAfter(p, i, from) => ListedAfter(p, i, from)'
          BY <1>1, <4>a
        <4>2. \A from \in Nat : ListedAfter(k[1], k[2], from) => ListedAfter(k[1], k[2], from)'
          BY <4>0, <4>b DEF ListedAfter
        <4>1. k \in Listed => k \in Listed'
          <5>1. k \in Listed => ListedAfter(k[1], k[2], 0)'
            BY <4>2, ListedIs
          <5> QED  BY <5>1 DEF Listed, ListedAfter
        <4>3. /\ ListedAfter(k[1], k[2], From(r)) => ListedAfter(k[1], k[2], From(r))'
              /\ ListedAfter(k[1], k[2], From(r) + PageSize) => ListedAfter(k[1], k[2], From(r) + PageSize)'
          BY <3>4, <4>2
        <4> QED  BY <2>1, <3>3, <3>4, <3>6, <4>1, <4>3 DEF ToCome
      <3>7. Ahead(r)'
        <4>1. Ahead(r)
          BY <2>1, <2>3, <2>5 DEF Follows
        <4> QED  BY <2>1, <3>1, <3>3, <3>5, <3>6, <4>1 DEF Ahead
      <3>8. Faithful(r)'
        BY <3>3 DEF Faithful
      <3>9. PageNew(r)'
        <4> SUFFICES ASSUME w.at = "persist", NEW j \in DOMAIN w.got, NEW k, k = PageKey(r, j)'
                     PROVE  /\ w.got[j].version <= github'[k[1]].version[k[2]]
                            /\ Has(run[r].account, k)' => Latest(run[r].account, k)'.version <= w.got[j].version
          BY <1>2, <3>3 DEF PageNew
        <4>1. k = PageKey(r, j)
          BY <2>1, <3>3 DEF PageKey
        <4>2. k \in Keys /\ w.got[j].version \in Nat
          <5>1. w.at \in WithRepository
            BY DEF WithRepository
          <5> QED  BY <2>1, <4>1, <5>1, PageRowTyped
        <4>3. /\ w.got[j].version <= github[k[1]].version[k[2]]
              /\ Has(run[r].account, k) => Latest(run[r].account, k).version <= w.got[j].version
          BY <2>1, <2>3, <4>1 DEF PageNew
        <4>4. PICK v, g, h \in Nat : /\ v = w.got[j].version /\ g = github[k[1]].version[k[2]]
                                     /\ h = github'[k[1]].version[k[2]]
          BY <4>2, GitHubTyped, KeyTyped DEF SyncInv, OutsideTyped, GitHubRows
        <4>5. v <= g /\ g <= h
          BY <1>1, <4>2, <4>3, <4>4, KeyTyped
        <4>6. Has(run[r].account, k)' = Has(run[r].account, k) /\ Latest(run[r].account, k)' = Latest(run[r].account, k)
          BY <1>2 DEF Has, Latest
        <4> QED  BY <4>3, <4>4, <4>5, <4>6
      <3>10. work'[r].at # "captured" /\ (work'[r].at \in Reading => ToSet(work'[r].todo) \subseteq Allowed(r)')
        BY <2>1, <2>3, <2>5, <3>3, <3>5 DEF Follows, Started
      <3> QED  BY <3>3, <3>7, <3>8, <3>9, <3>10 DEF Follows
    <2> QED  BY <2>4, <2>5
  <1> QED  BY <1>3, <1>4, <1>5 DEF Readings

\* Reconciliation leaves the versions of every history alone.
LEMMA ReconciledVersions ==
    ASSUME SyncInv, NEW r \in Runs, NEW a \in Accounts, NEW k \in Keys,
           NEW rows, rows = items[a][k], NEW told, told = Reconciled(r)[a][k]
    PROVE  /\ told # <<>> <=> rows # <<>>
           /\ DOMAIN told = DOMAIN rows /\ Len(told) = Len(rows)
           /\ \A n \in DOMAIN rows : told[n].version = rows[n].version
  <1>1. items \in [Accounts -> [Keys -> Seq(ItemRows)]] /\ rows \in Seq(ItemRows)
    BY DEF SyncInv, TablesTyped
  <1>2. PICK word \in {"current", "stale"} : word = IF k \in work[r].observed THEN "current" ELSE "stale"
    OBVIOUS
  <1>3. CASE a = run[r].account /\ Has(a, k) /\ Latest(a, k).scope = run[r].scope
    <2>1. told = [rows EXCEPT ![Len(rows)].state = word]
      BY <1>1, <1>2, <1>3 DEF Reconciled
    <2>2. rows # <<>>
      BY <1>3 DEF Has
    <2>3. Len(rows) \in 1 .. Len(rows) /\ rows[Len(rows)] \in ItemRows /\ DOMAIN rows = 1 .. Len(rows)
      BY <1>1, <2>2, EmptySeq, LenProperties, ElementOfSeq
    <2>4. PICK last \in ItemRows : last = [rows[Len(rows)] EXCEPT !.state = word]
      BY <2>3 DEF ItemRows
    <2>5. last.version = rows[Len(rows)].version
      BY <2>3, <2>4 DEF ItemRows
    <2>6. told = [rows EXCEPT ![Len(rows)] = last]
      BY <2>1, <2>4
    <2>7. told \in Seq(ItemRows) /\ Len(told) = Len(rows)
      BY <1>1, <2>3, <2>4, <2>6, ExceptSeq
    <2>8. DOMAIN told = DOMAIN rows
      BY <2>3, <2>7, LenProperties
    <2>9. told # <<>>
      BY <2>3, <2>7, EmptySeq, LenProperties
    <2>10. \A n \in DOMAIN rows : told[n] = IF n = Len(rows) THEN last ELSE rows[n]
      BY <1>1, <2>6
    <2> QED  BY <2>2, <2>5, <2>7, <2>8, <2>9, <2>10
  <1>4. CASE ~(a = run[r].account /\ Has(a, k) /\ Latest(a, k).scope = run[r].scope)
    <2>1. told = rows
      BY <1>1, <1>4 DEF Reconciled
    <2> QED  BY <2>1
  <1> QED  BY <1>3, <1>4

LEMMA CompleteNewest ==
    ASSUME SyncInv, Newest, NEW r \in Runs, Complete(r)
    PROVE  Newest'
  <1>1. items' = Reconciled(r) /\ UNCHANGED github
    BY DEF Complete
  <1> SUFFICES ASSUME NEW a \in Accounts, NEW k \in Keys, items'[a][k] # <<>>
               PROVE  /\ Last(items'[a][k]).version <= github[k[1]].version[k[2]]
                      /\ \A n \in DOMAIN items'[a][k] : items'[a][k][n].version <= Last(items'[a][k]).version
    BY <1>1 DEF Newest, Has, Latest
  <1>2. PICK rows, told : rows = items[a][k] /\ told = items'[a][k]
    OBVIOUS
  <1>3. /\ rows # <<>> /\ DOMAIN told = DOMAIN rows /\ Len(told) = Len(rows)
        /\ \A n \in DOMAIN rows : told[n].version = rows[n].version
    <2>1. told = Reconciled(r)[a][k] /\ told # <<>>
      BY <1>1, <1>2
    <2> QED  BY <1>2, <2>1, ReconciledVersions
  <1>4. Len(rows) \in DOMAIN rows
    <2>1. rows \in Seq(ItemRows)
      BY <1>2 DEF SyncInv, TablesTyped
    <2> QED  BY <1>3, <2>1, EmptySeq, LenProperties
  <1>5. Last(told).version = Last(rows).version
    BY <1>3, <1>4 DEF Last
  <1>6. /\ Last(rows).version <= github[k[1]].version[k[2]]
        /\ \A n \in DOMAIN rows : rows[n].version <= Last(rows).version
    BY <1>2, <1>3 DEF Newest, Has, Latest
  <1> QED  BY <1>2, <1>3, <1>5, <1>6

\* A worker that ends, dies or is taken up again has read nothing.
LEMMA IdleFollows ==
    ASSUME SyncInv, NEW r \in Runs, Ends(r) \/ Crash(r) \/ Resume(r)
    PROVE  PageNew(r)' /\ Follows(r)'
  <1>1. work'[r] = Fresh \/ work'[r].at \in {"done", "dead"}
    <2>1. CASE Ends(r)
      <3>1. work'[r] = [Fresh EXCEPT !.at = "done", !.observed = work[r].observed]
        BY <2>1, EndFacts DEF Done, SyncInv, WorkersTyped
      <3> QED  BY <3>1 DEF Fresh
    <2>2. CASE Crash(r) \/ Resume(r)
      BY <2>2 DEF Crash, Resume, Fresh, SyncInv, WorkersTyped
    <2> QED  BY <2>1, <2>2
  <1> QED  BY <1>1 DEF Fresh, PageNew, Follows, Started

LEMMA WorkerReadings ==
    ASSUME SyncInv, SyncInv', Readings, NEW r \in Runs, WorkerStep(r) \/ Crash(r) \/ Resume(r)
    PROVE  Readings'
  <1>1. Newest /\ \A q \in Runs : PageNew(q) /\ Follows(q)
    BY DEF Readings
  <1>2. PageNew(r)' /\ Follows(r)'
    BY <1>1, StartFollows, PrepareFollows, MarkValidFollows, PersistRepositoryFollows,
       ReadPageFollows, PersistPageFollows, IdleFollows DEF WorkerStep, Ends
  <1>3. Newest'
    <2>1. CASE PersistPage(r)
      BY <1>1, <2>1, PageNewest
    <2>2. CASE Complete(r)
      BY <1>1, <2>2, CompleteNewest
    <2>3. CASE ~PersistPage(r) /\ ~Complete(r)
      <3>1. UNCHANGED items
        BY <2>3 DEF WorkerStep, Start, ReadUser, ReadRepository, ReadAccount, MarkValid, PersistRepository,
           ReadPage, EndIncomplete, Drift, Fail, HitCeiling, FailIdentity, Crash, Resume, Go
      <3>2. \A k \in Keys : github[k[1]].version[k[2]] <= github'[k[1]].version[k[2]]
        BY RunsMove, GitHubTyped, KeyTyped
      <3> QED  BY <1>1, <3>1, <3>2, NewestKept
    <2> QED  BY <2>1, <2>2, <2>3
  <1>4. Existing'
    <2> SUFFICES ASSUME NEW q \in Runs, run'[q].status \in Active
                 PROVE  account'[run'[q].account].life # "absent"
      BY DEF Existing
    <2>1. run[q].status \in Active /\ run'[q].account = run[q].account
      BY RunsMove
    <2>2. account[run[q].account].life # "absent" /\ run[q].account \in Accounts
      BY <2>1 DEF Readings, Existing, SyncInv, TablesTyped, RunRows
    <2> QED  BY <2>1, <2>2, AccountsKept
  <1>5. \A q \in Runs \ {r} : PageNew(q)' /\ Follows(q)'
    BY <1>1, OthersFollow
  <1> QED  BY <1>2, <1>3, <1>4, <1>5 DEF Readings

LEMMA BeginReadings ==
    ASSUME SyncInv, SyncInv', Readings, NEW r \in Runs, NEW a \in Accounts,
           NEW trigger \in {"manual", "scheduled"}, Begin(r, a, trigger)
    PROVE  Readings'
  <1>1. /\ UNCHANGED <<account, github, items>> /\ work'[r] = Fresh
        /\ \A q \in Runs \ {r} : work'[q] = work[q] /\ run'[q] = run[q]
        /\ account[a].life = "enabled" /\ run'[r].account = a
    BY DEF Begin, Claim, Claimable, SyncInv, TablesTyped, WorkersTyped
  <1>2. Existing'
    BY <1>1 DEF Readings, Existing
  <1>3. Newest'
    BY <1>1, NewestKept, GitHubTyped, KeyTyped DEF Readings
  <1>4. PageNew(r)' /\ Follows(r)'
    BY <1>1 DEF Fresh, PageNew, Follows, Started
  <1>5. ASSUME NEW q \in Runs \ {r} PROVE PageNew(q)' /\ Follows(q)'
    <2>1. Allowed(q)' = Allowed(q)
      BY <1>1 DEF Allowed
    <2> QED  BY <1>1, <2>1, FollowsKept DEF Readings
  <1> QED  BY <1>2, <1>3, <1>4, <1>5 DEF Readings

LEMMA ConfigureReadings ==
    ASSUME SyncInv, SyncInv', Readings, NEW a \in Accounts, Configure(a)
    PROVE  Readings'
  <1>1. UNCHANGED <<run, github, items, work>>
    BY DEF Configure, ConfigureAccount, CreateAccount, UpdateAccount, SetLifecycle
  <1>2. /\ \A b \in Accounts \ {a} : account'[b] = account[b]
        /\ account[a].life # "absent" => account'[a].life # "absent"
        /\ account[a].life # "absent" /\ ActiveRuns(a) # {} => account'[a].allow = account[a].allow
    <2>1. PICK row \in AccountRows : row = account[a]
      BY DEF SyncInv, TablesTyped
    <2>2. CASE CreateAccount(a)
      BY <2>2 DEF CreateAccount, SyncInv, TablesTyped
    <2>3. CASE UpdateAccount(a)
      <3>1. PICK s, l : account' = [account EXCEPT ![a] =
                            [Edited(a) EXCEPT !.scope = s, !.allow = l, !.val = "unvalidated"]]
        BY <2>3 DEF UpdateAccount
      <3>2. PICK edited : edited = [row EXCEPT !.rev = @ + 1, !.scope = s, !.allow = l, !.val = "unvalidated"]
        OBVIOUS
      <3>3. edited = [Edited(a) EXCEPT !.scope = s, !.allow = l, !.val = "unvalidated"]
        BY <2>1, <3>2 DEF Edited, AccountRows
      <3>4. account' = [account EXCEPT ![a] = edited] /\ edited.life = row.life
        BY <3>1, <3>2, <3>3 DEF AccountRows
      <3>5. ActiveRuns(a) = {}
        BY <2>3 DEF UpdateAccount
      <3> QED  BY <2>1, <3>4, <3>5 DEF SyncInv, TablesTyped
    <2>4. ASSUME NEW t \in {"enabled", "disabled", "revoked"}, SetLifecycle(a, t)
          PROVE  /\ \A b \in Accounts \ {a} : account'[b] = account[b]
                 /\ account'[a].life = t /\ account'[a].allow = account[a].allow
      <3>1. PICK val : val = IF t = "revoked" THEN "revoked" ELSE row.val
        OBVIOUS
      <3>2. PICK edited : edited = [row EXCEPT !.rev = @ + 1, !.life = t, !.val = val]
        OBVIOUS
      <3>3. edited = [Edited(a) EXCEPT !.life = t, !.val = IF t = "revoked" THEN "revoked" ELSE @]
        BY <2>1, <3>1, <3>2 DEF Edited, AccountRows
      <3>4. account' = [account EXCEPT ![a] = edited]
        BY <2>4, <3>3 DEF SetLifecycle
      <3>5. edited.life = t /\ edited.allow = row.allow
        BY <3>2 DEF AccountRows
      <3> QED  BY <2>1, <3>4, <3>5 DEF SyncInv, TablesTyped
    <2> QED  BY <2>2, <2>3, <2>4 DEF Configure, ConfigureAccount
  <1>3. Existing'
    <2> SUFFICES ASSUME NEW q \in Runs, run[q].status \in Active
                 PROVE  account'[run[q].account].life # "absent"
      BY <1>1 DEF Existing
    <2>1. account[run[q].account].life # "absent" /\ run[q].account \in Accounts
      BY DEF Readings, Existing, SyncInv, TablesTyped, RunRows
    <2> QED  BY <1>2, <2>1
  <1>4. Newest'
    BY <1>1, NewestKept, GitHubTyped, KeyTyped DEF Readings
  <1>5. ASSUME NEW q \in Runs PROVE PageNew(q)' /\ Follows(q)'
    <2>1. ASSUME work[q].at \in Working
          PROVE  Allowed(q)' = Allowed(q)
      <3>1. run[q].status \in Active /\ run[q].account \in Accounts
        BY <2>1, BusyFacts
      <3>2. account[run[q].account].life # "absent" /\ q \in ActiveRuns(run[q].account)
        BY <3>1 DEF Readings, Existing, ActiveRuns
      <3> QED  BY <1>1, <1>2, <3>1, <3>2 DEF Allowed
    <2> QED  BY <1>1, <2>1, FollowsKept DEF Readings
  <1> QED  BY <1>3, <1>4, <1>5 DEF Readings

LEMMA ReadingsStep ==
    ASSUME SyncInv, SyncInv', Readings, [Next]_syncVars
    PROVE  Readings'
  <1>1. CASE UNCHANGED syncVars
    <2>1. UNCHANGED <<account, run, github, items, work>>
      BY <1>1 DEF syncVars
    <2>2. ASSUME NEW q \in Runs PROVE PageNew(q)' /\ Follows(q)'
      <3>1. Allowed(q)' = Allowed(q)
        BY <2>1 DEF Allowed
      <3> QED  BY <2>1, <3>1, FollowsKept DEF Readings
    <2>3. Newest' /\ Existing'
      BY <2>1, NewestKept, GitHubTyped, KeyTyped DEF Readings, Existing
    <2> QED  BY <2>2, <2>3 DEF Readings
  <1>2. CASE Next
    BY <1>2, ConfigureReadings, BeginReadings, WorkerReadings, GitHubReadings DEF Next
  <1> QED  BY <1>1, <1>2

LEMMA ReadingsInvariant == Spec => []Readings
  <1>1. SyncInv /\ SyncInv' /\ Readings /\ [Next]_syncVars => Readings'
    BY ReadingsStep
  <1> QED  BY <1>1, InitReadings, SyncInvariant, PTL DEF Spec

\* What a complete run says of GitHub.
LEMMA MirrorStep ==
    ASSUME SyncInv, Readings, NEW r \in Runs, Complete(r)
    PROVE  LET a == run[r].account
               here == {k \in Listed : k[1] \in account[a].allow}
           IN  /\ ~work[r].removed => \A k \in Keys : Stales(a, k) =>
                      k \in work[r].absent \/ k[1] \notin account[a].allow
               /\ ~work[r].changed =>
                    /\ \A k \in here : Has(a, k) /\ Latest(a, k).version = github[k[1]].version[k[2]]
                    /\ \A k \in Keys : Has(a, k) /\ Latest(a, k).scope = run[r].scope =>
                          (Last(items'[a][k]).state = "current") = (k \in here)
  <1> DEFINE a == run[r].account
             here == {k \in Listed : k[1] \in account[a].allow}
  <1>1. work[r].at = "reconcile" /\ ~work[r].incomplete /\ items' = Reconciled(r)
    BY DEF Complete, Step
  <1>2. a \in Accounts /\ Allowed(r) = account[a].allow
    BY DEF SyncInv, TablesTyped, RunRows, Allowed
  <1>3. Ahead(r) /\ Faithful(r) /\ (work[r].removed => work[r].changed)
    BY <1>1 DEF Readings, Follows, Started, Places
  <1>4. \A k : ~ToCome(r, k)
    BY <1>1 DEF ToCome, Preparing
  <1>5. ~work[r].removed => \A k \in Keys \ work[r].absent : k[1] \in Allowed(r) => k \in work[r].observed
    BY <1>1, <1>3, <1>4 DEF Ahead
  <1>6. \A k \in Keys : Has(a, k) /\ Latest(a, k).scope = run[r].scope =>
            Last(items'[a][k]).state = IF k \in work[r].observed THEN "current" ELSE "stale"
    <2> SUFFICES ASSUME NEW k \in Keys, Has(a, k), Latest(a, k).scope = run[r].scope
                 PROVE  Last(items'[a][k]).state = IF k \in work[r].observed THEN "current" ELSE "stale"
      OBVIOUS
    <2>1. PICK word : word = IF k \in work[r].observed THEN "current" ELSE "stale"
      OBVIOUS
    <2>2. PICK last \in ItemRows : last = Latest(a, k)
      BY <1>2, LatestTyped
    <2>3. Last(items'[a][k]) = [last EXCEPT !.state = word]
      BY <1>1, <1>2, <2>1, <2>2, ReconciledRows
    <2> QED  BY <2>1, <2>2, <2>3 DEF ItemRows
  <1>7. \A k \in Keys : Stales(a, k) => k \notin work[r].observed
    <2> SUFFICES ASSUME NEW k \in Keys, Stales(a, k), k \in work[r].observed
                 PROVE  FALSE
      OBVIOUS
    <2>1. Has(a, k) /\ Latest(a, k).state = "current" /\ Last(items'[a][k]).state = "stale"
      BY DEF Stales
    <2>2. CASE Latest(a, k).scope = run[r].scope
      BY <1>6, <2>1, <2>2
    <2>3. CASE Latest(a, k).scope # run[r].scope
      <3>1. items'[a][k] = items[a][k]
        BY <1>1, <1>2, <2>3, ReconciledRows
      <3> QED  BY <2>1, <3>1 DEF Latest
    <2> QED  BY <2>2, <2>3
  <1>8. ASSUME ~work[r].changed
        PROVE  /\ \A k \in work[r].observed : Exact(r, k)
               /\ \A k \in Keys : k \in here <=> k \in work[r].observed
    <2>1. work[r].absent = Keys \ Listed /\ \A k \in work[r].observed : Exact(r, k)
      BY <1>3, <1>8 DEF Faithful
    <2>2. \A k \in work[r].observed : k \in here
      BY <1>2, <2>1 DEF Exact
    <2>3. \A k \in Keys : k \in here => k \in work[r].observed
      BY <1>2, <1>3, <1>5, <1>8, <2>1
    <2> QED  BY <2>1, <2>2, <2>3
  <1>9. \A k \in here : k \in Keys
    BY DEF Listed
  <1>10. ~work[r].removed => \A k \in Keys : Stales(a, k) => k \in work[r].absent \/ k[1] \notin account[a].allow
    BY <1>2, <1>5, <1>7
  <1>11. ASSUME ~work[r].changed, NEW k \in here
         PROVE  Has(a, k) /\ Latest(a, k).version = github[k[1]].version[k[2]]
    <2>1. Exact(r, k)
      BY <1>8, <1>9, <1>11
    <2> QED  BY <2>1 DEF Exact
  <1>12. ASSUME ~work[r].changed, NEW k \in Keys, Has(a, k), Latest(a, k).scope = run[r].scope
         PROVE  (Last(items'[a][k]).state = "current") = (k \in here)
    BY <1>6, <1>8, <1>12
  <1> QED  BY <1>10, <1>11, <1>12

\* A complete run mirrors GitHub: what turned stale was absent when the run started, unless
\* GitHub removed something meanwhile, and when nothing changed the ledger is GitHub's.
THEOREM GitHubMirrored == Spec => MirrorsGitHub
  <1>1. SyncInv /\ Readings /\ [Next]_syncVars =>
            [\A r \in Runs : Complete(r) =>
               LET a == run[r].account
                   here == {k \in Listed : k[1] \in account[a].allow}
               IN  /\ ~work[r].removed => \A k \in Keys : Stales(a, k) =>
                          k \in work[r].absent \/ k[1] \notin account[a].allow
                   /\ ~work[r].changed =>
                        /\ \A k \in here : Has(a, k) /\ Latest(a, k).version = github[k[1]].version[k[2]]
                        /\ \A k \in Keys : Has(a, k) /\ Latest(a, k).scope = run[r].scope =>
                              (Last(items'[a][k]).state = "current") = (k \in here)]_syncVars
    BY MirrorStep
  <1> QED  BY <1>1, ReadingsInvariant, SyncInvariant, PTL DEF Spec, MirrorsGitHub

=============================================================================
