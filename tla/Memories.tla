------------------------------ MODULE Memories ------------------------------
(***************************************************************************)
(* Memories (app/api/routes/memories), the rules a Memory leaves the       *)
(* active state by (app/memory_quality), their embeddings (the routes and  *)
(* app/memory_embedding_batch, app/memory_embedding_reembedding), and what *)
(* the maintenance audit and a Project export see of them.                 *)
(*                                                                         *)
(* A supersede request is a transaction of three statements: it locks its  *)
(* two rows in UUID order, locks the older row's successors and reads the  *)
(* ancestry of the older row, then commits.  PostgreSQL runs it at READ    *)
(* COMMITTED, so the ancestry is what was committed when it was read; the  *)
(* rows read under FOR UPDATE stay as they are until the commit.  Expiring *)
(* and refining are one locked read and one write, hence one step.  An     *)
(* embedding job talks to the provider between its read and its write.     *)
(***************************************************************************)
EXTENDS Integers, FiniteSets

CONSTANTS
    Memories,    \* rows of memories that may be created
    Scopes,      \* Projects, and "unassigned"
    Births,      \* status, scope and expires_at a creation may ask for
    Requests,    \* supersede requests in flight at once
    Jobs,        \* embedding requests in flight at once
    BatchLimit,  \* bound: rows one batch takes (at most 50 in the request schema)
    Identities,  \* provider, model and dimensions the server may be configured with
    None,        \* no predecessor, no embedding
    MaxRefined   \* bound: Memories refined, once each

Statuses == {"active", "superseded", "invalid", "archived", "expired"}

\* expires_at: absent, a time given at creation, or the moment of the expiration.
Expirations == {"never", "given", "stamped"}

BirthRows == [status : Statuses, scope : Scopes, expires : {"never", "given"}]

ASSUME MemoriesAssumption ==
    /\ Births \subseteq BirthRows /\ IsFiniteSet(Memories) /\ Identities # {} /\ Scopes # {}
    /\ None \notin Memories \cup Identities /\ BatchLimit \in Nat /\ MaxRefined \in Nat

VARIABLES
    memory,     \* memories table
    embedding,  \* memory_embeddings: the identity each Memory was embedded with
    config,     \* the identity the running server is configured with
    request,    \* supersede transactions
    job         \* embedding requests

memoryVars == <<memory, embedding, config, request, job>>

MemoryRows ==
    [status : Statuses \cup {"absent"}, scope : Scopes, expires : Expirations,
     prior : Memories \cup {None}, refined : BOOLEAN]

NoMemory == [status |-> "absent", scope |-> CHOOSE s \in Scopes : TRUE,
             expires |-> "never", prior |-> None, refined |-> FALSE]

\* None stands for a request without rows: a rolled back transaction holds nothing.
NoRequest == [at |-> "idle", older |-> None, newer |-> None]

RequestRows == [at : {"idle", "locked", "decided"},
                older : Memories \cup {None}, newer : Memories \cup {None}]

JobKinds == {"single", "batch", "stale", "all"}

NoJob == [at |-> "idle", kind |-> "single", chosen |-> {}, found |-> FALSE]

JobRows == [at : {"idle", "provider"}, kind : JobKinds, chosen : SUBSET Memories, found : BOOLEAN]

Exists(m) == memory[m].status # "absent"
Active(m) == memory[m].status = "active"

Init ==
    /\ memory = [m \in Memories |-> NoMemory]
    /\ embedding = [m \in Memories |-> None]
    /\ config \in Identities
    /\ request = [q \in Requests |-> NoRequest]
    /\ job = [j \in Jobs |-> NoJob]

-----------------------------------------------------------------------------
(* Rows and their links.                                                   *)

\* Rows whose supersedes_id is the older row: lock_memory_successors.
Successors(m) == {r \in Memories : memory[r].prior = m}

\* The row and everything it supersedes, directly or not: the recursive query
\* of predecessor_chain_contains, which stops because it unions sets.
Ancestry(m) ==
    LET reached[n \in Nat] ==
            IF n = 0 THEN {m}
            ELSE reached[n - 1] \cup ({memory[x].prior : x \in reached[n - 1]} \ {None})
    IN  reached[Cardinality(Memories)]

\* Rows a supersede transaction holds FOR UPDATE: its pair, then the successors too.
LockedBy(q) ==
    CASE request[q].at = "idle"    -> {}
      [] request[q].at = "locked"  -> {request[q].older, request[q].newer}
      [] request[q].at = "decided" -> {request[q].older, request[q].newer}
                                          \cup Successors(request[q].older)

Locked == UNION {LockedBy(q) : q \in Requests}

\* Faulty variant: nobody waits for a row.
IgnoresLocks(m) == TRUE

\* No transaction in flight holds the row.  A foreign key to a row held FOR UPDATE
\* waits like a lock of the row.
Free(m) == m \notin Locked

-----------------------------------------------------------------------------
(* Creating, refining and expiring.                                        *)

\* create_memory: any status, and a predecessor that is neither locked nor changed.
Create(m) ==
    /\ ~Exists(m)
    /\ \E birth \in Births, p \in {x \in Memories : Exists(x) /\ Free(x)} \cup {None} :
           memory' = [memory EXCEPT ![m] =
               [status |-> birth.status, scope |-> birth.scope, expires |-> birth.expires,
                prior |-> p, refined |-> FALSE]]
    /\ UNCHANGED <<embedding, config, request, job>>

\* refine_memory_quality: other values for an active Memory.
Refine(m) ==
    /\ Active(m) /\ Free(m) /\ ~memory[m].refined
    /\ Cardinality({x \in Memories : memory[x].refined}) < MaxRefined
    /\ memory' = [memory EXCEPT ![m].refined = TRUE]
    /\ UNCHANGED <<embedding, config, request, job>>

\* expire_memory: a given time that has passed already is kept.
Expire(m) ==
    /\ Active(m) /\ Free(m)
    /\ \E time \in {"stamped"} \cup ({memory[m].expires} \ {"never"}) :
           memory' = [memory EXCEPT ![m] = [@ EXCEPT !.status = "expired", !.expires = time]]
    /\ UNCHANGED <<embedding, config, request, job>>

-----------------------------------------------------------------------------
(* Superseding.                                                            *)

LockPair(q, older, newer) ==
    /\ request[q].at = "idle" /\ older # newer
    /\ Exists(older) /\ Exists(newer) /\ Free(older) /\ Free(newer)
    /\ request' = [request EXCEPT ![q] = [at |-> "locked", older |-> older, newer |-> newer]]
    /\ UNCHANGED <<memory, embedding, config, job>>

\* Faulty variant: an older row that has a replacement may get another one.
EligibleAgain(older, newer) ==
    /\ memory[older].scope = memory[newer].scope
    /\ Active(older) /\ Active(newer)
    /\ memory[newer].prior = None
    /\ newer \notin Ancestry(older)

\* classify_supersession answers "updated".
Eligible(older, newer) ==
    /\ memory[older].scope = memory[newer].scope
    /\ Active(older) /\ Active(newer)
    /\ memory[newer].prior = None
    /\ Successors(older) = {}
    /\ newer \notin Ancestry(older)

\* The successors are locked, so another transaction must not hold them.
SuccessorsFree(q) ==
    \A p \in Requests \ {q} : Successors(request[q].older) \cap LockedBy(p) = {}

\* The locked rows and the committed ancestry decide; a conflict or a replay rolls back.
Classify(q) ==
    /\ request[q].at = "locked" /\ SuccessorsFree(q)
    /\ request' = [request EXCEPT ![q] =
           IF Eligible(@.older, @.newer) THEN [@ EXCEPT !.at = "decided"] ELSE NoRequest]
    /\ UNCHANGED <<memory, embedding, config, job>>

\* apply_memory_supersession, committed.
Supersede(q) ==
    /\ request[q].at = "decided"
    /\ memory' = [memory EXCEPT ![request[q].newer].prior = request[q].older,
                                ![request[q].older].status = "superseded"]
    /\ request' = [request EXCEPT ![q] = NoRequest]
    /\ UNCHANGED <<embedding, config, job>>

\* A database error, or the deadlock of two requests that wait for each other's successors.
Rollback(q) ==
    /\ request[q].at # "idle"
    /\ request' = [request EXCEPT ![q] = NoRequest]
    /\ UNCHANGED <<memory, embedding, config, job>>

-----------------------------------------------------------------------------
(* Embeddings.  The content of a Memory never changes, so an embedding is  *)
(* stale exactly when it was made under another configured identity.       *)

Stale(m) == embedding[m] # None /\ embedding[m] # config

\* What the maintenance audit reports of them, and of expirations.
ActiveMissingEmbedding == {m \in Memories : Active(m) /\ embedding[m] = None}
ActiveStaleEmbedding   == {m \in Memories : Active(m) /\ Stale(m)}
NonActiveWithEmbedding == {m \in Memories : Exists(m) /\ ~Active(m) /\ embedding[m] # None}
ExpiredMissingTime     == {m \in Memories : memory[m].status = "expired" /\ memory[m].expires = "never"}

\* select_candidates, select_reembedding_candidates.
Candidates(kind) ==
    CASE kind = "batch" -> ActiveMissingEmbedding
      [] kind = "stale" -> ActiveStaleEmbedding
      [] kind = "all"   -> {m \in Memories : Active(m)} \ ActiveMissingEmbedding
      [] OTHER          -> {}

\* A scope and a limit leave some of the candidates.
StartBatch(j, kind) ==
    /\ job[j].at = "idle" /\ kind # "single"
    /\ \E chosen \in (SUBSET Candidates(kind)) \ {{}} :
           /\ Cardinality(chosen) <= BatchLimit
           /\ job' = [job EXCEPT ![j] =
                  [at |-> "provider", kind |-> kind, chosen |-> chosen, found |-> FALSE]]
    /\ UNCHANGED <<memory, embedding, config, request>>

\* Faulty variant: the Memory is not looked up first.
StartSingleUnknown(j, m) ==
    /\ job[j].at = "idle" /\ embedding[m] # config
    /\ job' = [job EXCEPT ![j] = [at |-> "provider", kind |-> "single", chosen |-> {m},
                                  found |-> embedding[m] # None]]
    /\ UNCHANGED <<memory, embedding, config, request>>

\* generate_memory_embedding reads without a lock and does not ask for an active row.
StartSingle(j, m) ==
    /\ job[j].at = "idle" /\ Exists(m) /\ embedding[m] # config
    /\ job' = [job EXCEPT ![j] = [at |-> "provider", kind |-> "single", chosen |-> {m},
                                  found |-> embedding[m] # None]]
    /\ UNCHANGED <<memory, embedding, config, request>>

\* Faulty variant: the status seen before the provider call counts.
WritableAsRead(j) == job[j].chosen

\* generate_batch, reembed_batch: what is written of the chosen rows, read again under
\* their locks.  A row embedded meanwhile under the same identity needs nothing.
Writable(j) ==
    {m \in job[j].chosen : /\ Active(m)
                           /\ job[j].kind = "batch" => embedding[m] = None
                           /\ job[j].kind = "stale" => Stale(m)}

WriteBatch(j) ==
    /\ job[j].at = "provider" /\ job[j].kind # "single"
    /\ \A m \in job[j].chosen : Free(m)
    /\ embedding' = [m \in Memories |-> IF m \in Writable(j) THEN config ELSE embedding[m]]
    /\ job' = [job EXCEPT ![j] = NoJob]
    /\ UNCHANGED <<memory, config, request>>

\* An insertion that comes second breaks uq_memory_embeddings_memory_id: 503, no change.
WriteSingle(j) ==
    /\ job[j].at = "provider" /\ job[j].kind = "single"
    /\ job[j].found \/ \A m \in job[j].chosen : Free(m)
    /\ embedding' = [m \in Memories |->
           IF m \in job[j].chosen /\ (job[j].found \/ embedding[m] = None)
           THEN config ELSE embedding[m]]
    /\ job' = [job EXCEPT ![j] = NoJob]
    /\ UNCHANGED <<memory, config, request>>

ProviderFails(j) ==
    /\ job[j].at = "provider"
    /\ job' = [job EXCEPT ![j] = NoJob]
    /\ UNCHANGED <<memory, embedding, config, request>>

\* The server is restarted with another identity; whatever was in flight is gone.
Restart ==
    /\ config' \in Identities \ {config}
    /\ request' = [q \in Requests |-> NoRequest]
    /\ job' = [j \in Jobs |-> NoJob]
    /\ UNCHANGED <<memory, embedding>>

-----------------------------------------------------------------------------
MemoryStep == \E m \in Memories : Create(m) \/ Refine(m) \/ Expire(m)

RequestStep(q) ==
    \/ \E older, newer \in Memories : LockPair(q, older, newer)
    \/ Classify(q) \/ Supersede(q) \/ Rollback(q)

JobStep(j) ==
    \/ \E kind \in JobKinds : StartBatch(j, kind)
    \/ \E m \in Memories : StartSingle(j, m)
    \/ WriteBatch(j) \/ WriteSingle(j) \/ ProviderFails(j)

Next ==
    \/ MemoryStep
    \/ \E q \in Requests : RequestStep(q)
    \/ \E j \in Jobs : JobStep(j)
    \/ Restart

Spec == Init /\ [][Next]_memoryVars

-----------------------------------------------------------------------------
\* What a Project export holds of a scope, and whether its own checks let it through.
Exported(s) == {m \in Memories : Exists(m) /\ memory[m].scope = s}
ExportCloses(s) == \A m \in Exported(s) : memory[m].prior \in Exported(s) \cup {None}

\* _require_refs of the import: following supersedes_id never comes back.
ImportAcyclic(s) == \A m \in Exported(s) :
    memory[m].prior # None => m \notin Ancestry(memory[m].prior)

-----------------------------------------------------------------------------
(* Properties.                                                             *)

\* Rows, transactions and jobs are well formed, and a job past its provider call
\* only holds Memories that exist.
TypeOK ==
    /\ memory \in [Memories -> MemoryRows]
    /\ embedding \in [Memories -> Identities \cup {None}]
    /\ config \in Identities
    /\ request \in [Requests -> RequestRows]
    /\ job \in [Jobs -> JobRows]
    /\ \A j \in Jobs : \A m \in job[j].chosen : Exists(m)
    /\ \A m \in Memories : embedding[m] # None => Exists(m)

\* Competing supersede requests, creations and expirations leave every superseded
\* Memory with the one replacement that the commit gave it: a Memory becomes
\* superseded together with exactly one new successor, still active and of its scope,
\* although rows were read statements earlier.
SupersededOnce ==
    [][\A m \in Memories : Active(m) /\ memory'[m].status = "superseded" =>
           /\ Successors(m) = {}
           /\ \E r \in Memories :
                  /\ {x \in Memories : memory'[x].prior = m} = {r}
                  /\ memory'[r].status = "active" /\ memory'[r].scope = memory[m].scope
      ]_memoryVars

\* A Memory that left the active state is evidence nobody rewrites: no request that
\* read it while it was active lands on it afterwards; and none leaves that state
\* without the time the audit misses in an expired Memory.
InactiveFrozen ==
    [][\A m \in Memories :
           /\ Exists(m) /\ ~Active(m) => memory'[m] = memory[m]
           /\ Active(m) => m \notin ExpiredMissingTime']_memoryVars

\* The provider call of a batch lies between reading the rows and writing: what left
\* the active state meanwhile is skipped, so only a single request may embed it, and no
\* batch adds to the inactive Memories the audit finds embedded.
BatchEmbedsActive ==
    [][\A j \in Jobs : job[j].at # "idle" /\ job[j].kind # "single" /\ job'[j] = NoJob =>
           /\ \A m \in job[j].chosen : embedding'[m] # embedding[m] => Active(m)
           /\ NonActiveWithEmbedding' = NonActiveWithEmbedding]_memoryVars

\* Finding the proposed replacement in the ancestry rejects every cycle, so that what
\* the export lets through the import accepts.
ExportsRestore == \A s \in Scopes : ExportCloses(s) => ImportAcyclic(s)
=============================================================================
