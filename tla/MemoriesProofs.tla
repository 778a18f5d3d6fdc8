--------------------------- MODULE MemoriesProofs ---------------------------
(***************************************************************************)
(* Proofs about module Memories, and about what module Search ranks of it. *)
(*                                                                         *)
(* About the rows, everything rests on what the locked reads of a          *)
(* supersede request are worth until its commit.  LocksSound says it: the  *)
(* pairs of two requests never meet, and what a request has decided on     *)
(* stays true.                                                             *)
(*                                                                         *)
(* About ranks and pages, everything rests on one fact: a total order of a *)
(* finite set can be listed by counting what comes before each member, and *)
(* there is only one such listing.                                         *)
(***************************************************************************)
EXTENDS Search, FiniteSetTheorems, SequenceTheorems, TLAPS

Holds(q) == request[q].at # "idle"

Pair(q) == {request[q].older, request[q].newer}

\* A request holds two rows of the table.
PairsReal == \A q \in Requests : Holds(q) =>
    /\ request[q].older \in Memories /\ request[q].newer \in Memories
    /\ request[q].older # request[q].newer
    /\ Exists(request[q].older) /\ Exists(request[q].newer)

\* FOR UPDATE: no row is held twice.
PairsApart == \A p, q \in Requests :
    p # q /\ Holds(p) /\ Holds(q) => Pair(p) \cap Pair(q) = {}

\* What the request read under its locks is still so when it commits.
DecisionsStand == \A q \in Requests : request[q].at = "decided" =>
    /\ Active(request[q].older) /\ Active(request[q].newer)
    /\ memory[request[q].older].scope = memory[request[q].newer].scope
    /\ memory[request[q].newer].prior = None
    /\ Successors(request[q].older) = {}

LocksSound == PairsReal /\ PairsApart /\ DecisionsStand

MemoryInv == TypeOK /\ LocksSound

-----------------------------------------------------------------------------
(* Types.                                                                  *)

LEMMA NoMemoryTyped == NoMemory \in MemoryRows /\ NoMemory.status = "absent"
  BY MemoriesAssumption DEF NoMemory, MemoryRows, Expirations

LEMMA NoRequestTyped == NoRequest \in RequestRows /\ NoRequest.at = "idle"
  BY DEF NoRequest, RequestRows

LEMMA NoJobTyped == NoJob \in JobRows /\ NoJob.at = "idle" /\ NoJob.chosen = {}
  BY DEF NoJob, JobRows, JobKinds

LEMMA InitTyped == Init => TypeOK
  BY NoMemoryTyped, NoRequestTyped, NoJobTyped DEF Init, TypeOK

\* No row is ever removed, so whatever existed exists.
LEMMA RowsStay ==
    ASSUME TypeOK, memory' \in [Memories -> MemoryRows],
           \A m \in Memories : Exists(m) => memory'[m].status # "absent",
           embedding' = embedding, config' = config, job' = job,
           request' \in [Requests -> RequestRows]
    PROVE  TypeOK'
<1>1. \A m \in Memories : Exists(m) => Exists(m)'
  BY DEF Exists
<1>2. \A m \in Memories : embedding'[m] # None => Exists(m)'
  BY <1>1 DEF TypeOK
<1>3. \A j \in Jobs : job'[j].chosen \subseteq Memories
  BY DEF TypeOK, JobRows
<1>4. \A j \in Jobs : \A m \in job'[j].chosen : Exists(m)'
  BY <1>1, <1>3 DEF TypeOK
<1> QED  BY <1>2, <1>4 DEF TypeOK

LEMMA MemoryTyped ==
    ASSUME TypeOK, NEW m \in Memories, Create(m) \/ Refine(m) \/ Expire(m)
    PROVE  TypeOK'
<1>1. CASE Create(m)
  <2>1. PICK birth \in Births, p \in {x \in Memories : Exists(x) /\ Free(x)} \cup {None} :
           memory' = [memory EXCEPT ![m] =
               [status |-> birth.status, scope |-> birth.scope, expires |-> birth.expires,
                prior |-> p, refined |-> FALSE]]
    BY <1>1 DEF Create
  <2>2. birth \in BirthRows /\ p \in Memories \cup {None}
    BY MemoriesAssumption
  <2>3. memory' \in [Memories -> MemoryRows]
    BY <2>1, <2>2 DEF TypeOK, MemoryRows, BirthRows, Expirations
  <2>4. \A x \in Memories : Exists(x) => memory'[x].status # "absent"
    BY <1>1, <2>1 DEF TypeOK, Exists, Create
  <2> QED  BY <1>1, <2>3, <2>4, RowsStay DEF Create, TypeOK
<1>2. CASE Refine(m)
  <2>1. memory' = [memory EXCEPT ![m].refined = TRUE]
    BY <1>2 DEF Refine
  <2>2. memory' \in [Memories -> MemoryRows]
    BY <2>1 DEF TypeOK, MemoryRows
  <2>3. \A x \in Memories : Exists(x) => memory'[x].status # "absent"
    BY <2>1 DEF TypeOK, Exists, MemoryRows
  <2> QED  BY <1>2, <2>2, <2>3, RowsStay DEF Refine, TypeOK
<1>3. CASE Expire(m)
  <2>1. PICK time \in {"stamped"} \cup ({memory[m].expires} \ {"never"}) :
           memory' = [memory EXCEPT ![m] = [@ EXCEPT !.status = "expired", !.expires = time]]
    BY <1>3 DEF Expire
  <2>2. time \in Expirations
    BY DEF TypeOK, MemoryRows, Expirations
  <2>3. memory' \in [Memories -> MemoryRows]
    BY <2>1, <2>2 DEF TypeOK, MemoryRows, Statuses
  <2>4. \A x \in Memories : Exists(x) => memory'[x].status # "absent"
    BY <2>1 DEF TypeOK, Exists, MemoryRows
  <2> QED  BY <1>3, <2>3, <2>4, RowsStay DEF Expire, TypeOK
<1> QED  BY <1>1, <1>2, <1>3

LEMMA RequestTyped ==
    ASSUME TypeOK, LocksSound, NEW q \in Requests, RequestStep(q)
    PROVE  TypeOK'
<1>1. CASE \E older, newer \in Memories : LockPair(q, older, newer)
  <2>1. request' \in [Requests -> RequestRows]
    BY <1>1 DEF LockPair, TypeOK, RequestRows
  <2> QED  BY <1>1, <2>1 DEF LockPair, TypeOK, Exists
<1>2. CASE Classify(q)
  <2>1. request' \in [Requests -> RequestRows]
    BY <1>2, NoRequestTyped DEF Classify, TypeOK, RequestRows
  <2> QED  BY <1>2, <2>1 DEF Classify, TypeOK, Exists
<1>3. CASE Supersede(q)
  <2> DEFINE older == request[q].older
             newer == request[q].newer
  <2>1. older \in Memories /\ newer \in Memories
    BY <1>3 DEF Supersede, LocksSound, PairsReal, Holds
  <2>2. memory' = [memory EXCEPT ![newer].prior = older, ![older].status = "superseded"]
    BY <1>3 DEF Supersede
  <2> HIDE DEF older, newer
  <2>3. memory' \in [Memories -> MemoryRows]
    BY <2>1, <2>2 DEF TypeOK, MemoryRows, Statuses
  <2>4. \A x \in Memories : Exists(x) => memory'[x].status # "absent"
    BY <2>1, <2>2 DEF TypeOK, Exists, MemoryRows
  <2>5. request' \in [Requests -> RequestRows]
    BY <1>3, NoRequestTyped DEF Supersede, TypeOK
  <2> QED  BY <1>3, <2>3, <2>4, <2>5, RowsStay DEF Supersede
<1>4. CASE Rollback(q)
  <2>1. request' \in [Requests -> RequestRows]
    BY <1>4, NoRequestTyped DEF Rollback, TypeOK
  <2> QED  BY <1>4, <2>1 DEF Rollback, TypeOK, Exists
<1> QED  BY <1>1, <1>2, <1>3, <1>4 DEF RequestStep

LEMMA JobTyped ==
    ASSUME TypeOK, NEW j \in Jobs, JobStep(j)
    PROVE  TypeOK'
<1>1. ASSUME NEW kind \in JobKinds, StartBatch(j, kind)
      PROVE  TypeOK'
  <2>1. PICK chosen \in (SUBSET Candidates(kind)) \ {{}} :
           job' = [job EXCEPT ![j] =
                  [at |-> "provider", kind |-> kind, chosen |-> chosen, found |-> FALSE]]
    BY <1>1 DEF StartBatch
  <2>2. \A m \in Candidates(kind) : m \in Memories /\ Exists(m)
    BY <1>1 DEF Candidates, ActiveMissingEmbedding, ActiveStaleEmbedding, Active, Exists,
                JobKinds, StartBatch
  <2>3. chosen \subseteq Memories /\ \A m \in chosen : Exists(m)
    BY <2>2
  <2>4. job' \in [Jobs -> JobRows]
    BY <2>1, <2>3 DEF TypeOK, JobRows
  <2>5. \A i \in Jobs : \A m \in job'[i].chosen : Exists(m)
    BY <2>1, <2>3 DEF TypeOK
  <2> QED  BY <1>1, <2>4, <2>5 DEF StartBatch, TypeOK, Exists
<1>2. ASSUME NEW m \in Memories, StartSingle(j, m)
      PROVE  TypeOK'
  <2>1. job' \in [Jobs -> JobRows]
    BY <1>2 DEF StartSingle, TypeOK, JobRows, JobKinds
  <2>2. \A i \in Jobs : \A x \in job'[i].chosen : Exists(x)
    BY <1>2 DEF StartSingle, TypeOK
  <2> QED  BY <1>2, <2>1, <2>2 DEF StartSingle, TypeOK, Exists
<1>3. CASE WriteBatch(j)
  <2>1. /\ job' = [job EXCEPT ![j] = NoJob] /\ UNCHANGED <<memory, config, request>>
        /\ embedding' = [m \in Memories |->
              IF m \in Writable(j) THEN config ELSE embedding[m]]
    BY <1>3 DEF WriteBatch
  <2>2. \A m \in Writable(j) : Exists(m)
    BY DEF Writable, Active, Exists
  <2> QED  BY <2>1, <2>2, NoJobTyped DEF TypeOK, Exists
<1>4. CASE WriteSingle(j)
  BY <1>4, NoJobTyped DEF WriteSingle, TypeOK, Exists
<1>5. CASE ProviderFails(j)
  BY <1>5, NoJobTyped DEF ProviderFails, TypeOK, Exists
<1> QED  BY <1>1, <1>2, <1>3, <1>4, <1>5 DEF JobStep

LEMMA RestartTyped == TypeOK /\ Restart => TypeOK'
  BY NoRequestTyped, NoJobTyped DEF Restart, TypeOK, Exists

-----------------------------------------------------------------------------
(* Locks.                                                                  *)

LEMMA InitLocks == Init => LocksSound
  BY NoRequestTyped DEF Init, LocksSound, PairsReal, PairsApart, DecisionsStand, Holds

\* A free row is in nobody's pair.
LEMMA FreeApart ==
    ASSUME TypeOK, NEW m, Free(m), NEW q \in Requests, Holds(q)
    PROVE  m \notin Pair(q)
<1>1. request[q].at \in {"locked", "decided"}
  BY DEF TypeOK, RequestRows, Holds
<1>2. Pair(q) \subseteq LockedBy(q)
  BY <1>1 DEF LockedBy, Pair
<1> QED  BY <1>2 DEF Free, Locked

\* Rows outside every pair may change, and rows may be born, as long as no born row
\* names a held row as its predecessor.
LEMMA OutsideLocks ==
    ASSUME LocksSound, request' = request, NEW m \in Memories,
           \A q \in Requests : Holds(q) => m \notin Pair(q),
           \A x \in Memories \ {m} : memory'[x] = memory[x],
           \A q \in Requests : Holds(q) =>
               memory'[m].prior = memory[m].prior \/ memory'[m].prior # request[q].older
    PROVE  LocksSound'
<1>1. ASSUME NEW q \in Requests, Holds(q)
      PROVE  /\ request[q].older \in Memories /\ request[q].newer \in Memories
             /\ memory'[request[q].older] = memory[request[q].older]
             /\ memory'[request[q].newer] = memory[request[q].newer]
  BY <1>1 DEF LocksSound, PairsReal, Pair
<1>2. PairsReal'
  BY <1>1 DEF LocksSound, PairsReal, Exists, Holds
<1>3. PairsApart'
  BY DEF LocksSound, PairsApart, Holds, Pair
<1>4. ASSUME NEW q \in Requests, request[q].at = "decided"
      PROVE  Successors(request[q].older)' = {}
  BY <1>4 DEF LocksSound, DecisionsStand, Successors, Holds
<1>5. DecisionsStand'
  BY <1>1, <1>4 DEF LocksSound, DecisionsStand, Active, Holds
<1> QED  BY <1>2, <1>3, <1>5 DEF LocksSound

LEMMA MemoryLocks ==
    ASSUME TypeOK, LocksSound, NEW m \in Memories, Create(m) \/ Refine(m) \/ Expire(m)
    PROVE  LocksSound'
<1>1. CASE Create(m)
  <2>1. PICK birth \in Births, p \in {x \in Memories : Exists(x) /\ Free(x)} \cup {None} :
           memory' = [memory EXCEPT ![m] =
               [status |-> birth.status, scope |-> birth.scope, expires |-> birth.expires,
                prior |-> p, refined |-> FALSE]]
    BY <1>1 DEF Create
  <2>2. \A q \in Requests : Holds(q) => m \notin Pair(q)
    BY <1>1 DEF Create, LocksSound, PairsReal, Pair
  <2>3. /\ \A x \in Memories \ {m} : memory'[x] = memory[x]
        /\ memory'[m].prior = p
    BY <2>1 DEF TypeOK
  <2>4. \A q \in Requests : Holds(q) => p # request[q].older
    BY FreeApart, MemoriesAssumption DEF LocksSound, PairsReal, Pair
  <2> QED  BY <1>1, <2>2, <2>3, <2>4, OutsideLocks DEF Create
<1>2. CASE Refine(m) \/ Expire(m)
  <2>1. \A q \in Requests : Holds(q) => m \notin Pair(q)
    BY <1>2, FreeApart DEF Refine, Expire
  <2>2. memory \in [Memories -> MemoryRows] /\ request' = request
    BY <1>2 DEF Refine, Expire, TypeOK
  <2>3. PICK row : /\ memory' = [memory EXCEPT ![m] = row]
                   /\ row.prior = memory[m].prior
    <3>1. CASE Refine(m)
      <4>1. memory' = [memory EXCEPT ![m] = [memory[m] EXCEPT !.refined = TRUE]]
        BY <3>1 DEF Refine
      <4>2. [memory[m] EXCEPT !.refined = TRUE].prior = memory[m].prior
        BY <2>2 DEF MemoryRows
      <4> QED  BY <4>1, <4>2
    <3>2. CASE Expire(m)
      <4>1. PICK time : memory' = [memory EXCEPT ![m] =
                 [memory[m] EXCEPT !.status = "expired", !.expires = time]]
        BY <3>2 DEF Expire
      <4>2. [memory[m] EXCEPT !.status = "expired", !.expires = time].prior = memory[m].prior
        BY <2>2 DEF MemoryRows
      <4> QED  BY <4>1, <4>2
    <3> QED  BY <1>2, <3>1, <3>2
  <2>4. /\ \A x \in Memories \ {m} : memory'[x] = memory[x]
        /\ memory'[m].prior = memory[m].prior
    BY <2>2, <2>3
  <2> QED  BY <2>1, <2>2, <2>4, OutsideLocks
<1> QED  BY <1>1, <1>2

\* A transaction that is rolled back just lets its rows go.
LEMMA RequestDropped ==
    ASSUME TypeOK, LocksSound, NEW q \in Requests,
           request' = [request EXCEPT ![q] = NoRequest], memory' = memory
    PROVE  LocksSound'
<1>1. \A p \in Requests : /\ p = q => request'[p].at = "idle"
                          /\ p # q => request'[p] = request[p]
  BY NoRequestTyped DEF TypeOK
<1>2. PairsReal'
  BY <1>1 DEF LocksSound, PairsReal, Holds, Exists
<1>3. PairsApart'
  BY <1>1 DEF LocksSound, PairsApart, Holds, Pair
<1>4. DecisionsStand'
  BY <1>1 DEF LocksSound, DecisionsStand, Active, Successors
<1> QED  BY <1>2, <1>3, <1>4 DEF LocksSound

LEMMA RequestLocks ==
    ASSUME TypeOK, LocksSound, NEW q \in Requests, RequestStep(q)
    PROVE  LocksSound'
<1>0. request \in [Requests -> RequestRows] /\ memory \in [Memories -> MemoryRows]
  BY DEF TypeOK
<1>1. ASSUME NEW older \in Memories, NEW newer \in Memories, LockPair(q, older, newer)
      PROVE  LocksSound'
  <2>1. /\ request' = [request EXCEPT ![q] =
              [at |-> "locked", older |-> older, newer |-> newer]]
        /\ memory' = memory /\ older # newer /\ Exists(older) /\ Exists(newer)
        /\ Free(older) /\ Free(newer) /\ request[q].at = "idle"
    BY <1>1 DEF LockPair
  <2>2. PairsReal'
    BY <1>0, <2>1 DEF LocksSound, PairsReal, Holds, Exists
  <2>3. \A p \in Requests : Holds(p) => Pair(p) \cap {older, newer} = {}
    BY <2>1, FreeApart
  <2>4. PairsApart'
    BY <1>0, <2>1, <2>3 DEF LocksSound, PairsApart, Holds, Pair
  <2>5. DecisionsStand'
    BY <1>0, <2>1 DEF LocksSound, DecisionsStand, Active, Successors
  <2> QED  BY <2>2, <2>4, <2>5 DEF LocksSound
<1>2. CASE Classify(q)
  <2>1. /\ memory' = memory /\ request[q].at = "locked"
        /\ request' = [request EXCEPT ![q] =
             IF Eligible(request[q].older, request[q].newer)
             THEN [request[q] EXCEPT !.at = "decided"] ELSE NoRequest]
    BY <1>2 DEF Classify
  <2>2. CASE Eligible(request[q].older, request[q].newer)
    <3>1. request' = [request EXCEPT ![q] = [request[q] EXCEPT !.at = "decided"]]
      BY <2>1, <2>2
    <3>2. /\ request'[q].at = "decided"
          /\ \A p \in Requests : /\ request'[p].older = request[p].older
                                 /\ request'[p].newer = request[p].newer
                                 /\ p # q => request'[p] = request[p]
      BY <1>0, <3>1 DEF RequestRows
    <3>3. PairsReal'
      BY <2>1, <3>2 DEF LocksSound, PairsReal, Holds, Exists
    <3>4. PairsApart'
      BY <2>1, <3>2 DEF LocksSound, PairsApart, Holds, Pair
    <3>5. DecisionsStand'
      BY <2>1, <2>2, <3>2 DEF LocksSound, DecisionsStand, Active, Successors, Eligible
    <3> QED  BY <3>3, <3>4, <3>5 DEF LocksSound
  <2>3. CASE ~Eligible(request[q].older, request[q].newer)
    <3>1. request' = [request EXCEPT ![q] = NoRequest]
      BY <2>1, <2>3
    <3> QED  BY <2>1, <3>1, RequestDropped
  <2> QED  BY <2>2, <2>3
<1>3. CASE Supersede(q)
  <2> DEFINE older == request[q].older
             newer == request[q].newer
  <2>1. /\ older \in Memories /\ newer \in Memories /\ older # newer
        /\ Holds(q) /\ Exists(older) /\ Exists(newer)
    BY <1>3 DEF Supersede, LocksSound, PairsReal, Holds
  <2>2. /\ memory' = [memory EXCEPT ![newer].prior = older, ![older].status = "superseded"]
        /\ request' = [request EXCEPT ![q] = NoRequest]
    BY <1>3 DEF Supersede
  <2>3. ASSUME NEW p \in Requests, p # q, Holds(p)
        PROVE  request[p].older \notin {older, newer} /\ request[p].newer \notin {older, newer}
    BY <2>1, <2>3 DEF LocksSound, PairsApart, Pair
  <2> HIDE DEF older, newer
  <2>4. /\ \A x \in Memories \ {older, newer} : memory'[x] = memory[x]
        /\ memory'[older].status = "superseded" /\ memory'[newer].status = memory[newer].status
        /\ memory'[older].prior = memory[older].prior /\ memory'[newer].prior = older
    BY <1>0, <2>1, <2>2 DEF MemoryRows
  <2>5. \A p \in Requests : /\ p = q => request'[p].at = "idle"
                            /\ p # q => request'[p] = request[p]
    BY <1>0, <2>2, NoRequestTyped
  <2>6. PairsReal'
    <3> SUFFICES ASSUME NEW p \in Requests, Holds(p)'
                 PROVE  /\ request'[p].older \in Memories /\ request'[p].newer \in Memories
                        /\ request'[p].older # request'[p].newer
                        /\ Exists(request[p].older)' /\ Exists(request[p].newer)'
      BY DEF PairsReal
    <3>1. p # q /\ request'[p] = request[p] /\ Holds(p)
      BY <2>5 DEF Holds
    <3> QED  BY <2>3, <2>4, <3>1 DEF LocksSound, PairsReal, Exists
  <2>7. PairsApart'
    BY <2>5 DEF LocksSound, PairsApart, Holds, Pair
  <2>8. ASSUME NEW p \in Requests, request'[p].at = "decided"
        PROVE  /\ Active(request[p].older)' /\ Active(request[p].newer)'
               /\ memory'[request'[p].older].scope = memory'[request'[p].newer].scope
               /\ memory'[request'[p].newer].prior = None
               /\ Successors(request[p].older)' = {}
    <3>1. p # q /\ request'[p] = request[p] /\ Holds(p)
      BY <2>5, <2>8 DEF Holds
    <3>2. /\ request[p].older \in Memories \ {older, newer}
          /\ request[p].newer \in Memories \ {older, newer}
      BY <2>3, <3>1 DEF LocksSound, PairsReal
    <3>3. /\ Active(request[p].older) /\ Active(request[p].newer)
          /\ memory[request[p].older].scope = memory[request[p].newer].scope
          /\ memory[request[p].newer].prior = None
          /\ Successors(request[p].older) = {}
      BY <2>8, <3>1 DEF LocksSound, DecisionsStand
    <3>4. \A x \in Memories : memory'[x].prior # request[p].older
      BY <2>1, <2>4, <3>2, <3>3 DEF Successors
    <3>5. Successors(request[p].older)' = {}
      BY <3>1, <3>4 DEF Successors
    <3> QED  BY <2>4, <3>1, <3>2, <3>3, <3>5 DEF Active
  <2>9. DecisionsStand'
    BY <2>8 DEF DecisionsStand
  <2> QED  BY <2>6, <2>7, <2>9 DEF LocksSound
<1>4. CASE Rollback(q)
  BY <1>4, RequestDropped DEF Rollback
<1> QED  BY <1>1, <1>2, <1>3, <1>4 DEF RequestStep

LEMMA QuietLocks ==
    ASSUME LocksSound, UNCHANGED <<memory, request>>
    PROVE  LocksSound'
  BY DEF LocksSound, PairsReal, PairsApart, DecisionsStand, Holds, Pair, Exists, Active, Successors

LEMMA RestartLocks == TypeOK /\ Restart => LocksSound'
  BY NoRequestTyped DEF Restart, LocksSound, PairsReal, PairsApart, DecisionsStand, Holds

-----------------------------------------------------------------------------
(* The invariant.                                                          *)

LEMMA InvariantKept == MemoryInv /\ [Next]_memoryVars => MemoryInv'
<1> SUFFICES ASSUME MemoryInv, [Next]_memoryVars PROVE MemoryInv'
  OBVIOUS
<1> USE DEF MemoryInv
<1>1. CASE MemoryStep
  BY <1>1, MemoryTyped, MemoryLocks DEF MemoryStep
<1>2. ASSUME NEW q \in Requests, RequestStep(q) PROVE MemoryInv'
  BY <1>2, RequestTyped, RequestLocks
<1>3. ASSUME NEW j \in Jobs, JobStep(j) PROVE MemoryInv'
  <2>1. UNCHANGED <<memory, request>>
    BY <1>3 DEF JobStep, StartBatch, StartSingle, WriteBatch, WriteSingle, ProviderFails
  <2> QED  BY <1>3, <2>1, JobTyped, QuietLocks
<1>4. CASE Restart
  BY <1>4, RestartTyped, RestartLocks
<1>5. CASE UNCHANGED memoryVars
  <2>1. TypeOK'
    BY <1>5 DEF memoryVars, TypeOK, Exists
  <2> QED  BY <1>5, <2>1, QuietLocks DEF memoryVars
<1> QED  BY <1>1, <1>2, <1>3, <1>4, <1>5 DEF Next

\* Every table, transaction and job keeps its shape; jobs past their provider call only
\* hold Memories that exist, and two supersede requests never hold one row.
THEOREM MemoryTypes == Spec => []TypeOK
  <1>1. MemoryInv => TypeOK
    BY DEF MemoryInv
  <1> QED  BY <1>1, InitTyped, InitLocks, InvariantKept, PTL DEF Spec, MemoryInv

LEMMA MemoryInvariant == Spec => []MemoryInv
  BY InitTyped, InitLocks, InvariantKept, PTL DEF Spec, MemoryInv

-----------------------------------------------------------------------------
(* What a step does to a row.                                              *)

\* The commit of a supersede request.
LEMMA SupersedeWrites ==
    ASSUME MemoryInv, NEW q \in Requests, Supersede(q)
    PROVE  LET older == request[q].older
               newer == request[q].newer
           IN  /\ older \in Memories /\ newer \in Memories /\ older # newer
               /\ Active(older) /\ Active(newer)
               /\ memory[older].scope = memory[newer].scope
               /\ Successors(older) = {}
               /\ \A x \in Memories \ {older, newer} : memory'[x] = memory[x]
               /\ memory'[older].status = "superseded"
               /\ memory'[older].prior = memory[older].prior
               /\ memory'[newer].status = "active" /\ memory'[newer].prior = older
               /\ memory'[newer].scope = memory[newer].scope
<1> DEFINE older == request[q].older
           newer == request[q].newer
<1>1. /\ older \in Memories /\ newer \in Memories /\ older # newer
      /\ Active(older) /\ Active(newer)
      /\ memory[older].scope = memory[newer].scope
      /\ Successors(older) = {}
  BY DEF MemoryInv, LocksSound, PairsReal, DecisionsStand, Holds, Supersede
<1>2. memory' = [memory EXCEPT ![newer].prior = older, ![older].status = "superseded"]
  BY DEF Supersede
<1>3. memory \in [Memories -> MemoryRows]
  BY DEF MemoryInv, TypeOK
<1> HIDE DEF older, newer
<1>4. /\ \A x \in Memories \ {older, newer} : memory'[x] = memory[x]
      /\ memory'[older].status = "superseded"
      /\ memory'[older].prior = memory[older].prior
      /\ memory'[newer].status = memory[newer].status /\ memory'[newer].prior = older
      /\ memory'[newer].scope = memory[newer].scope
  BY <1>1, <1>2, <1>3 DEF MemoryRows
<1> QED  BY <1>1, <1>4 DEF Active, older, newer

\* Nothing else writes a row that exists but a refinement or an expiration.
LEMMA OtherWrites ==
    ASSUME MemoryInv, [Next]_memoryVars, NEW m \in Memories, Exists(m), memory'[m] # memory[m]
    PROVE  \/ Refine(m)
           \/ Expire(m)
           \/ \E q \in Requests : Supersede(q) /\ m \in Pair(q)
<1>0. memory \in [Memories -> MemoryRows]
  BY DEF MemoryInv, TypeOK
<1>1. ASSUME NEW x \in Memories, Create(x) \/ Refine(x) \/ Expire(x)
      PROVE  Refine(m) \/ Expire(m)
  <2>1. CASE Create(x)
    <3>1. PICK row : memory' = [memory EXCEPT ![x] = row]
      BY <2>1 DEF Create
    <3>2. x # m
      BY <2>1 DEF Create
    <3> QED  BY <1>0, <3>1, <3>2
  <2>2. CASE Refine(x)
    <3>1. memory' = [memory EXCEPT ![x].refined = TRUE]
      BY <2>2 DEF Refine
    <3> QED  BY <1>0, <2>2, <3>1
  <2>3. CASE Expire(x)
    <3>1. PICK row : memory' = [memory EXCEPT ![x] = row]
      BY <2>3 DEF Expire
    <3> QED  BY <1>0, <2>3, <3>1
  <2> QED  BY <1>1, <2>1, <2>2, <2>3
<1>2. ASSUME NEW q \in Requests, RequestStep(q)
      PROVE  Supersede(q) /\ m \in Pair(q)
  <2>1. Supersede(q)
    BY <1>2 DEF RequestStep, LockPair, Classify, Rollback
  <2> QED  BY <2>1, SupersedeWrites DEF Pair
<1>3. ASSUME NEW j \in Jobs, JobStep(j) PROVE FALSE
  BY <1>3 DEF JobStep, StartBatch, StartSingle, WriteBatch, WriteSingle, ProviderFails
<1> QED  BY <1>1, <1>2, <1>3 DEF Next, MemoryStep, Restart, memoryVars

\* An expiration leaves a time.
LEMMA ExpireWrites ==
    ASSUME TypeOK, NEW m \in Memories, Expire(m)
    PROVE  memory'[m].status = "expired" /\ memory'[m].expires # "never"
<1>1. PICK time \in {"stamped"} \cup ({memory[m].expires} \ {"never"}) :
         memory' = [memory EXCEPT ![m] = [@ EXCEPT !.status = "expired", !.expires = time]]
  BY DEF Expire
<1> QED  BY <1>1 DEF TypeOK, MemoryRows

LEMMA RefineWrites ==
    ASSUME TypeOK, NEW m \in Memories, Refine(m)
    PROVE  memory'[m].status = "active"
<1>1. memory' = [memory EXCEPT ![m].refined = TRUE]
  BY DEF Refine
<1> QED  BY <1>1 DEF TypeOK, MemoryRows, Refine, Active

-----------------------------------------------------------------------------
(* The theorems.                                                           *)

\* lock_memory, classify_supersession and apply_memory_supersession: whichever requests
\* compete, a Memory is superseded together with exactly one new successor.
THEOREM SupersededWithOne == Spec => SupersededOnce
<1>1. ASSUME MemoryInv, [Next]_memoryVars, NEW m \in Memories,
             Active(m), memory'[m].status = "superseded"
      PROVE  /\ Successors(m) = {}
             /\ \E r \in Memories :
                    /\ {x \in Memories : memory'[x].prior = m} = {r}
                    /\ memory'[r].status = "active" /\ memory'[r].scope = memory[m].scope
  <2>1. memory'[m] # memory[m] /\ Exists(m) /\ TypeOK
    BY <1>1 DEF Active, Exists, MemoryInv
  <2>2. PICK q \in Requests : Supersede(q) /\ m \in Pair(q)
    BY <1>1, <2>1, OtherWrites, ExpireWrites, RefineWrites
  <2>3. m = request[q].older
    BY <1>1, <2>2, SupersedeWrites DEF Pair
  <2>4. /\ Successors(m) = {} /\ request[q].newer \in Memories
        /\ memory'[request[q].newer].prior = m
        /\ memory'[request[q].newer].status = "active"
        /\ memory'[request[q].newer].scope = memory[m].scope
        /\ memory'[m].prior = memory[m].prior
        /\ \A x \in Memories \ {m, request[q].newer} : memory'[x] = memory[x]
    BY <1>1, <2>2, <2>3, SupersedeWrites
  <2>5. {x \in Memories : memory'[x].prior = m} = {request[q].newer}
    BY <2>4 DEF Successors
  <2> QED  BY <2>4, <2>5
<1>2. MemoryInv /\ [Next]_memoryVars =>
        [\A m \in Memories : Active(m) /\ memory'[m].status = "superseded" =>
           /\ Successors(m) = {}
           /\ \E r \in Memories :
                  /\ {x \in Memories : memory'[x].prior = m} = {r}
                  /\ memory'[r].status = "active" /\ memory'[r].scope = memory[m].scope
        ]_memoryVars
  BY <1>1
<1> QED  BY <1>2, MemoryInvariant, PTL DEF Spec, SupersededOnce

\* What left the active state is never written again, and never expires without a time.
THEOREM InactiveStaysFrozen == Spec => InactiveFrozen
<1>1. ASSUME MemoryInv, [Next]_memoryVars, NEW m \in Memories, Exists(m), ~Active(m)
      PROVE  memory'[m] = memory[m]
  <2> SUFFICES ASSUME memory'[m] # memory[m] PROVE FALSE
    OBVIOUS
  <2>1. CASE Refine(m) \/ Expire(m)
    BY <1>1, <2>1 DEF Refine, Expire
  <2>2. ASSUME NEW q \in Requests, Supersede(q), m \in Pair(q) PROVE FALSE
    BY <1>1, <2>2, SupersedeWrites DEF Pair
  <2> QED  BY <1>1, <2>1, <2>2, OtherWrites
<1>2. ASSUME MemoryInv, [Next]_memoryVars, NEW m \in Memories, Active(m)
      PROVE  m \notin ExpiredMissingTime'
  <2> SUFFICES ASSUME memory'[m].status = "expired" PROVE memory'[m].expires # "never"
    BY DEF ExpiredMissingTime
  <2>1. memory'[m] # memory[m] /\ Exists(m) /\ TypeOK
    BY <1>2 DEF Active, Exists, MemoryInv
  <2>2. CASE Expire(m)
    BY <2>1, <2>2, ExpireWrites
  <2>3. CASE Refine(m)
    BY <2>1, <2>3, RefineWrites
  <2>4. ASSUME NEW q \in Requests, Supersede(q), m \in Pair(q) PROVE FALSE
    BY <1>2, <2>4, SupersedeWrites DEF Pair
  <2> QED  BY <1>2, <2>1, <2>2, <2>3, <2>4, OtherWrites
<1>3. MemoryInv /\ [Next]_memoryVars =>
        [\A m \in Memories :
           /\ Exists(m) /\ ~Active(m) => memory'[m] = memory[m]
           /\ Active(m) => m \notin ExpiredMissingTime']_memoryVars
  BY <1>1, <1>2
<1> QED  BY <1>3, MemoryInvariant, PTL DEF Spec, InactiveFrozen

\* generate_batch and reembed_batch: a batch embeds only what is active when it writes,
\* however long the provider took.
THEOREM BatchesEmbedActive == Spec => BatchEmbedsActive
<1>1. ASSUME MemoryInv, [Next]_memoryVars, NEW j \in Jobs,
             job[j].at # "idle", job[j].kind # "single", job'[j] = NoJob
      PROVE  /\ \A m \in job[j].chosen : embedding'[m] # embedding[m] => Active(m)
             /\ NonActiveWithEmbedding' = NonActiveWithEmbedding
  <2>0. /\ job \in [Jobs -> JobRows] /\ embedding \in [Memories -> Identities \cup {None}]
        /\ job[j].chosen \subseteq Memories /\ job'[j] # job[j]
    BY <1>1, NoJobTyped DEF MemoryInv, TypeOK, JobRows
  <2>1. CASE WriteBatch(j)
    <3>1. /\ memory' = memory
          /\ embedding' = [m \in Memories |->
                IF m \in Writable(j) THEN config ELSE embedding[m]]
      BY <2>1 DEF WriteBatch
    <3>2. \A m \in Memories : embedding'[m] # embedding[m] => Active(m)
      BY <3>1 DEF Writable
    <3>3. NonActiveWithEmbedding' = NonActiveWithEmbedding
      BY <3>1, <3>2 DEF NonActiveWithEmbedding, Exists, Active
    <3> QED  BY <2>0, <3>2, <3>3
  <2>2. ASSUME memory' = memory, embedding' = embedding
        PROVE  /\ \A m \in job[j].chosen : embedding'[m] # embedding[m] => Active(m)
               /\ NonActiveWithEmbedding' = NonActiveWithEmbedding
    BY <2>2 DEF NonActiveWithEmbedding, Exists, Active
  <2>3. ASSUME NEW i \in Jobs, JobStep(i)
        PROVE  i = j /\ (WriteBatch(j) \/ ProviderFails(j))
    <3>1. i = j
      BY <2>0, <2>3 DEF JobStep, StartBatch, StartSingle, WriteBatch, WriteSingle, ProviderFails
    <3> QED  BY <1>1, <2>3, <3>1 DEF JobStep, StartBatch, StartSingle, WriteSingle
  <2>4. ProviderFails(j) \/ Restart => memory' = memory /\ embedding' = embedding
    BY DEF ProviderFails, Restart
  <2>5. ~MemoryStep
    BY <2>0 DEF MemoryStep, Create, Refine, Expire
  <2>6. \A q \in Requests : ~RequestStep(q)
    BY <2>0 DEF RequestStep, LockPair, Classify, Supersede, Rollback
  <2> QED  BY <2>0, <2>1, <2>2, <2>3, <2>4, <2>5, <2>6, <1>1 DEF Next, memoryVars
<1>2. MemoryInv /\ [Next]_memoryVars =>
        [\A j \in Jobs : job[j].at # "idle" /\ job[j].kind # "single" /\ job'[j] = NoJob =>
           /\ \A m \in job[j].chosen : embedding'[m] # embedding[m] => Active(m)
           /\ NonActiveWithEmbedding' = NonActiveWithEmbedding]_memoryVars
  BY <1>1
<1> QED  BY <1>2, MemoryInvariant, PTL DEF Spec, BatchEmbedsActive

-----------------------------------------------------------------------------
(* The fusion window.                                                      *)

\* With n requested and a window of w in each channel, the Memory at place n of one
\* channel outscores one beyond the window of both when w > n + (n + K).
LEMMA WideEnough ==
    ASSUME NEW n \in Nat, NEW w \in Nat, w >= 2 * n + 60
    PROVE  (60 + w + 1) * (60 + w + 1) > ((60 + w + 1) + (60 + w + 1)) * (60 + n)
<1> DEFINE d == 60 + w + 1
<1>1. d \in Nat /\ d > 0 /\ d > 2 * (60 + n)
  OBVIOUS
<1>2. d * d > d * (2 * (60 + n))
  <2>1. \A x, y, z \in Int : z > 0 /\ x > y => z * x > z * y
    OBVIOUS
  <2>2. d \in Int /\ 2 * (60 + n) \in Int
    OBVIOUS
  <2> QED  BY <1>1, <2>1, <2>2
<1>3. d * (2 * (60 + n)) = (d + d) * (60 + n)
  OBVIOUS
<1> QED  BY <1>2, <1>3

\* A search never hides a better Memory than the last one it answers with: at every
\* limit and offset whose sum is at most 470, the bounded window of each channel
\* (_hybrid_candidate_limit) reaches far enough.  Beyond 470 the cap of 1000 bites.
THEOREM WindowReaches == MaxRequested <= 470 => WindowSuffices
<1> SUFFICES ASSUME MaxRequested <= 470,
                    NEW limit \in 1 .. 100, NEW offset \in 0 .. MaxRequested - 1,
                    limit + offset <= MaxRequested
             PROVE  LET beyond == RRF_K + Window(limit, offset) + 1
                    IN  Above([num |-> 1, den |-> RRF_K + limit + offset],
                              Plus([num |-> 1, den |-> beyond], [num |-> 1, den |-> beyond]))
  BY DEF WindowSuffices
<1> DEFINE n == limit + offset
           w == Window(limit, offset)
           d == 60 + w + 1
<1>1. MaxRequested \in Nat /\ limit \in Nat /\ offset \in Nat /\ n \in Nat /\ n <= 470
  BY RetrievalAssumption
<1>2. w \in Nat /\ w >= 2 * n + 60
  BY <1>1 DEF Window, Least, Greatest
<1>3. d * d > (d + d) * (60 + n)
  BY <1>1, <1>2, WideEnough
<1>4. /\ d \in Nat /\ 60 + n \in Nat
      /\ 1 * (d * d) = d * d
      /\ 1 * d + 1 * d = d + d
      /\ RRF_K + limit + offset = 60 + n /\ RRF_K + w + 1 = d
  BY <1>1, <1>2 DEF RRF_K
<1> HIDE DEF d, n, w
<1> QED  BY <1>3, <1>4 DEF Above, Plus, w

-----------------------------------------------------------------------------
(* The keyset cursor.                                                      *)

\* The position a cursor carries cuts any listing in two: every other Capture lies
\* either behind it or before it, never both, also among Captures of one rank or one
\* instant, as long as no two Captures share an id.
THEOREM CursorSplits ==
    \A row, position \in Keys :
        row.id # position.id => (After(row, position) <=> ~After(position, row))
BY DEF Keys, After

\* What lies behind a Capture of the next page lies behind the cursor: following
\* cursors never comes back to a Capture listed already.
THEOREM CursorAdvances ==
    \A row, middle, position \in Keys :
        After(row, middle) /\ After(middle, position) => After(row, position)
BY DEF Keys, After

-----------------------------------------------------------------------------
(* Putting a finite set in order by counting.                              *)

\* R is a strict total order of S.
Orders(S, R) ==
    /\ \A x \in S : <<x, x>> \notin R
    /\ \A x, y, z \in S : <<x, y>> \in R /\ <<y, z>> \in R => <<x, z>> \in R
    /\ \A x, y \in S : x # y => <<x, y>> \in R \/ <<y, x>> \in R

Preceding(S, R, x) == {y \in S : <<y, x>> \in R}

Count(S, R, x) == Cardinality(Preceding(S, R, x))

\* f lists the members of S, each at the place that the number of those before it says.
Sorts(f, S, R) ==
    /\ f \in [1 .. Cardinality(S) -> S]
    /\ \A i \in 1 .. Cardinality(S) : Count(S, R, f[i]) = i - 1

\* Counting what comes before numbers the members of S from 0 without a gap.
LEMMA Counted ==
    ASSUME NEW S, IsFiniteSet(S), NEW R, Orders(S, R)
    PROVE  /\ Cardinality(S) \in Nat
           /\ \A x \in S : Count(S, R, x) \in 0 .. (Cardinality(S) - 1)
           /\ \A x, y \in S : <<x, y>> \in R <=> Count(S, R, x) < Count(S, R, y)
           /\ \A x, y \in S : Count(S, R, x) = Count(S, R, y) => x = y
           /\ \A i \in 1 .. Cardinality(S) : \E x \in S : Count(S, R, x) = i - 1
<1>1. PICK N \in Nat : N = Cardinality(S)
  BY FS_CardinalityType
<1>2. \A x \in S : /\ Preceding(S, R, x) \in SUBSET S /\ IsFiniteSet(Preceding(S, R, x))
                   /\ Count(S, R, x) \in Nat /\ Count(S, R, x) <= N
                   /\ x \notin Preceding(S, R, x)
  <2> SUFFICES ASSUME NEW x \in S
               PROVE  /\ Preceding(S, R, x) \in SUBSET S /\ IsFiniteSet(Preceding(S, R, x))
                      /\ Count(S, R, x) \in Nat /\ Count(S, R, x) <= N
                      /\ x \notin Preceding(S, R, x)
    OBVIOUS
  <2>1. Preceding(S, R, x) \in SUBSET S /\ x \notin Preceding(S, R, x)
    BY DEF Preceding, Orders
  <2> QED  BY <1>1, <2>1, FS_Subset, FS_CardinalityType DEF Count
<1>3. \A x \in S : Count(S, R, x) \in 0 .. (N - 1)
  <2> SUFFICES ASSUME NEW x \in S
               PROVE  Count(S, R, x) \in 0 .. (N - 1)
    OBVIOUS
  <2>1. Preceding(S, R, x) # S
    BY <1>2
  <2>2. Count(S, R, x) # N
    BY <1>1, <1>2, <2>1, FS_Subset DEF Count
  <2> QED  BY <1>2, <2>2
<1>4. ASSUME NEW x \in S, NEW y \in S, <<x, y>> \in R
      PROVE  Count(S, R, x) < Count(S, R, y)
  <2>1. Preceding(S, R, x) \in SUBSET Preceding(S, R, y)
    BY <1>4 DEF Preceding, Orders
  <2>2. x \in Preceding(S, R, y) /\ x \notin Preceding(S, R, x)
    BY <1>2, <1>4 DEF Preceding
  <2>3. Count(S, R, x) <= Count(S, R, y) /\ Count(S, R, x) # Count(S, R, y)
    BY <1>2, <2>1, <2>2, FS_Subset DEF Count
  <2> QED  BY <1>2, <2>3
<1>5. \A x, y \in S : <<x, y>> \in R <=> Count(S, R, x) < Count(S, R, y)
  <2> SUFFICES ASSUME NEW x \in S, NEW y \in S, Count(S, R, x) < Count(S, R, y), <<x, y>> \notin R
               PROVE  FALSE
    BY <1>4
  <2>1. x # y
    BY <1>2
  <2>2. Count(S, R, y) < Count(S, R, x)
    BY <1>4, <2>1 DEF Orders
  <2> QED  BY <1>2, <2>2
<1>6. \A x, y \in S : Count(S, R, x) = Count(S, R, y) => x = y
  <2> SUFFICES ASSUME NEW x \in S, NEW y \in S, Count(S, R, x) = Count(S, R, y), x # y
               PROVE  FALSE
    OBVIOUS
  <2>1. Count(S, R, x) < Count(S, R, y) \/ Count(S, R, y) < Count(S, R, x)
    BY <1>4 DEF Orders
  <2> QED  BY <1>2, <2>1
<1>7. \A i \in 1 .. N : \E x \in S : Count(S, R, x) = i - 1
  <2> DEFINE count == [x \in S |-> Count(S, R, x)]
  <2>1. IsFiniteSet(0 .. (N - 1)) /\ Cardinality(0 .. (N - 1)) = N
    <3>1. 0 \in Int /\ N - 1 \in Int
      OBVIOUS
    <3>2. IsFiniteSet(0 .. (N - 1)) /\ Cardinality(0 .. (N - 1)) = IF 0 > N - 1 THEN 0 ELSE (N - 1) - 0 + 1
      BY <3>1, FS_Interval
    <3> QED  BY <3>2
  <2>2. count \in Injection(S, 0 .. (N - 1))
    BY <1>3, <1>6 DEF Injection, IsInjective
  <2>3. count \in Surjection(S, 0 .. (N - 1))
    BY <1>1, <2>1, <2>2, FS_Injection
  <2>4. \A n \in 0 .. (N - 1) : \E x \in S : count[x] = n
    BY <2>3 DEF Surjection
  <2>5. \A i \in 1 .. N : i - 1 \in 0 .. (N - 1)
    OBVIOUS
  <2> QED  BY <2>4, <2>5
<1> QED  BY <1>1, <1>3, <1>5, <1>6, <1>7

\* A sorted listing holds every member once, in order.
LEMMA SortedOrder ==
    ASSUME NEW S, IsFiniteSet(S), NEW R, Orders(S, R), NEW f, Sorts(f, S, R)
    PROVE  /\ Cardinality(S) \in Nat /\ f \in [1 .. Cardinality(S) -> S]
           /\ \A i, j \in 1 .. Cardinality(S) : i < j <=> <<f[i], f[j]>> \in R
           /\ \A x \in S : \E i \in 1 .. Cardinality(S) : f[i] = x
<1>1. PICK N \in Nat : N = Cardinality(S)
  BY FS_CardinalityType
<1>2. f \in [1 .. N -> S] /\ \A i \in 1 .. N : Count(S, R, f[i]) = i - 1
  BY <1>1 DEF Sorts
<1>3. ASSUME NEW i \in 1 .. N, NEW j \in 1 .. N
      PROVE  i < j <=> <<f[i], f[j]>> \in R
  <2>1. f[i] \in S /\ f[j] \in S /\ Count(S, R, f[i]) = i - 1 /\ Count(S, R, f[j]) = j - 1
    BY <1>2
  <2>2. <<f[i], f[j]>> \in R <=> Count(S, R, f[i]) < Count(S, R, f[j])
    BY <2>1, Counted
  <2>3. i < j <=> i - 1 < j - 1
    OBVIOUS
  <2> QED  BY <2>1, <2>2, <2>3
<1>4. ASSUME NEW x \in S
      PROVE  \E i \in 1 .. N : f[i] = x
  <2>1. PICK n \in 0 .. (N - 1) : n = Count(S, R, x)
    BY <1>1, Counted
  <2>2. n + 1 \in 1 .. N /\ (n + 1) - 1 = n
    OBVIOUS
  <2>3. Count(S, R, f[n + 1]) = n /\ f[n + 1] \in S
    BY <1>2, <2>2
  <2>4. f[n + 1] = x
    BY <2>1, <2>3, Counted
  <2> QED  BY <2>2, <2>4
<1> QED  BY <1>1, <1>2, <1>3, <1>4

\* There is one sorted listing.
LEMMA SortedOnce ==
    ASSUME NEW S, IsFiniteSet(S), NEW R, Orders(S, R), NEW f, NEW g, Sorts(f, S, R), Sorts(g, S, R)
    PROVE  f = g
<1>1. PICK N \in Nat : N = Cardinality(S)
  BY FS_CardinalityType
<1>2. /\ f \in [1 .. N -> S] /\ g \in [1 .. N -> S]
      /\ \A i \in 1 .. N : Count(S, R, f[i]) = i - 1 /\ Count(S, R, g[i]) = i - 1
  BY <1>1 DEF Sorts
<1>3. ASSUME NEW i \in 1 .. N PROVE f[i] = g[i]
  <2>1. f[i] \in S /\ g[i] \in S /\ Count(S, R, f[i]) = Count(S, R, g[i])
    BY <1>2
  <2> QED  BY <2>1, Counted
<1> QED  BY <1>2, <1>3

\* A listing of every member that follows the order is the sorted one.
LEMMA FollowingSorts ==
    ASSUME NEW S, NEW R, Orders(S, R), NEW M \in Nat, NEW g \in [1 .. M -> S],
           \A x \in S : \E i \in 1 .. M : g[i] = x,
           \A i, j \in 1 .. M : i < j => <<g[i], g[j]>> \in R
    PROVE  IsFiniteSet(S) /\ Cardinality(S) = M /\ Sorts(g, S, R)
<1>1. \A i, j \in 1 .. M : g[i] = g[j] => i = j
  <2>1. \A i, j \in 1 .. M : i < j \/ j < i \/ i = j
    OBVIOUS
  <2> QED  BY <2>1 DEF Orders
<1>2. \A i, j \in 1 .. M : <<g[i], g[j]>> \in R => i < j
  <2>1. \A i, j \in 1 .. M : i < j \/ j < i \/ i = j
    OBVIOUS
  <2> QED  BY <2>1 DEF Orders
<1>3. IsFiniteSet(S) /\ Cardinality(S) = M
  <2>1. g \in Bijection(1 .. M, S)
    BY <1>1 DEF Bijection, Injection, Surjection, IsInjective
  <2>2. ExistsBijection(1 .. M, S)
    BY <2>1 DEF ExistsBijection
  <2>3. IsFiniteSet(1 .. M) /\ Cardinality(1 .. M) = M
    BY FS_Interval
  <2> QED  BY <2>2, <2>3, FS_Bijection
<1>4. ASSUME NEW k \in 1 .. M PROVE Count(S, R, g[k]) = k - 1
  <2> DEFINE part == [h \in 1 .. (k - 1) |-> g[h]]
             below == Preceding(S, R, g[k])
  <2>1. \A h \in 1 .. (k - 1) : h \in 1 .. M /\ h < k
    OBVIOUS
  <2>2. \A h \in 1 .. M : h < k => h \in 1 .. (k - 1)
    OBVIOUS
  <2>3. part \in [1 .. (k - 1) -> below]
    BY <2>1 DEF Preceding
  <2>4. \A x \in below : \E h \in 1 .. (k - 1) : part[h] = x
    <3> SUFFICES ASSUME NEW x \in below PROVE \E h \in 1 .. (k - 1) : part[h] = x
      OBVIOUS
    <3>1. x \in S /\ <<x, g[k]>> \in R
      BY DEF Preceding
    <3>2. PICK h \in 1 .. M : g[h] = x
      BY <3>1
    <3> QED  BY <1>2, <2>2, <3>1, <3>2
  <2>5. \A h, i \in 1 .. (k - 1) : part[h] = part[i] => h = i
    BY <1>1, <2>1
  <2> HIDE DEF part, below
  <2>6. part \in Bijection(1 .. (k - 1), below)
    BY <2>3, <2>4, <2>5 DEF Bijection, Injection, Surjection, IsInjective
  <2>7. ExistsBijection(1 .. (k - 1), below)
    BY <2>6 DEF ExistsBijection
  <2>8. IsFiniteSet(1 .. (k - 1)) /\ Cardinality(1 .. (k - 1)) = k - 1
    <3>1. k - 1 \in Int /\ 1 \in Int
      OBVIOUS
    <3>2. IsFiniteSet(1 .. (k - 1)) /\ Cardinality(1 .. (k - 1)) = IF 1 > k - 1 THEN 0 ELSE (k - 1) - 1 + 1
      BY <3>1, FS_Interval
    <3> QED  BY <3>2
  <2>9. Cardinality(below) = k - 1
    BY <2>7, <2>8, FS_Bijection
  <2> QED  BY <2>9 DEF below, Count
<1> QED  BY <1>3, <1>4 DEF Sorts

\* Choosing by that number is a sorted listing.
LEMMA ChosenSorts ==
    ASSUME NEW S, IsFiniteSet(S), NEW R, Orders(S, R), NEW N \in Nat, N = Cardinality(S),
           NEW f, f = [i \in 1 .. N |-> CHOOSE x \in S : Count(S, R, x) = i - 1]
    PROVE  Sorts(f, S, R)
<1>1. ASSUME NEW i \in 1 .. N PROVE f[i] \in S /\ Count(S, R, f[i]) = i - 1
  <2>1. \E x \in S : Count(S, R, x) = i - 1
    BY Counted
  <2>2. f[i] = CHOOSE x \in S : Count(S, R, x) = i - 1
    OBVIOUS
  <2> HIDE DEF Count
  <2> QED  BY <2>1, <2>2
<1>2. f \in [1 .. N -> S]
  BY <1>1
<1> QED  BY <1>1, <1>2 DEF Sorts

-----------------------------------------------------------------------------
(* Cursors over every listing.                                             *)

\* The Captures a listing holds: no two share an id.
Distinct(rows) == \A x, y \in rows : x.id = y.id => x = y

\* y is listed behind x.
Behind(rows) == {pair \in rows \X rows : After(pair[2], pair[1])}

\* What query_captures lists before a row.
Leading(rows, row) ==
    {x \in rows : \/ x.rank > row.rank
                  \/ x.rank = row.rank /\ x.created > row.created
                  \/ x.rank = row.rank /\ x.created = row.created /\ x.id > row.id}

LEMMA RowsFinite ==
    ASSUME NEW rows \in SUBSET Keys, Distinct(rows)
    PROVE  IsFiniteSet(rows)
<1> DEFINE ids == {x.id : x \in rows}
           row == [i \in ids |-> CHOOSE x \in rows : x.id = i]
<1>1. ids \in SUBSET (1 .. MaxFound)
  BY DEF Keys
<1>2. IsFiniteSet(1 .. MaxFound)
  BY FS_Interval, RetrievalAssumption
<1>3. IsFiniteSet(ids)
  BY <1>1, <1>2, FS_Subset
<1>4. \A i \in ids : row[i] \in rows /\ row[i].id = i
  OBVIOUS
<1>5. \A x \in rows : x.id \in ids /\ row[x.id] = x
  BY <1>4 DEF Distinct
<1>6. row \in Surjection(ids, rows)
  BY <1>4, <1>5 DEF Surjection
<1> QED  BY <1>3, <1>6, FS_Surjection

LEMMA RowsOrdered ==
    ASSUME NEW rows \in SUBSET Keys, Distinct(rows)
    PROVE  Orders(rows, Behind(rows))
<1>1. \A x, y \in rows : <<x, y>> \in Behind(rows) <=> After(y, x)
  BY DEF Behind
<1>2. \A x \in rows : ~After(x, x)
  BY DEF Keys, After
<1>3. \A x, y, z \in rows : After(y, x) /\ After(z, y) => After(z, x)
  BY DEF Keys, After
<1>4. \A x, y \in rows : x # y => After(y, x) \/ After(x, y)
  BY DEF Keys, After, Distinct
<1> QED  BY <1>1, <1>2, <1>3, <1>4 DEF Orders

LEMMA ListingSorts ==
    ASSUME NEW rows \in SUBSET Keys, Distinct(rows)
    PROVE  Sorts(Listing(rows), rows, Behind(rows))
<1>1. IsFiniteSet(rows) /\ Orders(rows, Behind(rows))
  BY RowsFinite, RowsOrdered
<1>2. PICK N \in Nat : N = Cardinality(rows)
  BY <1>1, FS_CardinalityType
<1>3. \A row \in rows : Leading(rows, row) = Preceding(rows, Behind(rows), row)
  <2>1. \A x, row \in rows : <<x, row>> \in Behind(rows) <=> After(row, x)
    BY DEF Behind
  <2>2. \A x, row \in rows : x \in Leading(rows, row) <=> After(row, x)
    BY DEF Leading, After, Keys
  <2>3. \A row \in rows : Leading(rows, row) \subseteq rows
    BY DEF Leading
  <2> QED  BY <2>1, <2>2, <2>3 DEF Preceding
<1>4. Listing(rows) = [i \in 1 .. Cardinality(rows) |->
                          CHOOSE row \in rows : Cardinality(Leading(rows, row)) = i - 1]
  BY Zenon DEF Listing, Leading
<1>5. \A row \in rows : Cardinality(Leading(rows, row)) = Count(rows, Behind(rows), row)
  BY <1>3 DEF Count
<1>6. ASSUME NEW i \in 1 .. N
      PROVE  Listing(rows)[i] \in rows /\ Count(rows, Behind(rows), Listing(rows)[i]) = i - 1
  <2>1. \E row \in rows : Cardinality(Leading(rows, row)) = i - 1
    <3>1. \E row \in rows : Count(rows, Behind(rows), row) = i - 1
      BY <1>1, <1>2, Counted
    <3> QED  BY <3>1, <1>5
  <2>2. Listing(rows)[i] = CHOOSE row \in rows : Cardinality(Leading(rows, row)) = i - 1
    BY <1>2, <1>4
  <2>3. Listing(rows)[i] \in rows /\ Cardinality(Leading(rows, Listing(rows)[i])) = i - 1
    BY <2>1, <2>2
  <2> QED  BY <2>3, <1>5
<1>7. Listing(rows) \in [1 .. N -> rows]
  <2>1. Listing(rows) = [i \in 1 .. N |-> Listing(rows)[i]]
    BY <1>2, <1>4
  <2> QED  BY <2>1, <1>6
<1> QED  BY <1>2, <1>6, <1>7 DEF Sorts

\* A prefix of what stands behind place i of a listing is a stretch of the listing.
LEMMA CutShifted ==
    ASSUME NEW S, NEW N \in Nat, NEW f \in [1 .. N -> S], NEW i \in 1 .. N, NEW size \in Nat
    PROVE  First([k \in 1 .. (N - i) |-> f[i + k]], size)
               = SubSeq(f, i + 1, Least(i + size, N))
<1> DEFINE g == [k \in 1 .. (N - i) |-> f[i + k]]
           n == Least(size, N - i)
           m == Least(i + size, N)
<1>1. /\ n \in Nat /\ m \in Nat /\ m = i + n /\ n <= N - i
      /\ N - i \in Nat /\ 1 \in Int /\ i + 1 \in Int
  BY DEF Least
<1>2. Len(g) = N - i /\ g \in Seq(S)
  <2>1. \A k \in 1 .. (N - i) : i + k \in 1 .. N
    OBVIOUS
  <2>2. g \in [1 .. (N - i) -> S]
    BY <2>1
  <2>3. g \in Seq(S)
    BY <1>1, <2>2
  <2> QED  BY <1>1, <2>2, <2>3, LenProperties
<1>3. First(g, size) = SubSeq(g, 1, n)
  BY <1>2 DEF First
<1> HIDE DEF n, m
<1>4. /\ SubSeq(g, 1, n) \in Seq(S)
      /\ Len(SubSeq(g, 1, n)) = n
      /\ \A k \in 1 .. n : SubSeq(g, 1, n)[k] = f[i + k]
  <2>1. \A k \in 1 .. n : k \in 1 .. (N - i) /\ i + k \in 1 .. N
    BY <1>1
  <2>2. \A k \in 1 .. n : g[k] = f[i + k] /\ g[k] \in S
    BY <2>1
  <2> HIDE DEF g
  <2>3. /\ SubSeq(g, 1, n) \in Seq(S)
        /\ Len(SubSeq(g, 1, n)) = IF 1 <= n THEN n - 1 + 1 ELSE 0
        /\ \A k \in 1 .. (n - 1 + 1) : SubSeq(g, 1, n)[k] = g[1 + k - 1]
    BY <1>1, <2>2, SubSeqProperties
  <2>4. n - 1 + 1 = n /\ \A k \in 1 .. n : 1 + k - 1 = k
    BY <1>1
  <2> QED  BY <1>1, <2>2, <2>3, <2>4
<1>5. /\ SubSeq(f, i + 1, m) \in Seq(S)
      /\ Len(SubSeq(f, i + 1, m)) = n
      /\ \A k \in 1 .. n : SubSeq(f, i + 1, m)[k] = f[i + k]
  <2>1. \A k \in (i + 1) .. m : f[k] \in S
    BY <1>1
  <2>2. /\ SubSeq(f, i + 1, m) \in Seq(S)
        /\ Len(SubSeq(f, i + 1, m)) = IF i + 1 <= m THEN m - (i + 1) + 1 ELSE 0
        /\ \A k \in 1 .. (m - (i + 1) + 1) : SubSeq(f, i + 1, m)[k] = f[(i + 1) + k - 1]
    BY <1>1, <2>1, SubSeqProperties
  <2>3. m - (i + 1) + 1 = n /\ \A k \in 1 .. n : (i + 1) + k - 1 = i + k
    BY <1>1
  <2> QED  BY <1>1, <2>2, <2>3
<1>6. SubSeq(g, 1, n) = SubSeq(f, i + 1, m)
  BY <1>4, <1>5, SeqEqual
<1> QED  BY <1>3, <1>6 DEF m

\* What lies behind the i-th row of a listing is listed as the rest of the listing.
LEMMA ListingBehind ==
    ASSUME NEW rows \in SUBSET Keys, Distinct(rows), NEW N \in Nat, N = Cardinality(rows),
           NEW i \in 1 .. N
    PROVE  Listing({row \in rows : After(row, Listing(rows)[i])})
               = [k \in 1 .. (N - i) |-> Listing(rows)[i + k]]
<1> DEFINE f == Listing(rows)
           R == Behind(rows)
<1>1. /\ f \in [1 .. N -> rows]
      /\ \A h, j \in 1 .. N : h < j <=> <<f[h], f[j]>> \in R
      /\ \A x \in rows : \E h \in 1 .. N : f[h] = x
  BY RowsFinite, RowsOrdered, ListingSorts, SortedOrder
<1> DEFINE position == f[i]
           rest == {row \in rows : After(row, position)}
           Q == Behind(rest)
           g == [k \in 1 .. (N - i) |-> f[i + k]]
<1> HIDE DEF f
<1>2. position \in rows /\ rest \in SUBSET Keys /\ Distinct(rest) /\ rest \subseteq rows
  BY <1>1 DEF Distinct
<1>3. \A x, y \in rows : <<x, y>> \in R <=> After(y, x)
  BY DEF Behind
<1>4. \A x, y \in rest : <<x, y>> \in Q <=> After(y, x)
  BY DEF Behind
<1>5. \A h \in 1 .. N : f[h] \in rest <=> i < h
  BY <1>1, <1>3
<1> HIDE DEF rest, Q, R, position
<1>6. \A k \in 1 .. (N - i) : i + k \in 1 .. N /\ i < i + k
  OBVIOUS
<1>7. g \in [1 .. (N - i) -> rest]
  BY <1>5, <1>6
<1>8. ASSUME NEW x \in rest PROVE \E k \in 1 .. (N - i) : g[k] = x
  <2>1. PICK h \in 1 .. N : f[h] = x
    BY <1>1, <1>2
  <2>2. i < h
    BY <1>5, <2>1
  <2>3. h - i \in 1 .. (N - i) /\ i + (h - i) = h
    BY <2>2
  <2> QED  BY <2>1, <2>3
<1>9. ASSUME NEW k \in 1 .. (N - i), NEW l \in 1 .. (N - i), k < l
      PROVE  <<g[k], g[l]>> \in Q
  <2>1. <<f[i + k], f[i + l]>> \in R /\ f[i + k] \in rest /\ f[i + l] \in rest
    BY <1>1, <1>5, <1>6, <1>9
  <2>2. After(f[i + l], f[i + k])
    BY <1>2, <1>3, <2>1
  <2>3. <<f[i + k], f[i + l]>> \in Q
    BY <1>4, <2>1, <2>2
  <2> QED  BY <2>3
<1>10. Orders(rest, Q)
  BY <1>2, RowsOrdered DEF Q
<1>11. IsFiniteSet(rest) /\ Sorts(g, rest, Q)
  <2>1. PICK k \in Nat : k = N - i
    OBVIOUS
  <2> HIDE DEF g
  <2>2. g \in [1 .. k -> rest]
    BY <1>7, <2>1
  <2>3. \A x \in rest : \E j \in 1 .. k : g[j] = x
    BY <1>8, <2>1
  <2>4. \A j, l \in 1 .. k : j < l => <<g[j], g[l]>> \in Q
    BY <1>9, <2>1
  <2> QED  BY <1>10, <2>2, <2>3, <2>4, FollowingSorts
<1>12. Sorts(Listing(rest), rest, Q)
  BY <1>2, ListingSorts DEF Q
<1>13. Listing(rest) = g
  BY <1>10, <1>11, <1>12, SortedOnce
<1> QED  BY <1>13 DEF rest, position, f, g

\* Whatever the number of Captures and the size of a page, the page behind a cursor is the
\* stretch of the listing that follows it, and a next cursor is issued when more remains
\* (query_captures, encode_inbox_cursor).
THEOREM CursorsComplete == CursorComplete
<1> SUFFICES ASSUME NEW rows \in SUBSET Keys, Cardinality(rows) <= MaxFound, Distinct(rows),
                    NEW i \in DOMAIN Listing(rows), NEW size \in 1 .. MaxFound
             PROVE  LET listing == Listing(rows)
                        page == CursorPage(rows, listing[i], size)
                    IN  /\ page.items = SubSeq(listing, i + 1, Least(i + size, Len(listing)))
                        /\ page.more = (i + size < Len(listing))
  BY DEF CursorComplete, Distinct
<1> DEFINE f == Listing(rows)
<1>1. PICK N \in Nat : N = Cardinality(rows)
  BY RowsFinite, FS_CardinalityType
<1>2. f \in [1 .. N -> rows]
  BY <1>1, ListingSorts DEF Sorts
<1>3. Len(f) = N /\ i \in 1 .. N /\ size \in Nat
  <2>1. f \in Seq(rows)
    BY <1>2
  <2> QED  BY <1>2, <2>1, LenProperties, RetrievalAssumption
<1> DEFINE g == [k \in 1 .. (N - i) |-> f[i + k]]
<1>4. Listing({row \in rows : After(row, f[i])}) = g
  BY <1>1, <1>3, ListingBehind
<1>5. Len(g) = N - i
  BY <1>3
<1>6. First(g, size) = SubSeq(f, i + 1, Least(i + size, N))
  <2> HIDE DEF f
  <2> QED  BY <1>2, <1>3, CutShifted
<1>7. Len(g) > size <=> i + size < Len(f)
  BY <1>3, <1>5
<1> HIDE DEF f, g
<1>8. PICK more \in BOOLEAN : more = (Len(g) > size)
  <2>1. (Len(g) > size) \in BOOLEAN
    OBVIOUS
  <2> QED  BY <2>1, Zenon
<1>9. more = (i + size < Len(f))
  <2>1. more <=> i + size < Len(f)
    BY <1>7, <1>8
  <2> QED  BY <2>1
<1>10. CursorPage(rows, f[i], size) = [items |-> First(g, size), more |-> more]
  BY <1>4, <1>8 DEF CursorPage
<1>11. CursorPage(rows, f[i], size).items = First(g, size) /\ CursorPage(rows, f[i], size).more = more
  BY <1>10
<1>12. CursorPage(rows, f[i], size).items = SubSeq(f, i + 1, Least(i + size, Len(f)))
  BY <1>3, <1>6, <1>11
<1> QED  BY <1>9, <1>11, <1>12 DEF f

-----------------------------------------------------------------------------
(* Scores are fractions of positive denominators.                          *)

Fractions == [num : Nat, den : Nat \ {0}]

\* A product keeps a strict or a weak inequality.
LEMMA TimesPositive ==
    \A x, y, z \in Nat : z > 0 => (x > y <=> x * z > y * z) /\ (x >= y <=> x * z >= y * z)
<1>1. ASSUME NEW x \in Nat, NEW y \in Nat, NEW z \in Nat, z > 0, x > y PROVE x * z > y * z
  <2>1. PICK d \in Nat : x = y + d /\ d >= 1
    <3>1. x - y \in Nat /\ x = y + (x - y) /\ x - y >= 1
      BY <1>1
    <3> QED  BY <3>1
  <2>2. x * z = y * z + d * z
    BY <2>1
  <2>3. d * z >= z
    BY <2>1
  <2> QED  BY <1>1, <2>2, <2>3
<1>2. ASSUME NEW x \in Nat, NEW y \in Nat, NEW z \in Nat, z > 0
      PROVE  (x > y <=> x * z > y * z) /\ (x >= y <=> x * z >= y * z)
  <2>1. x > y \/ x = y \/ y > x
    OBVIOUS
  <2>2. x * z \in Nat /\ y * z \in Nat
    OBVIOUS
  <2> QED  BY <1>1, <1>2, <2>1, <2>2
<1> QED  BY <1>2

\* x is no lower than y.
Reaches(x, y) == x.num * y.den >= y.num * x.den

LEMMA AboveOrReached ==
    ASSUME NEW x \in Fractions, NEW y \in Fractions
    PROVE  /\ ~Above(x, x)
           /\ Above(x, y) => Reaches(x, y)
           /\ ~Above(y, x) <=> Reaches(x, y)
<1>1. /\ x.num \in Nat /\ y.num \in Nat /\ x.den \in Nat /\ y.den \in Nat
  BY DEF Fractions
<1>2. x.num * y.den \in Nat /\ y.num * x.den \in Nat /\ x.num * x.den \in Nat
  BY <1>1
<1> QED  BY <1>2 DEF Above, Reaches

LEMMA ReachesThrough ==
    ASSUME NEW x \in Fractions, NEW y \in Fractions, NEW z \in Fractions,
           Reaches(x, y), Reaches(y, z)
    PROVE  /\ Reaches(x, z)
           /\ Above(x, y) \/ Above(y, z) => Above(x, z)
<1>1. PICK a \in Nat, b \in Nat, c \in Nat, d \in Nat, e \in Nat, f \in Nat :
         /\ x.num = a /\ x.den = b /\ y.num = c /\ y.den = d /\ z.num = e /\ z.den = f
         /\ b > 0 /\ d > 0 /\ f > 0
  BY DEF Fractions
<1>2. a * d >= c * b /\ c * f >= e * d
  BY <1>1 DEF Reaches
<1>3. /\ a * d \in Nat /\ c * b \in Nat /\ c * f \in Nat /\ e * d \in Nat
      /\ a * f \in Nat /\ e * b \in Nat
  OBVIOUS
<1>4. (a * d) * f >= (c * b) * f /\ (c * f) * b >= (e * d) * b
  BY <1>1, <1>2, <1>3, TimesPositive
<1>5. /\ (a * d) * f = (a * f) * d /\ (c * b) * f = (c * f) * b /\ (e * d) * b = (e * b) * d
  OBVIOUS
<1>6. (a * f) * d \in Nat /\ (c * f) * b \in Nat /\ (e * b) * d \in Nat
  BY <1>3
<1>7. (a * f) * d >= (e * b) * d
  BY <1>4, <1>5, <1>6
<1>8. a * f >= e * b
  BY <1>1, <1>3, <1>7, TimesPositive
<1>9. ASSUME a * d > c * b PROVE a * f > e * b
  <2>1. (a * d) * f > (c * b) * f
    BY <1>1, <1>3, <1>9, TimesPositive
  <2>2. (a * f) * d > (e * b) * d
    BY <1>4, <1>5, <1>6, <2>1
  <2> QED  BY <1>1, <1>3, <2>2, TimesPositive
<1>10. ASSUME c * f > e * d PROVE a * f > e * b
  <2>1. (c * f) * b > (e * d) * b
    BY <1>1, <1>3, <1>10, TimesPositive
  <2>2. (a * f) * d > (e * b) * d
    BY <1>4, <1>5, <1>6, <2>1
  <2> QED  BY <1>1, <1>3, <2>2, TimesPositive
<1> QED  BY <1>1, <1>8, <1>9, <1>10 DEF Reaches, Above

LEMMA PlusFraction ==
    \A x, y \in Fractions : Plus(x, y) \in Fractions
<1> SUFFICES ASSUME NEW x \in Fractions, NEW y \in Fractions PROVE Plus(x, y) \in Fractions
  OBVIOUS
<1>1. /\ x.num \in Nat /\ y.num \in Nat /\ x.den \in Nat /\ y.den \in Nat /\ x.den > 0 /\ y.den > 0
  BY DEF Fractions
<1>2. x.num * y.den \in Nat /\ y.num * x.den \in Nat /\ x.den * y.den \in Nat /\ x.den * y.den > 0
  BY <1>1
<1> QED  BY <1>2 DEF Plus, Fractions

\* Of two sums, the one whose parts are no lower, and one of them higher, is higher.
LEMMA PlusAbove ==
    ASSUME NEW x \in Fractions, NEW y \in Fractions, NEW u \in Fractions, NEW v \in Fractions,
           Reaches(x, u), Reaches(y, v), Above(x, u) \/ Above(y, v)
    PROVE  Above(Plus(x, y), Plus(u, v))
<1>0. \A p \in Fractions : \E n, m \in Nat : p.num = n /\ p.den = m /\ m > 0
  BY DEF Fractions
<1>1. PICK a \in Nat, b \in Nat : x.num = a /\ x.den = b /\ b > 0
  BY <1>0
<1>2. PICK c \in Nat, d \in Nat : y.num = c /\ y.den = d /\ d > 0
  BY <1>0
<1>3. PICK e \in Nat, f \in Nat : u.num = e /\ u.den = f /\ f > 0
  BY <1>0
<1>4. PICK g \in Nat, h \in Nat : v.num = g /\ v.den = h /\ h > 0
  BY <1>0
<1>5. /\ x.num = a /\ x.den = b /\ y.num = c /\ y.den = d
      /\ u.num = e /\ u.den = f /\ v.num = g /\ v.den = h
      /\ b > 0 /\ d > 0 /\ f > 0 /\ h > 0
  BY <1>1, <1>2, <1>3, <1>4
<1>6. a * f >= e * b /\ c * h >= g * d /\ (a * f > e * b \/ c * h > g * d)
  BY <1>5 DEF Reaches, Above
<1>7. /\ a * f \in Nat /\ e * b \in Nat /\ c * h \in Nat /\ g * d \in Nat
      /\ d * h \in Nat /\ d * h > 0 /\ b * f \in Nat /\ b * f > 0
  BY <1>5
<1>8. /\ (a * f) * (d * h) >= (e * b) * (d * h)
      /\ (c * h) * (b * f) >= (g * d) * (b * f)
      /\ \/ (a * f) * (d * h) > (e * b) * (d * h)
         \/ (c * h) * (b * f) > (g * d) * (b * f)
  BY <1>6, <1>7, TimesPositive
<1>9. (a * d + c * b) * (f * h) = (a * f) * (d * h) + (c * h) * (b * f)
  OBVIOUS
<1>10. (e * h + g * f) * (b * d) = (e * b) * (d * h) + (g * d) * (b * f)
  OBVIOUS
<1>11. /\ (a * f) * (d * h) \in Nat /\ (e * b) * (d * h) \in Nat
      /\ (c * h) * (b * f) \in Nat /\ (g * d) * (b * f) \in Nat
  BY <1>7
<1>12. (a * d + c * b) * (f * h) > (e * h + g * f) * (b * d)
  BY <1>8, <1>9, <1>10, <1>11
<1> QED  BY <1>5, <1>12 DEF Above, Plus

-----------------------------------------------------------------------------
(* Channels.                                                               *)

\* c lists n Memories, each once.
Ranking(c, n) ==
    /\ c \in [1 .. n -> Found]
    /\ \A i, j \in 1 .. n : i # j => c[i] # c[j]

LEMMA ChannelRanking ==
    ASSUME NEW c \in Channels
    PROVE  \E n \in Nat : n <= MaxFound /\ Ranking(c, n)
<1>1. PICK n \in 0 .. MaxFound : c \in [1 .. n -> Found]
  BY DEF Channels
<1>2. \A i, j \in 1 .. n : i # j => c[i] # c[j]
  BY <1>1 DEF Channels
<1>3. n \in Nat /\ n <= MaxFound
  BY RetrievalAssumption
<1> QED  BY <1>1, <1>2, <1>3 DEF Ranking

LEMMA RankOf ==
    ASSUME NEW n \in Nat, NEW c, Ranking(c, n)
    PROVE  /\ MatchedBy(c) \subseteq Found
           /\ \A i \in 1 .. n : c[i] \in MatchedBy(c) /\ Rank(c, c[i]) = i
           /\ \A m \in MatchedBy(c) : Rank(c, m) \in 1 .. n /\ c[Rank(c, m)] = m
<1>1. DOMAIN c = 1 .. n /\ MatchedBy(c) \subseteq Found
  BY DEF Ranking, MatchedBy
<1>2. \A m \in MatchedBy(c) : \E i \in 1 .. n : c[i] = m
  BY <1>1 DEF MatchedBy
<1>3. \A m : Rank(c, m) = CHOOSE i \in 1 .. n : c[i] = m
  BY <1>1 DEF Rank
<1>4. \A m \in MatchedBy(c) : Rank(c, m) \in 1 .. n /\ c[Rank(c, m)] = m
  BY <1>2, <1>3
<1>5. \A i \in 1 .. n : c[i] \in MatchedBy(c)
  BY <1>1 DEF MatchedBy
<1>6. \A i \in 1 .. n : Rank(c, c[i]) = i
  BY <1>4, <1>5 DEF Ranking
<1> QED  BY <1>1, <1>4, <1>5, <1>6

LEMMA ContributionFraction ==
    ASSUME NEW n \in Nat, NEW c, Ranking(c, n), NEW m
    PROVE  Contribution(c, m) \in Fractions
<1>1. m \in MatchedBy(c) => RRF_K + Rank(c, m) \in Nat \ {0}
  BY RankOf DEF RRF_K
<1> QED  BY <1>1 DEF Contribution, Fractions

\* A better rank, or any rank at all, contributes more.
LEMMA BetterContributes ==
    ASSUME NEW n \in Nat, NEW c, Ranking(c, n), NEW x, NEW y,
           y \in MatchedBy(c) => x \in MatchedBy(c) /\ Rank(c, x) < Rank(c, y)
    PROVE  /\ Reaches(Contribution(c, x), Contribution(c, y))
           /\ y \in MatchedBy(c) => Above(Contribution(c, x), Contribution(c, y))
<1>1. CASE y \in MatchedBy(c)
  <2>1. PICK i \in 1 .. n, j \in 1 .. n : i = Rank(c, x) /\ j = Rank(c, y) /\ i < j
    BY <1>1, RankOf
  <2>2. /\ Contribution(c, x) = [num |-> 1, den |-> 60 + i]
        /\ Contribution(c, y) = [num |-> 1, den |-> 60 + j]
    BY <1>1, <2>1 DEF Contribution, RRF_K
  <2> QED  BY <2>1, <2>2 DEF Reaches, Above
<1>2. CASE y \notin MatchedBy(c)
  <2>1. Contribution(c, y) = [num |-> 0, den |-> 1]
    BY <1>2 DEF Contribution
  <2>2. PICK p \in Nat : p = Contribution(c, x).num
    BY ContributionFraction DEF Fractions
  <2>3. PICK q \in Nat : q = Contribution(c, x).den
    BY ContributionFraction DEF Fractions
  <2>4. p * 1 >= 0 * q
    OBVIOUS
  <2>5. Reaches(Contribution(c, x), Contribution(c, y))
    BY <2>1, <2>2, <2>3, <2>4 DEF Reaches
  <2> QED  BY <1>2, <2>5
<1> QED  BY <1>1, <1>2

\* h picks places of a channel, going down.
Descends(h, k, n) ==
    /\ h \in [1 .. k -> 1 .. n]
    /\ \A i, j \in 1 .. k : i < j <=> h[i] < h[j]

\* What is left of a channel is a channel, in the same order.
LEMMA ThinnedRanking ==
    ASSUME NEW n \in Nat, NEW c, Ranking(c, n), NEW k \in Nat, NEW h, Descends(h, k, n),
           NEW d, d = [i \in 1 .. k |-> c[h[i]]]
    PROVE  /\ Ranking(d, k)
           /\ MatchedBy(d) \subseteq MatchedBy(c)
           /\ \A i \in 1 .. k : Rank(c, d[i]) = h[i]
           /\ \A x, y \in MatchedBy(d) : Rank(d, x) < Rank(d, y) <=> Rank(c, x) < Rank(c, y)
<1>1. \A i \in 1 .. k : h[i] \in 1 .. n /\ d[i] = c[h[i]]
  BY DEF Descends
<1>2. \A i, j \in 1 .. k : i # j => h[i] # h[j]
  <2>1. \A i, j \in 1 .. k : i # j => i < j \/ j < i
    OBVIOUS
  <2> QED  BY <1>1, <2>1 DEF Descends
<1>3. Ranking(d, k)
  BY <1>1, <1>2 DEF Ranking
<1>4. \A i \in 1 .. k : Rank(c, d[i]) = h[i] /\ d[i] \in MatchedBy(c)
  BY <1>1, RankOf
<1>5. \A x \in MatchedBy(d) : Rank(d, x) \in 1 .. k /\ d[Rank(d, x)] = x
  BY <1>3, RankOf
<1>6. MatchedBy(d) \subseteq MatchedBy(c)
  BY <1>4, <1>5
<1>7. \A x \in MatchedBy(d) : Rank(c, x) = h[Rank(d, x)]
  BY <1>4, <1>5
<1>8. \A x, y \in MatchedBy(d) : Rank(d, x) < Rank(d, y) <=> Rank(c, x) < Rank(c, y)
  BY <1>5, <1>7 DEF Descends
<1> QED  BY <1>3, <1>4, <1>6, <1>8

\* The active part of a channel.
LEMMA KeptThins ==
    ASSUME NEW n \in Nat, NEW c, Ranking(c, n), NEW active
    PROVE  \E k \in Nat : \E h :
               /\ Descends(h, k, n)
               /\ Kept(c, active) = [i \in 1 .. k |-> c[h[i]]]
               /\ \A i \in 1 .. k : c[h[i]] \in active
               /\ \A j \in 1 .. n : c[j] \in active => \E i \in 1 .. k : h[i] = j
<1> DEFINE places == {i \in DOMAIN c : c[i] \in active}
           R == {pair \in places \X places : pair[1] < pair[2]}
<1>1. DOMAIN c = 1 .. n
  BY DEF Ranking
<1>2. IsFiniteSet(places)
  <2>1. IsFiniteSet(1 .. n) /\ places \in SUBSET (1 .. n)
    BY <1>1, FS_Interval
  <2> QED  BY <2>1, FS_Subset
<1>3. PICK k \in Nat : k = Cardinality(places)
  BY <1>2, FS_CardinalityType
<1>4. \A i, j \in places : <<i, j>> \in R <=> i < j
  OBVIOUS
<1>5. \A i : i \in places <=> i \in 1 .. n /\ c[i] \in active
  BY <1>1
<1>6. \A i \in places : {j \in places : j < i} = Preceding(places, R, i)
  BY DEF Preceding
<1>7. Kept(c, active) = [i \in 1 .. Cardinality(places) |->
                            c[CHOOSE p \in places : Cardinality({j \in places : j < p}) = i - 1]]
  BY Zenon DEF Kept
<1> HIDE DEF R, places
<1> DEFINE h == [i \in 1 .. k |-> CHOOSE p \in places : Cardinality({j \in places : j < p}) = i - 1]
<1>8. Kept(c, active) = [i \in 1 .. k |-> c[h[i]]]
  BY <1>3, <1>7
<1>9. Orders(places, R)
  <2>1. \A x, y, z \in places : x < y /\ y < z => x < z
    BY <1>5
  <2>2. \A x, y \in places : ~(x < x) /\ (x # y => x < y \/ y < x)
    BY <1>5
  <2> QED  BY <1>4, <2>1, <2>2 DEF Orders
<1>10. Sorts(h, places, R)
  <2>1. ASSUME NEW i \in 1 .. k PROVE h[i] \in places /\ Count(places, R, h[i]) = i - 1
    <3>1. PICK p \in places : Count(places, R, p) = i - 1
      BY <1>2, <1>3, <1>9, Counted
    <3>2. Cardinality({j \in places : j < p}) = i - 1
      BY <1>6, <3>1 DEF Count
    <3>3. h[i] \in places /\ Cardinality({j \in places : j < h[i]}) = i - 1
      BY <3>2, Zenon
    <3> QED  BY <1>6, <3>3 DEF Count
  <2>2. h \in [1 .. k -> places]
    BY <2>1
  <2> QED  BY <1>3, <2>1, <2>2 DEF Sorts
<1>11. /\ h \in [1 .. k -> places]
       /\ \A i, j \in 1 .. k : i < j <=> <<h[i], h[j]>> \in R
       /\ \A p \in places : \E i \in 1 .. k : h[i] = p
  <2> HIDE DEF h
  <2> QED  BY <1>2, <1>3, <1>9, <1>10, SortedOrder
<1> HIDE DEF h
<1>12. Descends(h, k, n)
  BY <1>4, <1>5, <1>11 DEF Descends
<1>13. \A i \in 1 .. k : c[h[i]] \in active
  BY <1>5, <1>11
<1>14. \A j \in 1 .. n : c[j] \in active => \E i \in 1 .. k : h[i] = j
  BY <1>5, <1>11
<1> QED  BY <1>8, <1>12, <1>13, <1>14

\* The window cuts a channel to its beginning.
LEMMA FirstThins ==
    ASSUME NEW n \in Nat, NEW c, Ranking(c, n), NEW w \in Nat, NEW k, k = Least(w, n)
    PROVE  /\ k \in Nat /\ k <= n
           /\ First(c, w) = [i \in 1 .. k |-> c[i]]
<1>1. k \in Nat /\ k <= n
  BY DEF Least
<1>2. c \in Seq(Found) /\ Len(c) = n
  <2>1. c \in Seq(Found)
    BY DEF Ranking
  <2> QED  BY <2>1, LenProperties DEF Ranking
<1>3. First(c, w) = SubSeq(c, 1, k)
  BY <1>2 DEF First
<1>4. /\ SubSeq(c, 1, k) \in Seq(Found)
      /\ Len(SubSeq(c, 1, k)) = k
      /\ \A i \in 1 .. k : SubSeq(c, 1, k)[i] = c[i]
  <2>1. \A i \in 1 .. k : c[i] \in Found
    BY <1>1 DEF Ranking
  <2>2. 1 \in Int /\ k \in Int
    BY <1>1
  <2>3. /\ SubSeq(c, 1, k) \in Seq(Found)
        /\ Len(SubSeq(c, 1, k)) = IF 1 <= k THEN k - 1 + 1 ELSE 0
        /\ \A i \in 1 .. (k - 1 + 1) : SubSeq(c, 1, k)[i] = c[1 + i - 1]
    BY <2>1, <2>2, SubSeqProperties
  <2>4. k - 1 + 1 = k /\ \A i \in 1 .. k : 1 + i - 1 = i
    BY <1>1
  <2> QED  BY <1>1, <2>3, <2>4
<1>5. SubSeq(c, 1, k) = [i \in 1 .. k |-> c[i]]
  <2>1. SubSeq(c, 1, k) \in [1 .. k -> Found]
    BY <1>4, LenProperties
  <2> QED  BY <1>4, <2>1
<1> QED  BY <1>1, <1>3, <1>5

-----------------------------------------------------------------------------
(* Fusion.                                                                 *)

Matched(lexical, semantic) == MatchedBy(lexical) \cup MatchedBy(semantic)

\* The pairs of candidates that the ORDER BY of search_memories_hybrid puts in this order.
Earlier(lexical, semantic) ==
    {pair \in Matched(lexical, semantic) \X Matched(lexical, semantic) :
        Before(lexical, semantic, pair[1], pair[2])}

LEMMA FusedFraction ==
    ASSUME NEW n \in Nat, NEW m \in Nat, NEW l, NEW s, Ranking(l, n), Ranking(s, m)
    PROVE  \A x : Fused(l, s, x) \in Fractions
BY ContributionFraction, PlusFraction DEF Fused

\* Equal scores are told apart by age, so the order is total.
LEMMA FusionOrdered ==
    ASSUME NEW n \in Nat, NEW m \in Nat, NEW l, NEW s, Ranking(l, n), Ranking(s, m)
    PROVE  Orders(Matched(l, s), Earlier(l, s))
<1> DEFINE S == Matched(l, s)
           F(x) == Fused(l, s, x)
<1>1. S \subseteq Nat
  <2>1. Found \subseteq Nat
    BY RetrievalAssumption DEF Found
  <2> QED  BY <2>1, RankOf DEF Matched
<1>2. \A x, y \in S : <<x, y>> \in Earlier(l, s) <=> Before(l, s, x, y)
  BY DEF Earlier
<1>3. \A x : F(x) \in Fractions
  BY FusedFraction
<1>4. \A x, y \in S : Before(l, s, x, y) <=> Above(F(x), F(y)) \/ (Reaches(F(x), F(y)) /\ x < y)
  <2> SUFFICES ASSUME NEW x \in S, NEW y \in S
               PROVE  Before(l, s, x, y) <=> Above(F(x), F(y)) \/ (Reaches(F(x), F(y)) /\ x < y)
    OBVIOUS
  <2>1. ~Above(F(y), F(x)) <=> Reaches(F(x), F(y))
    BY <1>3, AboveOrReached
  <2> QED  BY <2>1, Zenon DEF Before
<1> HIDE DEF F, S
<1>5. \A x \in S : ~Before(l, s, x, x)
  BY <1>1, <1>3, <1>4, AboveOrReached
<1>6. ASSUME NEW x \in S, NEW y \in S, NEW z \in S, Before(l, s, x, y), Before(l, s, y, z)
      PROVE  Before(l, s, x, z)
  <2>1. Reaches(F(x), F(y)) /\ Reaches(F(y), F(z))
    BY <1>3, <1>4, <1>6, AboveOrReached
  <2>2. /\ Reaches(F(x), F(z))
        /\ Above(F(x), F(y)) \/ Above(F(y), F(z)) => Above(F(x), F(z))
    BY <1>3, <2>1, ReachesThrough
  <2>3. x < y /\ y < z => x < z
    BY <1>1
  <2> QED  BY <1>4, <1>6, <2>2, <2>3
<1>7. ASSUME NEW x \in S, NEW y \in S, x # y
      PROVE  Before(l, s, x, y) \/ Before(l, s, y, x)
  <2>1. x < y \/ y < x
    BY <1>1, <1>7
  <2>2. ~Above(F(y), F(x)) <=> Reaches(F(x), F(y))
    BY <1>3, AboveOrReached
  <2>3. ~Above(F(x), F(y)) <=> Reaches(F(y), F(x))
    BY <1>3, AboveOrReached
  <2>4. /\ Before(l, s, x, y) <=> Above(F(x), F(y)) \/ (Reaches(F(x), F(y)) /\ x < y)
        /\ Before(l, s, y, x) <=> Above(F(y), F(x)) \/ (Reaches(F(y), F(x)) /\ y < x)
    BY <1>4
  <2> QED  BY <2>1, <2>2, <2>3, <2>4
<1>8. Orders(S, Earlier(l, s))
  BY <1>2, <1>5, <1>6, <1>7 DEF Orders
<1> QED  BY <1>8 DEF S

LEMMA FusionSorts ==
    ASSUME NEW n \in Nat, NEW m \in Nat, NEW l, NEW s, Ranking(l, n), Ranking(s, m)
    PROVE  /\ IsFiniteSet(Matched(l, s)) /\ Cardinality(Matched(l, s)) <= MaxFound
           /\ Sorts(Fusion(l, s), Matched(l, s), Earlier(l, s))
<1> DEFINE S == Matched(l, s)
           R == Earlier(l, s)
           ahead(x) == {y \in S : y # x /\ Before(l, s, y, x)}
<1>1. IsFiniteSet(S) /\ Cardinality(S) <= MaxFound
  <2>1. S \subseteq Found
    BY RankOf DEF Matched
  <2>2. IsFiniteSet(Found) /\ Cardinality(Found) = MaxFound
    <3>1. 1 \in Int /\ MaxFound \in Int
      BY RetrievalAssumption
    <3>2. /\ IsFiniteSet(1 .. MaxFound)
          /\ Cardinality(1 .. MaxFound) = IF 1 > MaxFound THEN 0 ELSE MaxFound - 1 + 1
      BY <3>1, FS_Interval
    <3> QED  BY <3>2, RetrievalAssumption DEF Found
  <2> QED  BY <2>1, <2>2, FS_Subset
<1>2. PICK k \in Nat : k = Cardinality(S)
  BY <1>1, FS_CardinalityType
<1>3. Fusion(l, s) = [i \in 1 .. Cardinality(S) |-> CHOOSE x \in S : Cardinality(ahead(x)) = i - 1]
  BY Zenon DEF Fusion, Matched
<1>4. Orders(S, R)
  BY FusionOrdered
<1>5. \A x \in S : ahead(x) = Preceding(S, R, x)
  <2>1. \A x, y \in S : <<y, x>> \in R <=> Before(l, s, y, x)
    BY DEF Earlier
  <2>2. \A x \in S : <<x, x>> \notin R
    BY <1>4 DEF Orders
  <2> HIDE DEF S, R
  <2> QED  BY <2>1, <2>2 DEF Preceding
<1> HIDE DEF S, R, ahead
<1>6. ASSUME NEW i \in 1 .. k
      PROVE  Fusion(l, s)[i] \in S /\ Count(S, R, Fusion(l, s)[i]) = i - 1
  <2>1. PICK x \in S : Count(S, R, x) = i - 1
    BY <1>1, <1>2, <1>4, Counted
  <2>2. Cardinality(ahead(x)) = i - 1
    BY <1>5, <2>1 DEF Count
  <2>3. Fusion(l, s)[i] = CHOOSE y \in S : Cardinality(ahead(y)) = i - 1
    BY <1>2, <1>3
  <2>4. Fusion(l, s)[i] \in S /\ Cardinality(ahead(Fusion(l, s)[i])) = i - 1
    BY <2>2, <2>3
  <2> QED  BY <1>5, <2>4 DEF Count
<1>7. Fusion(l, s) \in [1 .. k -> S]
  <2>1. Fusion(l, s) = [i \in 1 .. k |-> Fusion(l, s)[i]]
    BY <1>2, <1>3
  <2> QED  BY <1>6, <2>1
<1>8. Sorts(Fusion(l, s), S, R)
  BY <1>2, <1>6, <1>7 DEF Sorts
<1> QED  BY <1>1, <1>8 DEF S, R

\* What search_answer_evidence ranks of a channel: its active Memories, cut to the window.
\* A Memory it kept has every active one of a better rank above it.
LEMMA WindowedRanking ==
    ASSUME NEW n \in Nat, NEW c, Ranking(c, n), NEW active, NEW w \in Nat,
           NEW d, d = First(Kept(c, active), w)
    PROVE  \E k \in Nat :
               /\ Ranking(d, k)
               /\ MatchedBy(d) \subseteq MatchedBy(c) \cap active
               /\ \A y \in MatchedBy(d), x \in MatchedBy(c) \cap active :
                      Rank(c, x) < Rank(c, y) => x \in MatchedBy(d) /\ Rank(d, x) < Rank(d, y)
<1> DEFINE thinning(k, h) ==
               /\ Descends(h, k, n)
               /\ Kept(c, active) = [i \in 1 .. k |-> c[h[i]]]
               /\ \A i \in 1 .. k : c[h[i]] \in active
               /\ \A j \in 1 .. n : c[j] \in active => \E i \in 1 .. k : h[i] = j
<1>0. \E k \in Nat : \E h : thinning(k, h)
  BY KeptThins
<1> HIDE DEF thinning
<1>1. PICK k \in Nat : \E places : thinning(k, places)
  BY <1>0
<1>2. PICK h : thinning(k, h)
  BY <1>1
<1>3. /\ Descends(h, k, n)
      /\ Kept(c, active) = [i \in 1 .. k |-> c[h[i]]]
      /\ \A i \in 1 .. k : c[h[i]] \in active
      /\ \A j \in 1 .. n : c[j] \in active => \E i \in 1 .. k : h[i] = j
  BY <1>2 DEF thinning
<1>4. PICK e : e = [i \in 1 .. k |-> c[h[i]]]
  OBVIOUS
<1>5. Ranking(e, k) /\ \A i \in 1 .. k : Rank(c, e[i]) = h[i] /\ e[i] \in MatchedBy(c)
  BY <1>3, <1>4, ThinnedRanking, RankOf
<1>6. PICK p : p = Least(w, k)
  OBVIOUS
<1>7. p \in Nat /\ p <= k /\ d = [i \in 1 .. p |-> e[i]]
  <2>1. d = First(e, w)
    BY <1>3, <1>4
  <2>2. Ranking(e, k)
    BY <1>5
  <2>3. p \in Nat /\ p <= k /\ First(e, w) = [i \in 1 .. p |-> e[i]]
    BY <1>6, <2>2, FirstThins
  <2> QED  BY <2>1, <2>3
<1>8. PICK g : g = [i \in 1 .. p |-> h[i]]
  OBVIOUS
<1>9. Descends(g, p, n)
  <2>1. \A i \in 1 .. p : i \in 1 .. k /\ g[i] = h[i] /\ h[i] \in 1 .. n
    BY <1>3, <1>7, <1>8 DEF Descends
  <2>2. \A i, j \in 1 .. p : i < j <=> g[i] < g[j]
    BY <1>3, <2>1 DEF Descends
  <2> QED  BY <1>8, <2>1, <2>2 DEF Descends
<1>10. d = [i \in 1 .. p |-> c[g[i]]]
  <2>1. \A i \in 1 .. p : i \in 1 .. k /\ e[i] = c[g[i]]
    BY <1>4, <1>7, <1>8
  <2> QED  BY <1>7, <2>1
<1>11. /\ Ranking(d, p)
      /\ MatchedBy(d) \subseteq MatchedBy(c)
      /\ \A i \in 1 .. p : Rank(c, d[i]) = g[i]
      /\ \A x, y \in MatchedBy(d) : Rank(d, x) < Rank(d, y) <=> Rank(c, x) < Rank(c, y)
  <2>1. p \in Nat
    BY <1>7
  <2> QED  BY <1>9, <1>10, <2>1, ThinnedRanking, SMTT(20)
<1>12. \A y \in MatchedBy(d) : \E i \in 1 .. p : d[i] = y
  BY <1>7, <1>11, RankOf
<1>13. MatchedBy(d) \subseteq active
  <2>1. \A i \in 1 .. p : i \in 1 .. k
    BY <1>7
  <2>2. \A i \in 1 .. p : d[i] = c[h[i]]
    BY <1>8, <1>10
  <2>3. \A i \in 1 .. p : d[i] \in active
    BY <1>3, <2>1, <2>2
  <2> QED  BY <1>12, <2>3
<1>14. ASSUME NEW y \in MatchedBy(d), NEW x \in MatchedBy(c), x \in active, Rank(c, x) < Rank(c, y)
       PROVE  x \in MatchedBy(d) /\ Rank(d, x) < Rank(d, y)
  <2>1. PICK j \in 1 .. p : d[j] = y
    BY <1>12
  <2>2. PICK q \in 1 .. n : q = Rank(c, x) /\ c[q] = x
    BY RankOf
  <2>3. PICK i \in 1 .. k : h[i] = q
    BY <1>3, <1>14, <2>2
  <2>4. h[j] = Rank(c, y) /\ j \in 1 .. k
    BY <1>7, <1>8, <1>11, <2>1
  <2>5. i < j
    BY <1>3, <1>14, <2>2, <2>3, <2>4 DEF Descends
  <2>6. i \in 1 .. p
    BY <1>7, <2>5
  <2>7. d[i] = x
    BY <1>8, <1>10, <2>2, <2>3, <2>6
  <2>8. x \in MatchedBy(d)
    BY <1>7, <1>11, <2>6, <2>7, RankOf
  <2> QED  BY <1>11, <1>14, <2>8
<1> QED  BY <1>7, <1>11, <1>13, <1>14

\* Whatever Memories are active, and however many a channel matched: of two Memories of
\* one answer, the one that every channel that matched the other ranks better is ranked
\* better, also where the window cut a channel short.
LEMMA EvidenceFollows ==
    ASSUME NEW active, NEW n \in Nat, NEW m \in Nat, NEW l, NEW s, Ranking(l, n), Ranking(s, m),
           NEW limit \in Nat, NEW ranked, ranked = Evidence(l, s, active, limit),
           NEW i \in DOMAIN ranked, NEW j \in DOMAIN ranked,
           \A channel \in {l, s} : ranked[j] \in MatchedBy(channel) =>
               ranked[i] \in MatchedBy(channel) /\ Rank(channel, ranked[i]) < Rank(channel, ranked[j])
    PROVE  i < j
<1>1. PICK w : w = Window(limit, 0)
  OBVIOUS
<1>2. w \in Nat
  BY <1>1 DEF Window, Least, Greatest
<1>3. PICK dl : dl = First(Kept(l, active), w)
  OBVIOUS
<1>4. PICK ds : ds = First(Kept(s, active), w)
  OBVIOUS
<1>5. PICK a \in Nat :
         /\ Ranking(dl, a)
         /\ MatchedBy(dl) \subseteq MatchedBy(l) \cap active
         /\ \A y \in MatchedBy(dl), x \in MatchedBy(l) \cap active :
                Rank(l, x) < Rank(l, y) => x \in MatchedBy(dl) /\ Rank(dl, x) < Rank(dl, y)
  BY <1>2, <1>3, WindowedRanking
<1>6. PICK b \in Nat :
         /\ Ranking(ds, b)
         /\ MatchedBy(ds) \subseteq MatchedBy(s) \cap active
         /\ \A y \in MatchedBy(ds), x \in MatchedBy(s) \cap active :
                Rank(s, x) < Rank(s, y) => x \in MatchedBy(ds) /\ Rank(ds, x) < Rank(ds, y)
  BY <1>2, <1>4, WindowedRanking
<1> DEFINE S == Matched(dl, ds)
           R == Earlier(dl, ds)
<1>7. PICK N \in Nat : N = Cardinality(S)
  BY <1>5, <1>6, FusionSorts, FS_CardinalityType
<1>8. PICK f : f = Fusion(dl, ds)
  OBVIOUS
<1>9. /\ f \in [1 .. N -> S]
      /\ \A h, k \in 1 .. N : h < k <=> <<f[h], f[k]>> \in R
  <2>1. IsFiniteSet(S) /\ Orders(S, R) /\ Sorts(f, S, R)
    BY <1>5, <1>6, <1>8, FusionSorts, FusionOrdered
  <2> HIDE DEF S, R
  <2> QED  BY <1>7, <2>1, SortedOrder
<1>10. \A x, y \in S : <<x, y>> \in R <=> Before(dl, ds, x, y)
  BY DEF Earlier
<1> HIDE DEF S, R
<1>11. /\ i \in 1 .. N /\ j \in 1 .. N
       /\ ranked[i] = f[i] /\ ranked[j] = f[j]
  <2>1. f \in Seq(S) /\ Len(f) = N
    <3>1. f \in Seq(S)
      BY <1>9
    <3> QED  BY <1>9, <3>1, LenProperties
  <2>2. PICK k \in Nat : k = Least(limit, N) /\ k <= N
    BY DEF Least
  <2>3. ranked = SubSeq(f, 1, k)
    BY <1>1, <1>3, <1>4, <1>8, <2>1, <2>2 DEF Evidence, Page
  <2>4. \A h \in 1 .. k : f[h] \in S
    BY <1>9, <2>2
  <2>5. /\ SubSeq(f, 1, k) \in Seq(S)
        /\ Len(SubSeq(f, 1, k)) = IF 1 <= k THEN k - 1 + 1 ELSE 0
        /\ \A h \in 1 .. (k - 1 + 1) : SubSeq(f, 1, k)[h] = f[1 + h - 1]
    <3>1. 1 \in Int /\ k \in Int
      OBVIOUS
    <3> QED  BY <2>4, <3>1, SubSeqProperties
  <2>6. k - 1 + 1 = k /\ \A h \in 1 .. k : 1 + h - 1 = h
    OBVIOUS
  <2>7. Len(SubSeq(f, 1, k)) = k /\ \A h \in 1 .. k : SubSeq(f, 1, k)[h] = f[h]
    BY <2>5, <2>6
  <2>8. DOMAIN ranked = 1 .. k
    BY <2>3, <2>5, <2>7, LenProperties
  <2> QED  BY <2>2, <2>3, <2>7, <2>8
<1>12. PICK x \in S, y \in S : x = f[i] /\ y = f[j]
  BY <1>9, <1>11
<1>13. /\ x \in MatchedBy(dl) \cup MatchedBy(ds)
       /\ y \in MatchedBy(dl) \cup MatchedBy(ds)
       /\ x \in active
  BY <1>5, <1>6, <1>12 DEF S, Matched
<1>14. y \in MatchedBy(dl) => x \in MatchedBy(dl) /\ Rank(dl, x) < Rank(dl, y)
  BY <1>5, <1>11, <1>12, <1>13
<1>15. y \in MatchedBy(ds) => x \in MatchedBy(ds) /\ Rank(ds, x) < Rank(ds, y)
  BY <1>6, <1>11, <1>12, <1>13
<1>16. /\ Reaches(Contribution(dl, x), Contribution(dl, y))
       /\ y \in MatchedBy(dl) => Above(Contribution(dl, x), Contribution(dl, y))
  BY <1>5, <1>14, BetterContributes
<1>17. /\ Reaches(Contribution(ds, x), Contribution(ds, y))
       /\ y \in MatchedBy(ds) => Above(Contribution(ds, x), Contribution(ds, y))
  BY <1>6, <1>15, BetterContributes
<1>18. /\ Contribution(dl, x) \in Fractions /\ Contribution(dl, y) \in Fractions
       /\ Contribution(ds, x) \in Fractions /\ Contribution(ds, y) \in Fractions
  BY <1>5, <1>6, ContributionFraction
<1>19. Above(Fused(dl, ds, x), Fused(dl, ds, y))
  BY <1>13, <1>16, <1>17, <1>18, PlusAbove DEF Fused
<1>20. <<f[i], f[j]>> \in R
  BY <1>10, <1>12, <1>19 DEF Before
<1> QED  BY <1>9, <1>11, <1>20

\* Whatever Memories are active, two channels that agree on two Memories are followed
\* (search_memories_hybrid, search_answer_evidence), for any MaxFound.
THEOREM EvidenceRanked == \A active \in SUBSET Found : ChannelsFollowed(active)
<1> SUFFICES ASSUME NEW active \in SUBSET Found, NEW lexical \in Channels, NEW semantic \in Channels
             PROVE  LET ranked == Evidence(lexical, semantic, active, 2 * MaxFound)
                    IN  \A i, j \in DOMAIN ranked :
                            (\A channel \in {lexical, semantic} :
                                 ranked[j] \in MatchedBy(channel) =>
                                     /\ ranked[i] \in MatchedBy(channel)
                                     /\ Rank(channel, ranked[i]) < Rank(channel, ranked[j]))
                                => i < j
  BY DEF ChannelsFollowed
<1>1. PICK n \in Nat : Ranking(lexical, n)
  BY ChannelRanking
<1>2. PICK m \in Nat : Ranking(semantic, m)
  BY ChannelRanking
<1>3. PICK limit \in Nat : limit = 2 * MaxFound
  BY RetrievalAssumption
<1> DEFINE ranked == Evidence(lexical, semantic, active, limit)
<1>4. ASSUME NEW i \in DOMAIN ranked, NEW j \in DOMAIN ranked,
             \A channel \in {lexical, semantic} : ranked[j] \in MatchedBy(channel) =>
                 ranked[i] \in MatchedBy(channel) /\ Rank(channel, ranked[i]) < Rank(channel, ranked[j])
      PROVE  i < j
  BY <1>1, <1>2, <1>4, EvidenceFollows
<1> QED  BY <1>3, <1>4

\* A page of channels no longer than the smallest window is a stretch of one order.
LEMMA PageStretch ==
    ASSUME NEW n \in Nat, NEW m \in Nat, NEW l, NEW s, Ranking(l, n), Ranking(s, m),
           n <= 100, m <= 100, NEW limit \in Nat, NEW offset \in Nat,
           NEW f, f = Fusion(l, s), NEW N \in Nat, N = Cardinality(Matched(l, s)),
           NEW t \in Nat,
           t = IF offset + 1 <= Least(offset + limit, N) THEN Least(offset + limit, N) - offset ELSE 0
    PROVE  ExplainedPage(l, s, limit, offset)
               = [i \in 1 .. t |-> [rank |-> offset + i, memory |-> f[offset + i]]]
<1>1. PICK w \in Nat : w = Window(limit, offset) /\ w >= 100
  BY DEF Window, Least, Greatest
<1>2. ASSUME NEW c, NEW k \in Nat, k <= 100, Ranking(c, k) PROVE First(c, w) = c
  <2>1. PICK p : p = Least(w, k)
    OBVIOUS
  <2>2. p = k
    BY <1>1, <1>2, <2>1 DEF Least
  <2>3. First(c, w) = [i \in 1 .. p |-> c[i]]
    BY <1>1, <1>2, <2>1, FirstThins
  <2> QED  BY <1>2, <2>2, <2>3 DEF Ranking
<1>3. First(l, w) = l /\ First(s, w) = s
  BY <1>2
<1>4. f \in [1 .. N -> Matched(l, s)]
  BY FusionSorts DEF Sorts
<1>5. f \in Seq(Matched(l, s)) /\ Len(f) = N
  <2>1. f \in Seq(Matched(l, s))
    BY <1>4
  <2> QED  BY <1>4, <2>1, LenProperties
<1>6. PICK k \in Nat : k = Least(offset + limit, N) /\ k <= N
  BY DEF Least
<1>7. t = IF offset + 1 <= k THEN k - offset ELSE 0
  BY <1>6
<1>8. PICK page : page = Page(l, s, limit, offset)
  OBVIOUS
<1>9. page = SubSeq(f, offset + 1, k)
  BY <1>1, <1>3, <1>5, <1>6, <1>8 DEF Page
<1>10. /\ page \in Seq(Matched(l, s))
       /\ Len(page) = t
       /\ \A i \in 1 .. t : page[i] = f[offset + i]
  <2>0. \A i \in (offset + 1) .. k : i \in 1 .. N
    BY <1>6
  <2>1. \A i \in (offset + 1) .. k : f[i] \in Matched(l, s)
    BY <1>4, <2>0
  <2>2. offset + 1 \in Int /\ k \in Int
    BY <1>6
  <2>3. /\ page \in Seq(Matched(l, s))
        /\ Len(page) = IF offset + 1 <= k THEN k - (offset + 1) + 1 ELSE 0
        /\ \A i \in 1 .. (k - (offset + 1) + 1) : page[i] = f[(offset + 1) + i - 1]
    BY <1>9, <2>1, <2>2, SubSeqProperties
  <2>4. Len(page) = t
    BY <1>6, <1>7, <2>3
  <2>5. ASSUME NEW i \in 1 .. t PROVE page[i] = f[offset + i]
    <3>1. i \in 1 .. (k - (offset + 1) + 1) /\ (offset + 1) + i - 1 = offset + i
      BY <1>6, <1>7
    <3> QED  BY <2>3, <3>1
  <2> QED  BY <2>3, <2>4, <2>5
<1>11. DOMAIN page = 1 .. t
  BY <1>10, LenProperties
<1>12. ExplainedPage(l, s, limit, offset)
           = [i \in DOMAIN page |-> [rank |-> offset + i, memory |-> page[i]]]
  BY <1>8 DEF ExplainedPage
<1> QED  BY <1>10, <1>11, <1>12

\* Two stretches of an order, the second from where the first ends, are one.
LEMMA StretchesJoin ==
    ASSUME NEW N \in Nat, NEW e, NEW T, e \in [1 .. N -> T], NEW t \in 0 .. N,
           NEW offset \in Nat, t < N => offset = t,
           NEW u \in Nat, u = N - t
    PROVE  [i \in 1 .. t |-> e[i]] \o [i \in 1 .. u |-> e[offset + i]] = e
<1> DEFINE a == [i \in 1 .. t |-> e[i]]
           b == [i \in 1 .. u |-> e[offset + i]]
<1>1. a \in Seq(T) /\ Len(a) = t
  <2>1. a \in [1 .. t -> T] /\ t \in Nat
    OBVIOUS
  <2>2. a \in Seq(T)
    BY <2>1
  <2> QED  BY <2>1, <2>2, LenProperties
<1>2. b \in Seq(T) /\ Len(b) = u
  <2>1. \A i \in 1 .. u : offset + i \in 1 .. N
    OBVIOUS
  <2>2. b \in [1 .. u -> T]
    BY <2>1
  <2>3. b \in Seq(T)
    BY <2>2
  <2> QED  BY <2>2, <2>3, LenProperties
<1>3. e \in Seq(T) /\ Len(e) = N
  <2>1. e \in Seq(T)
    OBVIOUS
  <2> QED  BY <2>1, LenProperties
<1>4. \A i \in 1 .. t : a[i] = e[i]
  OBVIOUS
<1>5. \A i \in 1 .. u : b[i] = e[offset + i]
  OBVIOUS
<1> HIDE DEF a, b
<1>6. /\ a \o b \in Seq(T)
      /\ Len(a \o b) = t + u
      /\ \A i \in 1 .. (t + u) : (a \o b)[i] = IF i <= t THEN a[i] ELSE b[i - t]
  <2>0. a \in Seq(T) /\ b \in Seq(T)
    BY <1>1, <1>2
  <2>1. /\ a \o b \in Seq(T)
        /\ Len(a \o b) = Len(a) + Len(b)
        /\ \A i \in 1 .. (Len(a) + Len(b)) : (a \o b)[i] = IF i <= Len(a) THEN a[i] ELSE b[i - Len(a)]
    BY <2>0, ConcatProperties
  <2>2. Len(a) = t /\ Len(b) = u
    BY <1>1, <1>2
  <2>3. Len(a \o b) = t + u
    BY <2>1, <2>2
  <2>4. \A i \in 1 .. (t + u) : (a \o b)[i] = IF i <= t THEN a[i] ELSE b[i - t]
    BY <2>1, <2>2
  <2> QED  BY <2>1, <2>3, <2>4
<1>7. ASSUME NEW i \in 1 .. N PROVE (a \o b)[i] = e[i]
  <2>1. t + u = N
    OBVIOUS
  <2>2. CASE i <= t
    BY <1>4, <1>6, <2>1, <2>2
  <2>3. CASE i > t
    <3>1. i - t \in 1 .. u /\ offset + (i - t) = i
      BY <2>1, <2>3
    <3>2. ~(i <= t) /\ i \in 1 .. (t + u)
      BY <2>1, <2>3
    <3>3. (a \o b)[i] = b[i - t]
      BY <1>6, <3>2
    <3>4. b[i - t] = e[offset + (i - t)]
      BY <1>5, <3>1
    <3> QED  BY <3>1, <3>3, <3>4
  <2>4. i <= t \/ i > t
    OBVIOUS
  <2> QED  BY <2>2, <2>3, <2>4
<1>8. t + u = N
  OBVIOUS
<1>9. a \o b = e
  BY <1>3, <1>6, <1>7, <1>8, SeqEqual
<1> QED  BY <1>9 DEF a, b

\* As long as no channel holds more than 100 Memories, the smallest window, the pages of
\* a search join into one order.  A wider channel is cut by a window that depends on the
\* offset, and what its pages show need not join.
THEOREM PagesOneOrder == MaxFound <= 100 => PagesJoin
<1> SUFFICES ASSUME MaxFound <= 100, NEW lexical \in Channels, NEW semantic \in Channels,
                    NEW limit \in 1 .. MaxFound
             PROVE  ExplainedPage(lexical, semantic, limit, 0)
                        \o ExplainedPage(lexical, semantic, 2 * MaxFound, limit)
                            = ExplainedPage(lexical, semantic, 2 * MaxFound, 0)
  BY DEF PagesJoin
<1>1. PICK n \in Nat : n <= MaxFound /\ Ranking(lexical, n)
  BY ChannelRanking
<1>2. PICK m \in Nat : m <= MaxFound /\ Ranking(semantic, m)
  BY ChannelRanking
<1>3. n <= 100 /\ m <= 100 /\ limit \in Nat /\ limit >= 1 /\ MaxFound \in Nat /\ limit <= MaxFound
  BY <1>1, <1>2, RetrievalAssumption
<1>4. PICK all \in Nat : all = 2 * MaxFound
  BY RetrievalAssumption
<1>5. PICK N \in Nat : N = Cardinality(Matched(lexical, semantic)) /\ N <= MaxFound
  BY <1>1, <1>2, FusionSorts, FS_CardinalityType
<1>6. PICK f : f = Fusion(lexical, semantic)
  OBVIOUS
<1>7. /\ Ranking(lexical, n) /\ Ranking(semantic, m) /\ n <= 100 /\ m <= 100
      /\ limit \in Nat /\ all \in Nat /\ 0 \in Nat /\ N = Cardinality(Matched(lexical, semantic))
  BY <1>1, <1>2, <1>3, <1>4, <1>5
<1>8. PICK t \in 0 .. N : t = Least(limit, N) /\ (t < N => limit = t)
  BY <1>3 DEF Least
<1>9. PICK u \in Nat : u = N - t
  OBVIOUS
<1> DEFINE e == [i \in 1 .. N |-> [rank |-> i, memory |-> f[i]]]
<1>10. ExplainedPage(lexical, semantic, limit, 0) = [i \in 1 .. t |-> e[i]]
  <2>1. t = IF 0 + 1 <= Least(0 + limit, N) THEN Least(0 + limit, N) - 0 ELSE 0
    BY <1>3, <1>8 DEF Least
  <2>2. ExplainedPage(lexical, semantic, limit, 0)
            = [i \in 1 .. t |-> [rank |-> 0 + i, memory |-> f[0 + i]]]
    BY <1>6, <1>7, <2>1, PageStretch, SMTT(20)
  <2>3. \A i \in 1 .. t : i \in 1 .. N /\ 0 + i = i
    OBVIOUS
  <2> QED  BY <2>2, <2>3
<1>11. ExplainedPage(lexical, semantic, all, limit) = [i \in 1 .. u |-> e[limit + i]]
  <2>1. u = IF limit + 1 <= Least(limit + all, N) THEN Least(limit + all, N) - limit ELSE 0
    BY <1>3, <1>4, <1>5, <1>8, <1>9 DEF Least
  <2>2. ExplainedPage(lexical, semantic, all, limit)
            = [i \in 1 .. u |-> [rank |-> limit + i, memory |-> f[limit + i]]]
    BY <1>6, <1>7, <2>1, PageStretch, SMTT(20)
  <2>3. \A i \in 1 .. u : limit + i \in 1 .. N
    BY <1>3, <1>8, <1>9
  <2> QED  BY <2>2, <2>3
<1>12. ExplainedPage(lexical, semantic, all, 0) = e
  <2>1. N = IF 0 + 1 <= Least(0 + all, N) THEN Least(0 + all, N) - 0 ELSE 0
    BY <1>3, <1>4, <1>5 DEF Least
  <2>2. ExplainedPage(lexical, semantic, all, 0)
            = [i \in 1 .. N |-> [rank |-> 0 + i, memory |-> f[0 + i]]]
    BY <1>6, <1>7, <2>1, PageStretch, SMTT(20)
  <2>3. \A i \in 1 .. N : 0 + i = i
    OBVIOUS
  <2> QED  BY <2>2, <2>3
<1>13. PICK T : e \in [1 .. N -> T]
  <2>1. e \in [1 .. N -> {e[i] : i \in 1 .. N}]
    OBVIOUS
  <2> QED  BY <2>1
<1> HIDE DEF e
<1>14. [i \in 1 .. t |-> e[i]] \o [i \in 1 .. u |-> e[limit + i]] = e
  BY <1>3, <1>8, <1>9, <1>13, StretchesJoin
<1> QED  BY <1>4, <1>10, <1>11, <1>12, <1>14

\* What a search or an answer ranks agrees with both channels and pages into one order in
\* every state, whatever expirations and supersessions left active, for every table of at
\* most 100 Memories.
THEOREM SearchAgrees ==
    ASSUME MaxFound <= 100, Cardinality(Memories) <= MaxFound
    PROVE  Spec => []FusionAgrees
<1>1. \A n \in 0 .. MaxFound : FusionAgreesOn(n)
  BY PagesOneOrder, EvidenceRanked DEF FusionAgreesOn
<1>2. FusionAgrees
  <2> DEFINE active == {m \in Memories : Active(m)}
  <2>1. active \in SUBSET Memories /\ IsFiniteSet(Memories)
    BY MemoriesAssumption
  <2> HIDE DEF active
  <2>2. Cardinality(active) \in Nat /\ Cardinality(active) <= Cardinality(Memories)
    BY <2>1, FS_Subset, FS_CardinalityType
  <2>3. Cardinality(Memories) \in Nat /\ MaxFound \in Nat
    BY <2>1, FS_CardinalityType, RetrievalAssumption
  <2>4. Cardinality(active) \in 0 .. MaxFound
    BY <2>2, <2>3
  <2>5. Cardinality(active) \in Agreeing
    BY <1>1, <2>4 DEF Agreeing
  <2> QED  BY <2>5 DEF FusionAgrees, active
<1> QED  BY <1>2, PTL

=============================================================================
