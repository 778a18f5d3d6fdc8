------------------------------- MODULE Intake -------------------------------
(***************************************************************************)
(* From Sources to Memories: ingestion (app/api/routes/sources), the       *)
(* extraction of proposals (app/extraction/service), their review and      *)
(* promotion (app/repositories/memory_proposals and                        *)
(* memory_proposal_promotions) and explicit links of Memories to Sources,  *)
(* over the Captures of module Captures.                                   *)
(*                                                                         *)
(* An extraction commits its pending run, talks to the provider, and       *)
(* commits the outcome in a second transaction; whatever happens to the    *)
(* document in between happens.  A document has one chunk here and an      *)
(* extraction proposes at most one Memory: a run stands for its proposal.  *)
(***************************************************************************)
EXTENDS Captures

CONSTANTS
    Workers,  \* extraction requests in flight at once
    MaxRuns   \* bound: extraction identities ever started

ASSUME IntakeAssumption == MaxRuns \in Nat

VARIABLES
    run,     \* extraction runs and their proposals, by identity
    worker,  \* extraction requests
    links    \* scopes whose Memories are linked to a Source

intakeVars == <<capture, source, run, worker, links>>

\* What input_hash and document_id tell apart: the document, its chunks and the scope.
Identity == [source : Sources, text : Texts, scope : Scopes]

RunRows == [status : {"absent", "pending", "completed", "failed"},
            review : {"none", "pending", "approved", "rejected"},
            cites : 0 .. MaxRows, promoted : BOOLEAN]

NoRun == [status |-> "absent", review |-> "none", cites |-> 0, promoted |-> FALSE]

Idle == [at |-> "idle"]

WorkerRows == [at : {"idle"}] \cup [at : {"provider"}, id : Identity, rows : 1 .. MaxRows]

Init ==
    /\ CapturesInit
    /\ run = [id \in Identity |-> NoRun]
    /\ worker = [w \in Workers |-> Idle]
    /\ links = {}

-----------------------------------------------------------------------------
(* Ingestion.                                                              *)

CreateSource(s) ==
    /\ source[s].kind = "absent"
    /\ source' = [source EXCEPT ![s].kind = "plain"]
    /\ UNCHANGED <<capture, run, worker, links>>

\* Other chunks take the place of the rows, and the proposals lose their citation.
IngestText(s) ==
    /\ source[s].kind # "absent" /\ Binding(s) = {} /\ source[s].rows < MaxRows
    /\ \E text \in Texts \ {source[s].text} :
           source' = [source EXCEPT ![s].text = text, ![s].rows = @ + 1]
    /\ run' = [id \in Identity |->
           IF id.source = s THEN [run[id] EXCEPT !.cites = 0] ELSE run[id]]
    /\ UNCHANGED <<capture, worker, links>>

-----------------------------------------------------------------------------
(* Extraction.                                                             *)

\* Faulty variant: a completed run is generated again.
StartableAgain(id) == run[id].status # "pending"

\* Faulty variant: a pending run is no conflict.
StartableAlways(id) == run[id].status # "completed"

\* A completed run is answered unchanged, a pending one is a conflict.
Startable(id) == run[id].status \in {"absent", "failed"}

Begin(w, s, scope) ==
    /\ worker[w] = Idle /\ Accessible(s, scope) /\ source[s].text # None
    /\ LET id == [source |-> s, text |-> source[s].text, scope |-> scope]
       IN  /\ Startable(id)
           /\ run[id].status = "absent" =>
                  Cardinality({i \in Identity : run[i].status # "absent"}) < MaxRuns
           /\ run' = [run EXCEPT ![id].status = "pending"]
           /\ worker' = [worker EXCEPT ![w] =
                  [at |-> "provider", id |-> id, rows |-> source[s].rows]]
    /\ UNCHANGED <<capture, source, links>>

\* Faulty variant: the citation goes to the chunks the document has by now.
ChunksNow(w) == source[worker[w].id.source].rows

\* The rows read before the call, whose ids the proposals cite.
ChunksRead(w) == worker[w].rows

\* validate_result: no proposal, or one whose evidence is a passage of the chunk.
Proposed(w) == {[review |-> "none", cites |-> 0],
                [review |-> "pending", cites |-> ChunksRead(w)]}

\* A citation of rows that are gone breaks the foreign key.
Citable(w, proposal) ==
    proposal.cites \in {0, source[worker[w].id.source].rows}

\* The proposals of the run are deleted and the validated ones inserted.
Complete(w) ==
    /\ worker[w] # Idle /\ run[worker[w].id].status = "pending"
    /\ \E proposal \in {p \in Proposed(w) : Citable(w, p)} :
           run' = [run EXCEPT ![worker[w].id] =
               [status |-> "completed", review |-> proposal.review,
                cites |-> proposal.cites, promoted |-> FALSE]]
    /\ worker' = [worker EXCEPT ![w] = Idle]
    /\ UNCHANGED <<capture, source, links>>

\* The rolled back completion leaves the run pending, and nothing moves it any more.
CompleteRefused(w) ==
    /\ worker[w] # Idle /\ \E proposal \in Proposed(w) : ~Citable(w, proposal)
    /\ worker' = [worker EXCEPT ![w] = Idle]
    /\ UNCHANGED <<capture, source, run, links>>

\* _fail_run: the provider fails or answers what the validation rejects.
FailRun(w) ==
    /\ worker[w] # Idle
    /\ run' = [run EXCEPT ![worker[w].id].status = "failed"]
    /\ worker' = [worker EXCEPT ![w] = Idle]
    /\ UNCHANGED <<capture, source, links>>

\* The server stops, or the database fails where _fail_run swallows the error.
Abandon(w) ==
    /\ worker[w] # Idle
    /\ worker' = [worker EXCEPT ![w] = Idle]
    /\ UNCHANGED <<capture, source, run, links>>

-----------------------------------------------------------------------------
(* Review and promotion, each under a lock of the proposal's row.          *)

Review(id, decision) ==
    /\ run[id].status = "completed" /\ run[id].review = "pending"
    /\ Accessible(id.source, id.scope)
    /\ run' = [run EXCEPT ![id].review = decision]
    /\ UNCHANGED <<capture, source, worker, links>>

\* promote_proposal: an active Memory of the proposal's scope, and its link.
Promote(id) ==
    /\ run[id].status = "completed" /\ run[id].review = "approved" /\ ~run[id].promoted
    /\ Accessible(id.source, id.scope)
    /\ run' = [run EXCEPT ![id].promoted = TRUE]
    /\ links' = links \cup {<<id.scope, id.source>>}
    /\ UNCHANGED <<capture, source, worker>>

\* link_source_to_memory, for a Memory of that scope.
LinkMemory(scope, s) ==
    /\ Accessible(s, scope) /\ <<scope, s>> \notin links
    /\ links' = links \cup {<<scope, s>>}
    /\ UNCHANGED <<capture, source, run, worker>>

-----------------------------------------------------------------------------
ClientStep == \E c \in Captures : CaptureStep(c) /\ UNCHANGED <<run, worker, links>>

SourceStep(s) ==
    \/ CreateSource(s) \/ IngestText(s)
    \/ \E scope \in Scopes : LinkMemory(scope, s)

WorkerStep(w) ==
    \/ \E s \in Sources, scope \in Scopes : Begin(w, s, scope)
    \/ Complete(w) \/ CompleteRefused(w) \/ FailRun(w) \/ Abandon(w)

ReviewStep(id) ==
    \/ \E decision \in {"approved", "rejected"} : Review(id, decision)
    \/ Promote(id)

Next ==
    \/ ClientStep
    \/ \E s \in Sources : SourceStep(s)
    \/ \E w \in Workers : WorkerStep(w)
    \/ \E id \in Identity : ReviewStep(id)

Spec == Init /\ [][Next]_intakeVars

-----------------------------------------------------------------------------
(* Properties.                                                             *)

\* Rows and requests are well formed, a Capture has a Source exactly when it is
\* processed, and two extraction requests never work on the same run.
TypeOK ==
    /\ \A c \in Captures :
           /\ Revision(c) <= MaxRevision
           /\ \A i \in 1 .. Revision(c) :
                  /\ capture[c][i] \in Projections
                  /\ (capture[c][i].source # None) = (capture[c][i].state = "processed")
    /\ source \in [Sources -> SourceRows]
    /\ run \in [Identity -> RunRows]
    /\ worker \in [Workers -> WorkerRows]
    /\ \A v, w \in Workers :
           v # w /\ worker[v] # Idle /\ worker[w] # Idle => worker[v].id # worker[w].id
    /\ links \subseteq Scopes \X Sources

\* A client never overwrites what it has not seen: every revision of a Capture was
\* asked for by a request that named the revision right before it, although requests
\* that name older ones arrive at any time.
NoLostUpdate ==
    \A c \in Captures : \A i \in 2 .. Revision(c) : capture[c][i].seen = i - 1

\* Converting again after a lost answer is safe: whoever is answered with the Source
\* finds in it the text, in the scope, that it had in front of it when it asked.
ReplayExact ==
    \A c \in Captures : \A seen \in 1 .. Revision(c) :
        Answered(c, seen) =>
            /\ capture[c][seen].text = source[Latest(c).source].text
            /\ Accessible(Latest(c).source, capture[c][seen].scope)

\* What came in through a Capture stays in the Capture's scope whatever happens to
\* Captures, Sources and proposals meanwhile: its Source is its own, and every
\* extraction, promoted Memory and linked Memory of that Source has its scope.
CaptureSealed ==
    \A c \in Captures : Created(c) /\ Latest(c).state = "processed" =>
        /\ Binding(Latest(c).source) = {c}
        /\ \A id \in Identity :
               id.source = Latest(c).source /\ run[id].status # "absent" => id.scope = Latest(c).scope
        /\ \A link \in links : link[2] = Latest(c).source => link[1] = Latest(c).scope

\* The evidence a reviewer is shown is the passage the provider was given, however
\* the document was replaced during the call or since: a cited chunk still exists
\* and holds it.
EvidenceExact ==
    \A id \in Identity : run[id].cites # 0 =>
        run[id].cites = source[id.source].rows /\ source[id.source].text = id.text

\* A reviewer's decision is final: no other decision, retried extraction or replaced
\* document undoes it, and a promoted proposal is not promoted again.
DecisionsKept ==
    [][\A id \in Identity : run[id].review \in {"approved", "rejected"} =>
           /\ run'[id].review = run[id].review
           /\ run[id].promoted => run'[id].promoted]_intakeVars
=============================================================================
