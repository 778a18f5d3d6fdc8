------------------------------ MODULE Captures ------------------------------
(***************************************************************************)
(* The Capture Inbox (app/captures/service, app/api/routes/captures) and   *)
(* the Sources it turns Captures into (app/repositories/sources,           *)
(* app/sources/scope).                                                     *)
(*                                                                         *)
(* A Capture is kept with everything a client was ever shown of it: the    *)
(* sequence of its projections, one per revision.  A request names the     *)
(* revision and the scope of a projection its client saw, however long     *)
(* ago, so a delayed, repeated or competing request is one that names an   *)
(* early element of the sequence.  A row lock makes each request one step. *)
(***************************************************************************)
EXTENDS Integers, FiniteSets, Sequences

CONSTANTS
    Captures,     \* idempotency keys, one Capture each
    Scopes,       \* Projects, and "unassigned"
    Texts,        \* normalized contents
    Sources,      \* rows of sources that may be created
    None,         \* no text, no source
    MaxRevision,  \* bound: revisions of a Capture
    MaxRows       \* bound: times the chunks of a Source are replaced

ASSUME CapturesAssumption ==
    /\ MaxRevision \in Nat \ {0} /\ MaxRows \in Nat \ {0}
    /\ None \notin Texts \cup Sources \cup Captures

VARIABLES
    capture,  \* what each Capture looked like at each of its revisions
    source    \* sources, with their one document and its chunks

States == {"pending", "discarded", "processed"}

\* "seen" is no column: the revision named by the request that made this one.
Projections == [state : States, scope : Scopes, text : Texts,
                source : Sources \cup {None}, seen : 0 .. MaxRevision]

\* "rows" counts the sets of chunk rows the document has had; every set has ids of its own.
SourceRows == [kind : {"absent", "plain", "capture"}, text : Texts \cup {None},
               rows : 0 .. MaxRows]

NoSource == [kind |-> "absent", text |-> None, rows |-> 0]

CapturesInit ==
    /\ capture = [c \in Captures |-> <<>>]
    /\ source = [s \in Sources |-> NoSource]

Created(c) == capture[c] # <<>>
Revision(c) == Len(capture[c])
Latest(c) == capture[c][Revision(c)]

Binding(s) == {c \in Captures : Created(c) /\ Latest(c).source = s}

\* source_access_clause: unbound Sources, and the processed Capture's in its exact scope.
Accessible(s, scope) ==
    /\ source[s].kind # "absent"
    /\ \/ Binding(s) = {}
       \/ \E c \in Binding(s) : Latest(c).state = "processed" /\ Latest(c).scope = scope

-----------------------------------------------------------------------------
(* Requests of clients.                                                    *)

\* create_capture; the same key again changes nothing, it answers with the Capture as it
\* stands, or with a conflict when the first content or scope was another.
CreateCapture(c) ==
    /\ ~Created(c)
    /\ \E scope \in Scopes, text \in Texts :
           capture' = [capture EXCEPT ![c] =
               <<[state |-> "pending", scope |-> scope, text |-> text,
                  source |-> None, seen |-> 0]>>]
    /\ UNCHANGED source

\* Faulty variant: no revision is compared.
UpToDateAnyway(c, seen) == capture[c][seen].scope = Latest(c).scope

\* get_scoped_capture and the comparison of revisions, under the row lock.
UpToDate(c, seen) == capture[c][seen].scope = Latest(c).scope /\ seen = Revision(c)

\* _finish_mutation.
Finish(c, seen, projection) ==
    /\ Revision(c) < MaxRevision
    /\ capture' = [capture EXCEPT ![c] = Append(@, [projection EXCEPT !.seen = seen])]

EditCapture(c, seen) ==
    /\ UpToDate(c, seen) /\ Latest(c).state = "pending"
    /\ \E text \in Texts : Finish(c, seen, [Latest(c) EXCEPT !.text = text])
    /\ UNCHANGED source

\* Faulty variant: a processed Capture moves too.
ReassignAny(c, seen) ==
    /\ UpToDate(c, seen) /\ Latest(c).state # "discarded"
    /\ \E scope \in Scopes : Finish(c, seen, [Latest(c) EXCEPT !.scope = scope])
    /\ UNCHANGED source

ReassignCapture(c, seen) ==
    /\ UpToDate(c, seen) /\ Latest(c).state = "pending"
    /\ \E scope \in Scopes : Finish(c, seen, [Latest(c) EXCEPT !.scope = scope])
    /\ UNCHANGED source

\* transition_capture, for discard and restore.
Transition(c, seen, expected, target) ==
    /\ UpToDate(c, seen) /\ Latest(c).state = expected
    /\ Finish(c, seen, [Latest(c) EXCEPT !.state = target])
    /\ UNCHANGED source

\* convert_capture: the Source, its document, its chunks and the Capture in one commit.
ConvertCapture(c, seen, s) ==
    /\ UpToDate(c, seen) /\ Latest(c).state = "pending" /\ source[s].kind = "absent"
    /\ Finish(c, seen, [Latest(c) EXCEPT !.state = "processed", !.source = s])
    /\ source' = [source EXCEPT ![s] =
           [kind |-> "capture", text |-> Latest(c).text, rows |-> 1]]

\* Faulty variant: any revision of a processed Capture is a replay.
AnsweredAnyway(c, seen) ==
    Latest(c).state = "processed" /\ capture[c][seen].scope = Latest(c).scope

\* A conversion is answered again for the revision it was asked at and the one it made.
Answered(c, seen) ==
    /\ Latest(c).state = "processed" /\ capture[c][seen].scope = Latest(c).scope
    /\ seen \in {Revision(c) - 1, Revision(c)}

-----------------------------------------------------------------------------
CaptureStep(c) ==
    \/ CreateCapture(c)
    \/ \E seen \in 1 .. Revision(c) :
           \/ EditCapture(c, seen) \/ ReassignCapture(c, seen)
           \/ Transition(c, seen, "pending", "discarded")
           \/ Transition(c, seen, "discarded", "pending")
           \/ \E s \in Sources : ConvertCapture(c, seen, s)
=============================================================================
