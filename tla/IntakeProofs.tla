---------------------------- MODULE IntakeProofs ----------------------------
(***************************************************************************)
(* What comes in through Captures and extraction, for any number of        *)
(* Captures, Sources, scopes and requests.  A step of a Capture appends    *)
(* one projection made from its latest one; the steps of extraction and    *)
(* review touch runs only.                                                 *)
(***************************************************************************)
EXTENDS Intake, TLAPS

-----------------------------------------------------------------------------
(* The inductive invariant.                                                *)

\* Histories are well formed, and every projection with a Source is the last one.
CapturesWhole ==
    /\ capture \in [Captures -> Seq(Projections)]
    /\ \A c \in Captures : Revision(c) <= MaxRevision
    /\ \A c \in Captures : \A i \in 1 .. Revision(c) :
           (capture[c][i].source # None) = (capture[c][i].state = "processed")

\* A row not created yet has no text and no chunks, and a text has chunks.
SourcesWhole ==
    /\ source \in [Sources -> SourceRows]
    /\ \A s \in Sources : source[s].kind = "absent" => source[s] = NoSource
    /\ \A s \in Sources : source[s].text # None => source[s].rows >= 1

\* A request at the provider holds its run pending, alone, and the chunks it read are
\* the document's still exactly when its text is.
WorkersHold ==
    /\ worker \in [Workers -> WorkerRows]
    /\ \A v, w \in Workers :
           v # w /\ worker[v] # Idle /\ worker[w] # Idle => worker[v].id # worker[w].id
    /\ \A w \in Workers : worker[w] # Idle =>
           /\ run[worker[w].id].status = "pending"
           /\ worker[w].rows <= source[worker[w].id.source].rows
           /\ worker[w].rows = source[worker[w].id.source].rows =>
                  source[worker[w].id.source].text = worker[w].id.text

\* Only a completed run has a proposal, and only Sources that exist have runs and links.
RunsWhole ==
    /\ run \in [Identity -> RunRows]
    /\ \A id \in Identity : run[id].status # "completed" =>
           run[id].review = "none" /\ run[id].cites = 0 /\ ~run[id].promoted
    /\ \A id \in Identity : run[id].status # "absent" => source[id.source].kind # "absent"
    /\ links \subseteq Scopes \X Sources
    /\ \A link \in links : source[link[2]].kind # "absent"

Processed(c) == Created(c) /\ Latest(c).state = "processed"

\* A processed Capture was converted from the projection before its last one, into a
\* Source that holds its text and belongs to it alone.
Converted ==
    \A c \in Captures : Processed(c) =>
        /\ source[Latest(c).source].kind = "capture"
        /\ source[Latest(c).source].text = Latest(c).text
        /\ Revision(c) > 1 => capture[c][Revision(c) - 1].text = Latest(c).text
        /\ \A d \in Captures : Created(d) /\ Latest(d).source = Latest(c).source => d = c

\* Everything drawn from a processed Capture's Source has the Capture's scope.
Sealed ==
    \A c \in Captures : Processed(c) =>
        /\ \A id \in Identity :
               id.source = Latest(c).source /\ run[id].status # "absent" => id.scope = Latest(c).scope
        /\ \A link \in links : link[2] = Latest(c).source => link[1] = Latest(c).scope

Shapes == CapturesWhole /\ SourcesWhole
IntakeInv ==
    /\ Shapes /\ WorkersHold /\ RunsWhole /\ Converted /\ Sealed
    /\ NoLostUpdate /\ EvidenceExact

-----------------------------------------------------------------------------
(* Captures.                                                               *)

\* The latest projection of a Capture that exists.
LEMMA LatestRow ==
    ASSUME CapturesWhole, NEW c \in Captures, Created(c)
    PROVE  /\ Revision(c) \in Nat /\ Revision(c) >= 1 /\ Revision(c) <= MaxRevision
           /\ \A i \in 1 .. Revision(c) : capture[c][i] \in Projections
           /\ Latest(c) \in Projections
           /\ (Latest(c).source # None) = (Latest(c).state = "processed")
  <1>1. capture[c] \in Seq(Projections) /\ capture[c] # <<>>
    BY DEF CapturesWhole, Created
  <1>2. Revision(c) \in Nat /\ Revision(c) >= 1
    BY <1>1 DEF Revision
  <1>3. \A i \in 1 .. Revision(c) : capture[c][i] \in Projections
    BY <1>1 DEF Revision
  <1> QED BY <1>2, <1>3 DEF CapturesWhole, Latest

\* The next projection of c is n.
Grows(c, n) ==
    /\ Created(c) /\ Revision(c) < MaxRevision
    /\ capture' = [capture EXCEPT ![c] = Append(@, n)]

LEMMA Grown ==
    ASSUME CapturesWhole, NEW c \in Captures, NEW n \in Projections, Grows(c, n)
    PROVE  /\ capture' \in [Captures -> Seq(Projections)]
           /\ \A d \in Captures : d # c => capture'[d] = capture[d]
           /\ Len(capture'[c]) = Revision(c) + 1 /\ Len(capture'[c]) <= MaxRevision
           /\ \A i \in 1 .. Revision(c) : capture'[c][i] = capture[c][i]
           /\ capture'[c][Revision(c) + 1] = n
           /\ Created(c)' /\ Latest(c)' = n
  <1>1. capture[c] \in Seq(Projections) /\ MaxRevision \in Nat
    BY CapturesAssumption DEF CapturesWhole
  <1>2. capture'[c] = Append(capture[c], n) /\ capture' \in [Captures -> Seq(Projections)]
    BY <1>1 DEF Grows, CapturesWhole
  <1>3. /\ Len(capture'[c]) = Revision(c) + 1 /\ Len(capture'[c]) <= MaxRevision
        /\ \A i \in 1 .. Revision(c) : capture'[c][i] = capture[c][i]
        /\ capture'[c][Revision(c) + 1] = n
        /\ capture'[c] # <<>>
    BY <1>1, <1>2 DEF Grows, Revision
  <1> QED BY <1>2, <1>3 DEF Grows, CapturesWhole, Created, Latest, Revision

\* What a client's request does: it creates the Capture, changes one that waits, or
\* converts it into a Source created with it.
Opens(c) ==
    /\ ~Created(c) /\ source' = source
    /\ \E n \in Projections :
           /\ n.source = None /\ n.state = "pending"
           /\ capture' = [capture EXCEPT ![c] = <<n>>]

Changes(c) ==
    /\ source' = source
    /\ \E n \in Projections :
           /\ Grows(c, n) /\ n.seen = Revision(c)
           /\ n.source = None /\ n.state # "processed" /\ Latest(c).state # "processed"

Converts(c) ==
    \E n \in Projections :
        /\ Grows(c, n) /\ n.seen = Revision(c)
        /\ n.state = "processed" /\ n.source \in Sources /\ Latest(c).state = "pending"
        /\ n.text = Latest(c).text
        /\ source[n.source].kind = "absent"
        /\ source' = [source EXCEPT ![n.source] =
               [kind |-> "capture", text |-> n.text, rows |-> 1]]

LEMMA RequestEffect ==
    ASSUME Shapes, NEW c \in Captures, CaptureStep(c)
    PROVE  Opens(c) \/ Changes(c) \/ Converts(c)
  <1>1. CASE CreateCapture(c)
    <2> PICK scope \in Scopes, text \in Texts :
               capture' = [capture EXCEPT ![c] =
                   <<[state |-> "pending", scope |-> scope, text |-> text,
                      source |-> None, seen |-> 0]>>]
      BY <1>1 DEF CreateCapture
    <2> DEFINE n == [state |-> "pending", scope |-> scope, text |-> text,
                     source |-> None, seen |-> 0]
    <2>1. n \in Projections
      BY CapturesAssumption DEF Projections, States
    <2> QED BY <1>1, <2>1 DEF CreateCapture, Opens
  <1>2. ASSUME NEW seen \in 1 .. Revision(c),
               \/ EditCapture(c, seen) \/ ReassignCapture(c, seen)
               \/ Transition(c, seen, "pending", "discarded")
               \/ Transition(c, seen, "discarded", "pending")
               \/ \E s \in Sources : ConvertCapture(c, seen, s)
        PROVE  Changes(c) \/ Converts(c)
    <2>1. Created(c)
      <3> SUFFICES ASSUME capture[c] = <<>> PROVE FALSE
        BY DEF Created
      <3>1. Len(capture[c]) = 0
        OBVIOUS
      <3> QED BY <1>2, <3>1 DEF Revision
    <2>2. /\ seen = Revision(c) /\ Revision(c) \in 0 .. MaxRevision
          /\ Latest(c) \in Projections
          /\ (Latest(c).source # None) = (Latest(c).state = "processed")
      <3>1. seen = Revision(c)
        BY <1>2 DEF EditCapture, ReassignCapture, Transition, ConvertCapture, UpToDate
      <3>2. /\ Revision(c) \in Nat /\ Revision(c) <= MaxRevision /\ Latest(c) \in Projections
            /\ (Latest(c).source # None) = (Latest(c).state = "processed")
        BY <2>1, LatestRow DEF Shapes
      <3> QED BY <3>1, <3>2, CapturesAssumption
    <2>3. \A row : Finish(c, seen, row) => Grows(c, [row EXCEPT !.seen = seen])
      BY <2>1 DEF Finish, Grows
    <2>4. CASE \E text \in Texts : Finish(c, seen, [Latest(c) EXCEPT !.text = text])
                                   /\ Latest(c).state = "pending" /\ source' = source
      <3> PICK text \in Texts : Finish(c, seen, [Latest(c) EXCEPT !.text = text])
        BY <2>4
      <3> DEFINE n == [[Latest(c) EXCEPT !.text = text] EXCEPT !.seen = seen]
      <3>1. /\ n \in Projections /\ n.seen = Revision(c) /\ n.source = Latest(c).source
            /\ n.state = Latest(c).state
        BY <2>2 DEF Projections
      <3>2. Grows(c, n)
        BY <2>3
      <3> QED BY <2>2, <2>4, <3>1, <3>2 DEF Changes
    <2>5. CASE \E scope \in Scopes : Finish(c, seen, [Latest(c) EXCEPT !.scope = scope])
                                     /\ Latest(c).state = "pending" /\ source' = source
      <3> PICK scope \in Scopes : Finish(c, seen, [Latest(c) EXCEPT !.scope = scope])
        BY <2>5
      <3> DEFINE n == [[Latest(c) EXCEPT !.scope = scope] EXCEPT !.seen = seen]
      <3>1. /\ n \in Projections /\ n.seen = Revision(c) /\ n.source = Latest(c).source
            /\ n.state = Latest(c).state
        BY <2>2 DEF Projections
      <3>2. Grows(c, n)
        BY <2>3
      <3> QED BY <2>2, <2>5, <3>1, <3>2 DEF Changes
    <2>6. CASE \E state \in {"pending", "discarded"} :
                  /\ Finish(c, seen, [Latest(c) EXCEPT !.state = state])
                  /\ Latest(c).state # "processed" /\ source' = source
      <3> PICK state \in {"pending", "discarded"} :
                 Finish(c, seen, [Latest(c) EXCEPT !.state = state])
        BY <2>6
      <3> DEFINE n == [[Latest(c) EXCEPT !.state = state] EXCEPT !.seen = seen]
      <3>1. /\ n \in Projections /\ n.seen = Revision(c) /\ n.source = Latest(c).source
            /\ n.state = state
        BY <2>2 DEF Projections, States
      <3>2. Grows(c, n)
        BY <2>3
      <3> QED BY <2>2, <2>6, <3>1, <3>2 DEF Changes
    <2>7. ASSUME NEW s \in Sources, ConvertCapture(c, seen, s)
          PROVE  Converts(c)
      <3> DEFINE n == [[Latest(c) EXCEPT !.state = "processed", !.source = s]
                          EXCEPT !.seen = seen]
      <3>1. /\ n \in Projections /\ n.seen = Revision(c) /\ n.source = s
            /\ n.state = "processed" /\ n.text = Latest(c).text
        BY <2>2 DEF Projections, States
      <3>2. Grows(c, n)
        BY <2>3, <2>7 DEF ConvertCapture
      <3> HIDE DEF n
      <3> QED BY <2>2, <2>7, <3>1, <3>2 DEF Converts, ConvertCapture
    <2> QED BY <1>2, <2>4, <2>5, <2>6, <2>7 DEF EditCapture, ReassignCapture, Transition
  <1> QED BY <1>1, <1>2 DEF CaptureStep

\* The history of c gets n as its next projection, and the Source follows n.
Follows(c, n) ==
    /\ n \in Projections /\ ~Processed(c)
    /\ capture' \in [Captures -> Seq(Projections)]
    /\ \A d \in Captures : d # c => capture'[d] = capture[d]
    /\ Revision(c) \in Nat
    /\ Len(capture'[c]) = Revision(c) + 1 /\ Len(capture'[c]) <= MaxRevision
    /\ \A i \in 1 .. Revision(c) : capture'[c][i] = capture[c][i]
    /\ capture'[c][Revision(c) + 1] = n
    /\ Created(c)' /\ Latest(c)' = n
    /\ Revision(c) >= 1 => n.seen = Revision(c)
    /\ \/ n.source = None /\ n.state # "processed" /\ source' = source
       \/ /\ n.state = "processed" /\ n.source \in Sources
          /\ Revision(c) >= 1 => n.text = capture[c][Revision(c)].text
          /\ source[n.source].kind = "absent"
          /\ source' = [source EXCEPT ![n.source] =
                 [kind |-> "capture", text |-> n.text, rows |-> 1]]

LEMMA CaptureFollows ==
    ASSUME Shapes, NEW c \in Captures, CaptureStep(c)
    PROVE  \E n : Follows(c, n)
  <1>0. capture[c] \in Seq(Projections) /\ Revision(c) \in Nat
    BY DEF Shapes, CapturesWhole, Revision
  <1>1. CASE Opens(c)
    <2> PICK n \in Projections : /\ n.source = None /\ n.state = "pending"
                                 /\ capture' = [capture EXCEPT ![c] = <<n>>]
      BY <1>1 DEF Opens
    <2>1. capture[c] = <<>> /\ source' = source
      BY <1>1 DEF Opens, Created
    <2>2. /\ capture' \in [Captures -> Seq(Projections)] /\ capture'[c] = <<n>>
          /\ \A d \in Captures : d # c => capture'[d] = capture[d]
      BY DEF Shapes, CapturesWhole
    <2>3. Len(<<n>>) = 1 /\ <<n>>[1] = n /\ <<n>> # <<>> /\ Revision(c) = 0
      BY <2>1 DEF Revision
    <2>4. ~Processed(c) /\ Created(c)' /\ Latest(c)' = n
      BY <2>1, <2>2, <2>3 DEF Processed, Created, Latest, Revision
    <2>5. 1 <= MaxRevision
      BY CapturesAssumption
    <2> QED BY <2>1, <2>2, <2>3, <2>4, <2>5 DEF Follows
  <1>2. CASE Changes(c)
    <2> PICK n \in Projections :
               /\ Grows(c, n) /\ n.seen = Revision(c)
               /\ n.source = None /\ n.state # "processed" /\ Latest(c).state # "processed"
      BY <1>2 DEF Changes
    <2>1. source' = source /\ ~Processed(c)
      BY <1>2 DEF Changes, Processed
    <2> QED BY <1>0, <2>1, Grown DEF Follows, Shapes
  <1>3. CASE Converts(c)
    <2> PICK n \in Projections :
               /\ Grows(c, n) /\ n.seen = Revision(c)
               /\ n.state = "processed" /\ n.source \in Sources /\ Latest(c).state = "pending"
               /\ n.text = Latest(c).text
               /\ source[n.source].kind = "absent"
               /\ source' = [source EXCEPT ![n.source] =
                      [kind |-> "capture", text |-> n.text, rows |-> 1]]
      BY <1>3 DEF Converts
    <2>1. ~Processed(c) /\ n.text = capture[c][Revision(c)].text
      BY DEF Processed, Latest
    <2> QED BY <1>0, <2>1, Grown DEF Follows, Shapes
  <1> QED BY <1>1, <1>2, <1>3, RequestEffect

\* What is asked of the other Captures, unchanged.
LEMMA Untouched ==
    ASSUME NEW c \in Captures, NEW n, Follows(c, n), NEW d \in Captures, d # c
    PROVE  /\ Revision(d)' = Revision(d) /\ Created(d)' = Created(d)
           /\ Latest(d)' = Latest(d) /\ Processed(d)' = Processed(d)
  BY DEF Follows, Revision, Created, Latest, Processed

LEMMA ShapesFollow ==
    ASSUME Shapes, NEW c \in Captures, NEW n, Follows(c, n)
    PROVE  Shapes' /\ \A s \in Sources : source[s].kind # "absent" => source'[s] = source[s]
  <1>1. ASSUME NEW d \in Captures
        PROVE  /\ Revision(d)' <= MaxRevision
               /\ \A i \in 1 .. Revision(d)' :
                      (capture'[d][i].source # None) = (capture'[d][i].state = "processed")
    <2>1. CASE d # c
      BY <2>1 DEF Follows, Shapes, CapturesWhole, Revision
    <2>2. CASE d = c
      <3>1. /\ Revision(c)' = Revision(c) + 1 /\ Revision(c)' <= MaxRevision
            /\ Revision(c) \in Nat
        BY DEF Follows, Revision
      <3>2. \A i \in 1 .. Revision(c) :
               (capture'[c][i].source # None) = (capture'[c][i].state = "processed")
        BY DEF Follows, Shapes, CapturesWhole
      <3>3. (n.source # None) = (n.state = "processed")
        BY CapturesAssumption DEF Follows
      <3>4. \A i \in 1 .. Revision(c)' : i \in 1 .. Revision(c) \/ i = Revision(c) + 1
        BY <3>1
      <3> QED BY <2>2, <3>1, <3>2, <3>3, <3>4 DEF Follows
    <2> QED BY <2>1, <2>2
  <1>2. CapturesWhole'
    BY <1>1 DEF CapturesWhole, Follows, Revision
  <1>3. SourcesWhole' /\ \A s \in Sources : source[s].kind # "absent" => source'[s] = source[s]
    <2>1. CASE source' = source
      BY <2>1 DEF Shapes, SourcesWhole
    <2>2. ASSUME n.source \in Sources, source[n.source].kind = "absent",
                 source' = [source EXCEPT ![n.source] =
                    [kind |-> "capture", text |-> n.text, rows |-> 1]]
          PROVE  SourcesWhole' /\ \A s \in Sources : source[s].kind # "absent"
                                                      => source'[s] = source[s]
      <3>1. [kind |-> "capture", text |-> n.text, rows |-> 1] \in SourceRows
        BY CapturesAssumption DEF Follows, Projections, SourceRows
      <3> QED BY <2>2, <3>1 DEF Shapes, SourcesWhole
    <2> QED BY <2>1, <2>2 DEF Follows
  <1> QED BY <1>2, <1>3 DEF Shapes

\* A processed Capture's Source exists; a Capture with a Source is processed.
LEMMA BoundSource ==
    ASSUME Shapes, NEW c \in Captures, Created(c)
    PROVE  /\ Processed(c) <=> Latest(c).source # None
           /\ Processed(c) <=> Latest(c).source \in Sources
  BY LatestRow, CapturesAssumption DEF Shapes, Processed, Projections

LEMMA ClientConverted ==
    ASSUME IntakeInv, NEW c \in Captures, NEW n, Follows(c, n)
    PROVE  Converted'
  <1> DEFINE Good(d) ==
        /\ source[Latest(d).source].kind = "capture"
        /\ source[Latest(d).source].text = Latest(d).text
        /\ Revision(d) > 1 => capture[d][Revision(d) - 1].text = Latest(d).text
        /\ \A e \in Captures : Created(e) /\ Latest(e).source = Latest(d).source => e = d
  <1>0. Shapes /\ Converted /\ \A s \in Sources : source[s].kind # "absent" => source'[s] = source[s]
    BY ShapesFollow DEF IntakeInv
  <1>1. ASSUME NEW d \in Captures, d # c, Processed(d)' PROVE Good(d)'
    <2>1. Processed(d) /\ Created(d)
      BY <1>1, Untouched DEF Processed
    <2>2. /\ Latest(d).source \in Sources /\ Latest(d).source # None
          /\ source[Latest(d).source].kind = "capture"
      BY <1>0, <2>1, BoundSource DEF Converted
    <2>3. /\ source'[Latest(d).source] = source[Latest(d).source]
          /\ Latest(d)' = Latest(d) /\ Revision(d)' = Revision(d) /\ capture'[d] = capture[d]
      BY <1>0, <1>1, <2>2, Untouched DEF Follows
    <2>4. ASSUME NEW e \in Captures, Created(e)', Latest(e)'.source = Latest(d).source
          PROVE  e = d
      <3>1. CASE e = c
        <4>1. Latest(e)' = n
          BY <3>1 DEF Follows
        <4> QED BY <2>2, <2>4, <4>1 DEF Follows
      <3>2. CASE e # c
        <4>1. Created(e) /\ Latest(e)' = Latest(e)
          BY <2>4, <3>2, Untouched
        <4> QED BY <1>0, <2>1, <2>4, <4>1 DEF Converted
      <3> QED BY <3>1, <3>2
    <2> QED BY <1>0, <2>1, <2>2, <2>3, <2>4 DEF Converted
  <1>2. ASSUME Processed(c)' PROVE Good(c)'
    <2>1. /\ Latest(c)' = n /\ Revision(c)' = Revision(c) + 1 /\ Revision(c) \in Nat
      BY DEF Follows, Revision
    <2>2. /\ n.state = "processed" /\ n.source \in Sources
          /\ Revision(c) >= 1 => n.text = capture[c][Revision(c)].text
          /\ source[n.source].kind = "absent"
          /\ source' = [source EXCEPT ![n.source] =
                 [kind |-> "capture", text |-> n.text, rows |-> 1]]
      BY <1>2, <2>1 DEF Follows, Processed
    <2>3. source'[n.source].kind = "capture" /\ source'[n.source].text = n.text
      BY <1>0, <2>2 DEF Shapes, SourcesWhole
    <2>4. Revision(c)' > 1 => capture'[c][Revision(c)' - 1].text = n.text
      BY <2>1, <2>2 DEF Follows
    <2>5. ASSUME NEW e \in Captures, Created(e)', Latest(e)'.source = n.source, e # c
          PROVE  FALSE
      <3>1. Created(e) /\ Latest(e).source = n.source
        BY <2>5, Untouched
      <3>2. Processed(e)
        BY <1>0, <2>2, <3>1, BoundSource
      <3> QED BY <1>0, <2>2, <3>1, <3>2 DEF Converted
    <2> QED BY <2>1, <2>3, <2>4, <2>5
  <1> QED BY <1>1, <1>2 DEF Converted

LEMMA ClientKeeps ==
    ASSUME IntakeInv, NEW c \in Captures, CaptureStep(c), UNCHANGED <<run, worker, links>>
    PROVE  IntakeInv'
  <1> PICK n : Follows(c, n)
    BY CaptureFollows DEF IntakeInv
  <1>1. Shapes' /\ \A s \in Sources : source[s].kind # "absent" => source'[s] = source[s]
    BY ShapesFollow DEF IntakeInv
  <1>2. \A id \in Identity : run[id].status # "absent" => source'[id.source] = source[id.source]
    BY <1>1 DEF IntakeInv, RunsWhole, Identity
  <1>3. WorkersHold'
    <2>1. ASSUME NEW w \in Workers, worker[w] # Idle
          PROVE  source'[worker[w].id.source] = source[worker[w].id.source]
      <3>1. worker[w].id \in Identity /\ run[worker[w].id].status = "pending"
        BY <2>1 DEF IntakeInv, WorkersHold, WorkerRows, Idle
      <3> QED BY <1>2, <3>1
    <2> QED BY <2>1 DEF IntakeInv, WorkersHold
  <1>4. RunsWhole'
    BY <1>1, <1>2 DEF IntakeInv, RunsWhole
  <1>5. Converted'
    BY ClientConverted
  <1>6. Sealed'
    <2> SUFFICES ASSUME NEW d \in Captures, Processed(d)'
                 PROVE  /\ \A id \in Identity :
                              id.source = Latest(d)'.source /\ run[id].status # "absent"
                                => id.scope = Latest(d)'.scope
                        /\ \A link \in links : link[2] = Latest(d)'.source
                                => link[1] = Latest(d)'.scope
      BY DEF Sealed
    <2>1. CASE d # c
      BY <2>1, Untouched DEF IntakeInv, Sealed
    <2>2. CASE d = c
      <3>1. Latest(d)' = n /\ n.state = "processed"
        BY <2>2 DEF Follows, Processed
      <3>2. source[n.source].kind = "absent"
        BY <3>1 DEF Follows
      <3> QED BY <3>1, <3>2 DEF IntakeInv, RunsWhole
    <2> QED BY <2>1, <2>2
  <1>7. NoLostUpdate'
    <2> SUFFICES ASSUME NEW d \in Captures, NEW i \in 2 .. Revision(d)'
                 PROVE  capture'[d][i].seen = i - 1
      BY DEF NoLostUpdate
    <2>1. CASE d # c
      <3>1. Revision(d)' = Revision(d) /\ capture'[d] = capture[d]
        BY <2>1, Untouched DEF Follows
      <3> QED BY <3>1 DEF IntakeInv, NoLostUpdate
    <2>2. CASE d = c
      <3>1. Revision(c)' = Revision(c) + 1 /\ Revision(c) \in Nat
        BY DEF Follows, Revision
      <3>2. CASE i \in 1 .. Revision(c)
        BY <2>2, <3>1, <3>2 DEF Follows, IntakeInv, NoLostUpdate
      <3>3. CASE i = Revision(c) + 1
        BY <2>2, <3>1, <3>3 DEF Follows
      <3> QED BY <2>2, <3>1, <3>2, <3>3
    <2> QED BY <2>1, <2>2
  <1>8. EvidenceExact'
    BY <1>2 DEF IntakeInv, RunsWhole, EvidenceExact
  <1> QED BY <1>1, <1>3, <1>4, <1>5, <1>6, <1>7, <1>8 DEF IntakeInv

-----------------------------------------------------------------------------
(* Sources, extraction and review: no Capture changes.                     *)

\* A Source read through its access rule is read in the scope of its Capture.
LEMMA ReadInScope ==
    ASSUME IntakeInv, NEW s \in Sources, NEW scope, Accessible(s, scope),
           NEW c \in Captures, Processed(c), Latest(c).source = s
    PROVE  scope = Latest(c).scope
  <1>1. c \in Binding(s)
    BY DEF Binding, Processed
  <1>2. \A d \in Binding(s) : d = c
    BY DEF Binding, IntakeInv, Converted
  <1> QED BY <1>1, <1>2 DEF Accessible

\* Steps that keep Captures and Sources: what is left to show.
LEMMA RunsOnly ==
    ASSUME IntakeInv, UNCHANGED <<capture, source>>,
           WorkersHold', RunsWhole', Sealed', EvidenceExact'
    PROVE  IntakeInv'
  BY DEF IntakeInv, Shapes, CapturesWhole, SourcesWhole, Converted, Processed, NoLostUpdate,
     Created, Latest, Revision

\* Runs that existed stay so, and a new one is read through the access rule.
LEMMA SealedRuns ==
    ASSUME IntakeInv, UNCHANGED <<capture, source, links>>,
           \A id \in Identity : run'[id].status # "absent" =>
               run[id].status # "absent" \/ Accessible(id.source, id.scope)
    PROVE  Sealed'
  <1> SUFFICES ASSUME NEW c \in Captures, Processed(c), NEW id \in Identity,
                      id.source = Latest(c).source, run'[id].status # "absent"
               PROVE  id.scope = Latest(c).scope
    BY DEF Sealed, IntakeInv, Processed, Created, Latest, Revision
  <1>1. CASE run[id].status # "absent"
    BY <1>1 DEF IntakeInv, Sealed
  <1>2. CASE Accessible(id.source, id.scope)
    BY <1>2, ReadInScope DEF Identity
  <1> QED BY <1>1, <1>2

LEMMA SealedLinks ==
    ASSUME IntakeInv, NEW s \in Sources, NEW scope \in Scopes, Accessible(s, scope),
           UNCHANGED <<capture, source>>, links' = links \cup {<<scope, s>>},
           \A id \in Identity : run'[id].status # "absent" => run[id].status # "absent"
    PROVE  Sealed'
  <1>1. ASSUME NEW c \in Captures, Processed(c), Latest(c).source = s
        PROVE  scope = Latest(c).scope
    BY <1>1, ReadInScope
  <1> QED BY <1>1 DEF Sealed, IntakeInv, Processed, Created, Latest, Revision

\* Captures that stay as they are stay converted while their Sources do.
LEMMA ConvertedKept ==
    ASSUME IntakeInv, capture' = capture,
           \A c \in Captures : Processed(c) => source'[Latest(c).source] = source[Latest(c).source]
    PROVE  Converted'
  <1>1. \A c \in Captures : /\ Revision(c)' = Revision(c) /\ Latest(c)' = Latest(c)
                            /\ Created(c)' = Created(c) /\ Processed(c)' = Processed(c)
    BY DEF Processed, Created, Latest, Revision
  <1>2. ASSUME NEW c \in Captures, Processed(c)'
        PROVE  /\ source'[Latest(c)'.source].kind = "capture"
               /\ source'[Latest(c)'.source].text = Latest(c)'.text
               /\ Revision(c)' > 1 => capture'[c][Revision(c)' - 1].text = Latest(c)'.text
               /\ \A d \in Captures : Created(d)' /\ Latest(d)'.source = Latest(c)'.source
                                        => d = c
    <2>1. Processed(c) /\ source'[Latest(c).source] = source[Latest(c).source]
      BY <1>1, <1>2
    <2> QED BY <1>1, <2>1 DEF IntakeInv, Converted
  <1> QED BY <1>2 DEF Converted

LEMMA CreateKeeps ==
    ASSUME IntakeInv, NEW s \in Sources, CreateSource(s)
    PROVE  IntakeInv'
  <1>1. /\ source[s] = NoSource /\ source \in [Sources -> SourceRows]
        /\ source' = [source EXCEPT ![s].kind = "plain"]
        /\ UNCHANGED <<capture, run, worker, links>>
    BY DEF CreateSource, IntakeInv, Shapes, SourcesWhole
  <1>2. /\ SourcesWhole'
        /\ \A r \in Sources : /\ source'[r].rows = source[r].rows
                              /\ source'[r].text = source[r].text
                              /\ source[r].kind # "absent" => source'[r] = source[r]
    <2>1. [source[s] EXCEPT !.kind = "plain"] \in SourceRows
      BY <1>1 DEF SourceRows
    <2>2. source'[s] = [source[s] EXCEPT !.kind = "plain"]
          /\ \A r \in Sources : r # s => source'[r] = source[r]
      BY <1>1
    <2>3. source'[s].rows = source[s].rows /\ source'[s].text = source[s].text
          /\ source'[s].kind = "plain" /\ source[s].kind = "absent"
      BY <1>1, <2>2 DEF NoSource
    <2>4. source' \in [Sources -> SourceRows]
      BY <1>1, <2>1
    <2> QED BY <2>2, <2>3, <2>4 DEF IntakeInv, Shapes, SourcesWhole
  <1>3. CapturesWhole' /\ NoLostUpdate' /\ Sealed'
    BY <1>1 DEF IntakeInv, Shapes, CapturesWhole, NoLostUpdate, Sealed, Processed, Created,
       Latest, Revision
  <1>4. Converted'
    <2>1. ASSUME NEW c \in Captures, Processed(c)
          PROVE  source'[Latest(c).source] = source[Latest(c).source]
      <3>1. Latest(c).source \in Sources /\ source[Latest(c).source].kind = "capture"
        BY <2>1, BoundSource DEF IntakeInv, Converted, Processed
      <3> QED BY <1>2, <3>1
    <2> QED BY <1>1, <2>1, ConvertedKept
  <1>5. WorkersHold'
    <2>1. ASSUME NEW w \in Workers, worker[w] # Idle
          PROVE  worker[w].id.source \in Sources
      BY <2>1 DEF IntakeInv, WorkersHold, WorkerRows, Idle, Identity
    <2> QED BY <1>1, <1>2, <2>1 DEF IntakeInv, WorkersHold
  <1>6. RunsWhole' /\ EvidenceExact'
    BY <1>1, <1>2 DEF IntakeInv, RunsWhole, EvidenceExact, Identity
  <1> QED BY <1>2, <1>3, <1>4, <1>5, <1>6 DEF IntakeInv, Shapes

LEMMA IngestKeeps ==
    ASSUME IntakeInv, NEW s \in Sources, IngestText(s)
    PROVE  IntakeInv'
  <1> PICK text \in Texts :
             source' = [source EXCEPT ![s].text = text, ![s].rows = @ + 1]
    BY DEF IngestText
  <1>1. /\ source[s] \in SourceRows /\ source \in [Sources -> SourceRows]
        /\ source[s].kind # "absent" /\ source[s].rows < MaxRows
        /\ UNCHANGED <<capture, worker, links>>
        /\ run' = [id \in Identity |->
                     IF id.source = s THEN [run[id] EXCEPT !.cites = 0] ELSE run[id]]
        /\ run \in [Identity -> RunRows]
    BY DEF IngestText, IntakeInv, Shapes, SourcesWhole, RunsWhole
  <1>2. /\ source'[s].text = text /\ source'[s].rows = source[s].rows + 1
        /\ source'[s].kind = source[s].kind /\ source'[s] \in SourceRows
        /\ source[s].rows \in Nat
    <2>1. source'[s] = [source[s] EXCEPT !.text = text, !.rows = @ + 1]
      BY <1>1
    <2> QED BY <1>1, <2>1, CapturesAssumption DEF SourceRows
  <1>3. \A r \in Sources : r # s => source'[r] = source[r]
    BY <1>1
  <1>4. SourcesWhole'
    BY <1>1, <1>2, <1>3 DEF IntakeInv, Shapes, SourcesWhole
  <1>5. CapturesWhole' /\ NoLostUpdate'
    BY <1>1 DEF IntakeInv, Shapes, CapturesWhole, NoLostUpdate, Revision
  <1>6. \A id \in Identity :
           /\ run'[id] \in RunRows /\ run'[id].status = run[id].status
           /\ run'[id].review = run[id].review /\ run'[id].promoted = run[id].promoted
           /\ run'[id].cites = IF id.source = s THEN 0 ELSE run[id].cites
    <2> SUFFICES ASSUME NEW id \in Identity
                 PROVE  /\ run'[id] \in RunRows /\ run'[id].status = run[id].status
                        /\ run'[id].review = run[id].review
                        /\ run'[id].promoted = run[id].promoted
                        /\ run'[id].cites = IF id.source = s THEN 0 ELSE run[id].cites
      OBVIOUS
    <2>1. run[id] \in RunRows
      BY <1>1
    <2> QED BY <1>1, <2>1, CapturesAssumption DEF RunRows
  <1>7. Converted'
    <2>1. ASSUME NEW c \in Captures, Processed(c)
          PROVE  source'[Latest(c).source] = source[Latest(c).source]
      <3>1. Latest(c).source \in Sources /\ c \in Binding(Latest(c).source)
        BY <2>1, BoundSource DEF IntakeInv, Processed, Binding
      <3>2. Latest(c).source # s
        BY <3>1 DEF IngestText
      <3> QED BY <1>3, <3>1, <3>2
    <2> QED BY <1>1, <2>1, ConvertedKept
  <1>8. Sealed'
    BY <1>1, <1>6 DEF IntakeInv, Sealed, Processed, Created, Latest, Revision
  <1>9. WorkersHold'
    <2>1. ASSUME NEW w \in Workers, worker[w] # Idle
          PROVE  /\ run'[worker[w].id].status = "pending"
                 /\ worker[w].rows <= source'[worker[w].id.source].rows
                 /\ worker[w].rows = source'[worker[w].id.source].rows =>
                        source'[worker[w].id.source].text = worker[w].id.text
      <3>1. /\ worker[w].id \in Identity /\ worker[w].rows \in Nat
            /\ worker[w].id.source \in Sources
        BY <2>1, CapturesAssumption DEF IntakeInv, WorkersHold, WorkerRows, Idle, Identity
      <3>2. /\ run[worker[w].id].status = "pending"
            /\ worker[w].rows <= source[worker[w].id.source].rows
            /\ worker[w].rows = source[worker[w].id.source].rows =>
                   source[worker[w].id.source].text = worker[w].id.text
        BY <2>1 DEF IntakeInv, WorkersHold
      <3>3. run'[worker[w].id].status = "pending"
        BY <1>6, <3>1, <3>2
      <3>4. CASE worker[w].id.source = s
        BY <1>2, <3>1, <3>2, <3>3, <3>4
      <3>5. CASE worker[w].id.source # s
        BY <1>3, <3>1, <3>2, <3>3, <3>5
      <3> QED BY <3>4, <3>5
    <2> QED BY <1>1, <2>1 DEF IntakeInv, WorkersHold
  <1>10. RunsWhole'
    <2>1. \A r \in Sources : source'[r].kind = source[r].kind
      BY <1>2, <1>3
    <2> QED BY <1>1, <1>6, <2>1 DEF IntakeInv, RunsWhole, Identity
  <1>11. EvidenceExact'
    BY <1>3, <1>6 DEF IntakeInv, EvidenceExact, Identity
  <1> QED BY <1>4, <1>5, <1>7, <1>8, <1>9, <1>10, <1>11 DEF IntakeInv, Shapes

\* A run at the provider is one of the table, and a request of its own.
LEMMA BusyWorker ==
    ASSUME IntakeInv, NEW w \in Workers, worker[w] # Idle
    PROVE  /\ worker[w].id \in Identity /\ worker[w].rows \in 1 .. MaxRows
           /\ run[worker[w].id] \in RunRows /\ run[worker[w].id].status = "pending"
           /\ source[worker[w].id.source].kind # "absent"
           /\ \A v \in Workers : v # w /\ worker[v] # Idle => worker[v].id # worker[w].id
  <1>1. worker[w].id \in Identity /\ worker[w].rows \in 1 .. MaxRows
    BY DEF IntakeInv, WorkersHold, WorkerRows, Idle
  <1> QED BY <1>1 DEF IntakeInv, WorkersHold, RunsWhole

\* Ending a request leaves the others as they are.
LEMMA WorkerDone ==
    ASSUME IntakeInv, NEW w \in Workers, worker' = [worker EXCEPT ![w] = Idle],
           source' = source,
           \A v \in Workers : v # w /\ worker[v] # Idle =>
               run'[worker[v].id].status = "pending"
    PROVE  WorkersHold'
  <1>1. worker' \in [Workers -> WorkerRows]
    BY DEF IntakeInv, WorkersHold, WorkerRows, Idle
  <1>2. \A v \in Workers : worker'[v] # Idle => v # w /\ worker'[v] = worker[v]
    BY DEF IntakeInv, WorkersHold
  <1> QED BY <1>1, <1>2 DEF IntakeInv, WorkersHold

\* One run rewritten: what it owes the table.
LEMMA RunRewritten ==
    ASSUME IntakeInv, NEW id \in Identity, NEW row \in RunRows, source' = source,
           run' = [run EXCEPT ![id] = row],
           row.status # "completed" => row.review = "none" /\ row.cites = 0 /\ ~row.promoted,
           source[id.source].kind # "absent",
           row.cites # 0 => row.cites = source[id.source].rows /\ source[id.source].text = id.text,
           links' \subseteq Scopes \X Sources,
           \A link \in links' : source[link[2]].kind # "absent"
    PROVE  RunsWhole' /\ EvidenceExact'
  <1>1. /\ run' \in [Identity -> RunRows] /\ run'[id] = row
        /\ \A i \in Identity : i # id => run'[i] = run[i]
    BY DEF IntakeInv, RunsWhole
  <1> QED BY <1>1 DEF IntakeInv, RunsWhole, EvidenceExact

LEMMA BeginKeeps ==
    ASSUME IntakeInv, NEW w \in Workers, NEW s \in Sources, NEW scope \in Scopes,
           Begin(w, s, scope)
    PROVE  IntakeInv'
  <1> DEFINE id == [source |-> s, text |-> source[s].text, scope |-> scope]
  <1>1. /\ source[s] \in SourceRows /\ source[s].text # None /\ source[s].rows >= 1
        /\ Accessible(s, scope) /\ source[s].kind # "absent"
    BY DEF Begin, Accessible, IntakeInv, Shapes, SourcesWhole
  <1>2. /\ id \in Identity /\ id.source = s /\ id.text = source[s].text /\ id.scope = scope
        /\ source[s].rows \in 1 .. MaxRows
    BY <1>1, CapturesAssumption DEF SourceRows, Identity
  <1>3. /\ run[id].status \in {"absent", "failed"}
        /\ run' = [run EXCEPT ![id].status = "pending"]
        /\ worker' = [worker EXCEPT ![w] =
               [at |-> "provider", id |-> id, rows |-> source[s].rows]]
        /\ UNCHANGED <<capture, source, links>>
    BY DEF Begin, Startable
  <1> HIDE DEF id
  <1>4. run \in [Identity -> RunRows] /\ run[id] \in RunRows
        /\ run[id].review = "none" /\ run[id].cites = 0 /\ ~run[id].promoted
    BY <1>2, <1>3 DEF IntakeInv, RunsWhole
  <1> DEFINE row == [run[id] EXCEPT !.status = "pending"]
  <1>5. /\ row \in RunRows /\ row.status = "pending" /\ row.review = "none"
        /\ row.cites = 0 /\ ~row.promoted /\ run' = [run EXCEPT ![id] = row]
    BY <1>3, <1>4 DEF RunRows
  <1> HIDE DEF row
  <1>6. /\ run'[id] = row /\ \A i \in Identity : i # id => run'[i] = run[i]
    BY <1>2, <1>4, <1>5
  <1>7. RunsWhole' /\ EvidenceExact'
    BY <1>1, <1>2, <1>3, <1>5, RunRewritten DEF IntakeInv, RunsWhole
  <1>8. Sealed'
    BY <1>1, <1>2, <1>3, <1>6, SealedRuns
  <1>9. WorkersHold'
    <2> DEFINE request == [at |-> "provider", id |-> id, rows |-> source[s].rows]
    <2>1. request \in WorkerRows /\ request.id = id /\ request.rows = source[s].rows
      BY <1>2 DEF WorkerRows
    <2>2. /\ worker' \in [Workers -> WorkerRows] /\ worker'[w] = request
          /\ \A v \in Workers : v # w => worker'[v] = worker[v]
      BY <1>3, <2>1 DEF IntakeInv, WorkersHold
    <2> HIDE DEF request
    <2>3. ASSUME NEW v \in Workers, v # w, worker[v] # Idle
          PROVE  worker[v].id # id /\ run'[worker[v].id].status = "pending"
      BY <1>3, <1>6, <2>3, BusyWorker
    <2>4. \A u, v \in Workers :
             u # v /\ worker'[u] # Idle /\ worker'[v] # Idle => worker'[u].id # worker'[v].id
      BY <2>1, <2>2, <2>3 DEF IntakeInv, WorkersHold
    <2>5. ASSUME NEW v \in Workers, worker'[v] # Idle
          PROVE  /\ run'[worker'[v].id].status = "pending"
                 /\ worker'[v].rows <= source[worker'[v].id.source].rows
                 /\ worker'[v].rows = source[worker'[v].id.source].rows =>
                        source[worker'[v].id.source].text = worker'[v].id.text
      <3>1. CASE v = w
        BY <1>2, <1>5, <1>6, <2>1, <2>2, <3>1
      <3>2. CASE v # w
        BY <2>2, <2>3, <2>5, <3>2 DEF IntakeInv, WorkersHold
      <3> QED BY <3>1, <3>2
    <2> QED BY <1>3, <2>2, <2>4, <2>5 DEF WorkersHold
  <1> QED BY <1>3, <1>7, <1>8, <1>9, RunsOnly

LEMMA CompleteKeeps ==
    ASSUME IntakeInv, NEW w \in Workers, Complete(w)
    PROVE  IntakeInv'
  <1> DEFINE id == worker[w].id
  <1>1. /\ worker[w] # Idle /\ worker' = [worker EXCEPT ![w] = Idle]
        /\ UNCHANGED <<capture, source, links>>
    BY DEF Complete
  <1> PICK proposal \in Proposed(w) :
             /\ Citable(w, proposal)
             /\ run' = [run EXCEPT ![id] =
                    [status |-> "completed", review |-> proposal.review,
                     cites |-> proposal.cites, promoted |-> FALSE]]
    BY DEF Complete
  <1> DEFINE row == [status |-> "completed", review |-> proposal.review,
                     cites |-> proposal.cites, promoted |-> FALSE]
  <1>2. /\ id \in Identity /\ worker[w].rows \in 1 .. MaxRows
        /\ run[id].status = "pending" /\ source[id.source].kind # "absent"
    BY <1>1, BusyWorker
  <1>3. /\ proposal.review \in {"none", "pending"} /\ proposal.cites \in {0, worker[w].rows}
        /\ proposal.cites \in {0, source[id.source].rows}
    BY DEF Proposed, ChunksRead, Citable
  <1>4. row \in RunRows /\ row.status = "completed" /\ row.cites = proposal.cites
    BY <1>2, <1>3, CapturesAssumption DEF RunRows
  <1>5. row.cites # 0 => row.cites = source[id.source].rows /\ source[id.source].text = id.text
    BY <1>1, <1>3, <1>4 DEF IntakeInv, WorkersHold
  <1>6. run' = [run EXCEPT ![id] = row]
    OBVIOUS
  <1> HIDE DEF row, id
  <1>7. RunsWhole' /\ EvidenceExact'
    BY <1>1, <1>2, <1>4, <1>5, <1>6, RunRewritten DEF IntakeInv, RunsWhole
  <1>8. \A i \in Identity : i # id => run'[i] = run[i]
    BY <1>6 DEF IntakeInv, RunsWhole
  <1>9. Sealed'
    BY <1>1, <1>2, <1>8, SealedRuns
  <1>10. WorkersHold'
    <2>1. ASSUME NEW v \in Workers, v # w, worker[v] # Idle
          PROVE  run'[worker[v].id].status = "pending"
      BY <1>1, <1>8, <2>1, BusyWorker DEF id
    <2> QED BY <1>1, <2>1, WorkerDone
  <1> QED BY <1>1, <1>7, <1>9, <1>10, RunsOnly

LEMMA EndKeeps ==
    ASSUME IntakeInv, NEW w \in Workers,
           CompleteRefused(w) \/ FailRun(w) \/ Abandon(w)
    PROVE  IntakeInv'
  <1>1. /\ worker[w] # Idle /\ worker' = [worker EXCEPT ![w] = Idle]
        /\ UNCHANGED <<capture, source, links>>
    BY DEF CompleteRefused, FailRun, Abandon
  <1>2. CASE run' = run
    <2>1. WorkersHold'
      BY <1>1, <1>2, BusyWorker, WorkerDone
    <2>2. RunsWhole' /\ EvidenceExact'
      BY <1>1, <1>2 DEF IntakeInv, RunsWhole, EvidenceExact
    <2>3. Sealed'
      BY <1>1, <1>2, SealedRuns
    <2> QED BY <1>1, <2>1, <2>2, <2>3, RunsOnly
  <1>3. CASE FailRun(w)
    <2> DEFINE id == worker[w].id
               row == [run[id] EXCEPT !.status = "failed"]
    <2>1. /\ id \in Identity /\ run[id] \in RunRows /\ run[id].status = "pending"
          /\ source[id.source].kind # "absent"
      BY <1>1, BusyWorker
    <2>2. run[id].review = "none" /\ run[id].cites = 0 /\ ~run[id].promoted
      BY <2>1 DEF IntakeInv, RunsWhole
    <2>3. /\ row \in RunRows /\ row.status = "failed" /\ row.review = "none"
          /\ row.cites = 0 /\ ~row.promoted
      BY <2>1, <2>2 DEF RunRows
    <2>4. run' = [run EXCEPT ![id] = row]
      BY <1>3 DEF FailRun
    <2> HIDE DEF row, id
    <2>5. \A i \in Identity : i # id => run'[i] = run[i]
      BY <2>4 DEF IntakeInv, RunsWhole
    <2>6. RunsWhole' /\ EvidenceExact'
      BY <1>1, <2>1, <2>3, <2>4, RunRewritten DEF IntakeInv, RunsWhole
    <2>7. Sealed'
      BY <1>1, <2>1, <2>5, SealedRuns
    <2>8. ASSUME NEW v \in Workers, v # w, worker[v] # Idle
          PROVE  run'[worker[v].id].status = "pending"
      BY <1>1, <2>5, <2>8, BusyWorker DEF id
    <2>9. WorkersHold'
      BY <1>1, <2>8, WorkerDone
    <2> QED BY <1>1, <2>6, <2>7, <2>9, RunsOnly
  <1> QED BY <1>2, <1>3 DEF CompleteRefused, Abandon

\* Review and promotion rewrite a completed run, which no request holds.
LEMMA ReviewKeeps ==
    ASSUME IntakeInv, NEW id \in Identity, ReviewStep(id)
    PROVE  IntakeInv'
  <1>1. /\ run[id].status = "completed" /\ Accessible(id.source, id.scope)
        /\ UNCHANGED <<capture, source, worker>>
        /\ id.source \in Sources /\ id.scope \in Scopes /\ run[id] \in RunRows
    BY DEF ReviewStep, Review, Promote, IntakeInv, RunsWhole, Identity
  <1>2. \E row \in RunRows : /\ run' = [run EXCEPT ![id] = row]
                             /\ row.status = "completed" /\ row.cites = run[id].cites
    <2>1. ASSUME NEW decision \in {"approved", "rejected"}, Review(id, decision)
          PROVE  /\ run' = [run EXCEPT ![id] = [run[id] EXCEPT !.review = decision]]
                 /\ [run[id] EXCEPT !.review = decision] \in RunRows
                 /\ [run[id] EXCEPT !.review = decision].status = "completed"
                 /\ [run[id] EXCEPT !.review = decision].cites = run[id].cites
      BY <1>1, <2>1 DEF Review, RunRows
    <2>2. ASSUME Promote(id)
          PROVE  /\ run' = [run EXCEPT ![id] = [run[id] EXCEPT !.promoted = TRUE]]
                 /\ [run[id] EXCEPT !.promoted = TRUE] \in RunRows
                 /\ [run[id] EXCEPT !.promoted = TRUE].status = "completed"
                 /\ [run[id] EXCEPT !.promoted = TRUE].cites = run[id].cites
      BY <1>1, <2>2 DEF Promote, RunRows
    <2> QED BY <2>1, <2>2 DEF ReviewStep
  <1> PICK row \in RunRows : /\ run' = [run EXCEPT ![id] = row]
                             /\ row.status = "completed" /\ row.cites = run[id].cites
    BY <1>2
  <1>3. links' = links \/ links' = links \cup {<<id.scope, id.source>>}
    BY DEF ReviewStep, Review, Promote
  <1>4. \A i \in Identity : i # id => run'[i] = run[i]
    BY DEF IntakeInv, RunsWhole
  <1>5. RunsWhole' /\ EvidenceExact'
    <2>1. source[id.source].kind # "absent"
      BY <1>1 DEF Accessible
    <2>2. row.cites # 0 => row.cites = source[id.source].rows /\ source[id.source].text = id.text
      BY DEF IntakeInv, EvidenceExact
    <2>3. links' \subseteq Scopes \X Sources /\ \A link \in links' : source[link[2]].kind # "absent"
      BY <1>1, <1>3, <2>1 DEF IntakeInv, RunsWhole
    <2> QED BY <1>1, <2>1, <2>2, <2>3, RunRewritten
  <1>6. \A i \in Identity : run'[i].status # "absent" => run[i].status # "absent"
    BY <1>1, <1>4
  <1>7. Sealed'
    <2>1. CASE links' = links
      BY <1>1, <1>6, <2>1, SealedRuns
    <2>2. CASE links' = links \cup {<<id.scope, id.source>>}
      BY <1>1, <1>6, <2>2, SealedLinks
    <2> QED BY <1>3, <2>1, <2>2
  <1>8. WorkersHold'
    <2>1. \A w \in Workers : worker[w] # Idle => worker[w].id # id
      BY <1>1, BusyWorker
    <2> QED BY <1>1, <1>4, <2>1, BusyWorker DEF IntakeInv, WorkersHold
  <1> QED BY <1>1, <1>5, <1>7, <1>8, RunsOnly

LEMMA LinkKeeps ==
    ASSUME IntakeInv, NEW s \in Sources, NEW scope \in Scopes, LinkMemory(scope, s)
    PROVE  IntakeInv'
  <1>1. /\ Accessible(s, scope) /\ source[s].kind # "absent"
        /\ links' = links \cup {<<scope, s>>}
        /\ UNCHANGED <<capture, source, run, worker>>
    BY DEF LinkMemory, Accessible
  <1>2. WorkersHold' /\ RunsWhole' /\ EvidenceExact'
    BY <1>1 DEF IntakeInv, WorkersHold, RunsWhole, EvidenceExact
  <1>3. Sealed'
    BY <1>1, SealedLinks
  <1> QED BY <1>1, <1>2, <1>3, RunsOnly

-----------------------------------------------------------------------------
(* The theorems.                                                           *)

LEMMA IntakeInit == Init => IntakeInv
  <1> SUFFICES ASSUME Init PROVE IntakeInv
    OBVIOUS
  <1>1. /\ capture = [c \in Captures |-> <<>>] /\ source = [s \in Sources |-> NoSource]
        /\ run = [id \in Identity |-> NoRun] /\ worker = [w \in Workers |-> Idle]
        /\ links = {}
    BY DEF Init, CapturesInit
  <1>2. \A c \in Captures : Revision(c) = 0 /\ ~Created(c)
    BY <1>1 DEF Revision, Created
  <1>3. <<>> \in Seq(Projections) /\ MaxRevision \in Nat /\ MaxRows \in Nat
    BY CapturesAssumption
  <1>4. Shapes
    <2>1. NoSource \in SourceRows /\ NoSource.text = None
      BY <1>3 DEF NoSource, SourceRows
    <2> QED BY <1>1, <1>2, <1>3, <2>1 DEF Shapes, CapturesWhole, SourcesWhole
  <1>5. WorkersHold
    BY <1>1 DEF WorkersHold, WorkerRows, Idle
  <1>6. RunsWhole /\ EvidenceExact
    <2>1. NoRun \in RunRows /\ NoRun.cites = 0 /\ NoRun.review = "none" /\ ~NoRun.promoted
          /\ NoRun.status = "absent"
      BY <1>3 DEF NoRun, RunRows
    <2> QED BY <1>1, <2>1 DEF RunsWhole, EvidenceExact
  <1>7. Converted /\ Sealed /\ NoLostUpdate
    BY <1>2 DEF Converted, Sealed, Processed, NoLostUpdate
  <1> QED BY <1>4, <1>5, <1>6, <1>7 DEF IntakeInv

LEMMA IntakeStep ==
    ASSUME IntakeInv, [Next]_intakeVars
    PROVE  IntakeInv'
  <1>1. CASE ClientStep
    BY <1>1, ClientKeeps DEF ClientStep
  <1>2. ASSUME NEW s \in Sources, SourceStep(s) PROVE IntakeInv'
    BY <1>2, CreateKeeps, IngestKeeps, LinkKeeps DEF SourceStep
  <1>3. ASSUME NEW w \in Workers, WorkerStep(w) PROVE IntakeInv'
    BY <1>3, BeginKeeps, CompleteKeeps, EndKeeps DEF WorkerStep
  <1>4. ASSUME NEW id \in Identity, ReviewStep(id) PROVE IntakeInv'
    BY <1>4, ReviewKeeps
  <1>5. CASE UNCHANGED intakeVars
    BY <1>5 DEF intakeVars, IntakeInv, Shapes, CapturesWhole, SourcesWhole, WorkersHold,
       RunsWhole, Converted, Sealed, NoLostUpdate, EvidenceExact, Processed, Created, Latest,
       Revision
  <1> QED BY <1>1, <1>2, <1>3, <1>4, <1>5 DEF Next

LEMMA IntakeInvariant == Spec => []IntakeInv
  BY IntakeInit, IntakeStep, PTL DEF Spec

\* Every row keeps its shape, a Capture has a Source exactly when it is processed, and
\* no two requests ever work on one extraction run.
THEOREM IntakeTypes == Spec => []TypeOK
  <1>1. IntakeInv => TypeOK
    <2> SUFFICES ASSUME IntakeInv PROVE TypeOK
      OBVIOUS
    <2>1. ASSUME NEW c \in Captures, NEW i \in 1 .. Revision(c)
          PROVE  capture[c][i] \in Projections
      BY DEF IntakeInv, Shapes, CapturesWhole, Revision
    <2> QED BY <2>1 DEF IntakeInv, Shapes, CapturesWhole, SourcesWhole, WorkersHold,
                        RunsWhole, TypeOK
  <1> QED BY <1>1, IntakeInvariant, PTL

\* However late or often requests arrive, each revision of a Capture was asked for by
\* one that had seen the revision right before it.
THEOREM NothingOverwritten == Spec => []NoLostUpdate
  <1>1. IntakeInv => NoLostUpdate
    BY DEF IntakeInv
  <1> QED BY <1>1, IntakeInvariant, PTL

\* The evidence of a proposal is the passage the provider was given, although the
\* document may be replaced while the provider is asked and afterwards.
THEOREM EvidenceStays == Spec => []EvidenceExact
  <1>1. IntakeInv => EvidenceExact
    BY DEF IntakeInv
  <1> QED BY <1>1, IntakeInvariant, PTL

\* A conversion asked for again is answered with the text and in the scope that the
\* client had in front of it.
THEOREM RepliesExact == Spec => []ReplayExact
  <1>1. IntakeInv => ReplayExact
    <2> SUFFICES ASSUME IntakeInv, NEW c \in Captures, NEW seen \in 1 .. Revision(c),
                        Answered(c, seen)
                 PROVE  /\ capture[c][seen].text = source[Latest(c).source].text
                        /\ Accessible(Latest(c).source, capture[c][seen].scope)
      BY DEF ReplayExact
    <2>1. Created(c)
      <3> SUFFICES ASSUME capture[c] = <<>> PROVE FALSE
        BY DEF Created
      <3>1. Len(capture[c]) = 0
        OBVIOUS
      <3> QED BY <3>1 DEF Revision
    <2>2. Processed(c) /\ capture[c][seen].scope = Latest(c).scope
          /\ seen \in {Revision(c) - 1, Revision(c)}
      BY <2>1 DEF Answered, Processed
    <2>3. /\ source[Latest(c).source].kind = "capture"
          /\ source[Latest(c).source].text = Latest(c).text
          /\ Revision(c) > 1 => capture[c][Revision(c) - 1].text = Latest(c).text
      BY <2>2 DEF IntakeInv, Converted
    <2>4. Revision(c) \in Nat
      BY <2>1, LatestRow DEF IntakeInv, Shapes
    <2>5. capture[c][seen].text = Latest(c).text
      BY <2>2, <2>3, <2>4 DEF Latest
    <2>6. c \in Binding(Latest(c).source)
      BY <2>1 DEF Binding
    <2> QED BY <2>2, <2>3, <2>5, <2>6 DEF Accessible, Processed
  <1> QED BY <1>1, IntakeInvariant, PTL

\* What came in through a Capture stays in its scope: the Source is its own, and all
\* that is drawn from it or linked to it has the Capture's scope.
THEOREM CapturesSealed == Spec => []CaptureSealed
  <1>1. IntakeInv => CaptureSealed
    <2> SUFFICES ASSUME IntakeInv, NEW c \in Captures, Processed(c)
                 PROVE  /\ Binding(Latest(c).source) = {c}
                        /\ \A id \in Identity :
                              id.source = Latest(c).source /\ run[id].status # "absent"
                                => id.scope = Latest(c).scope
                        /\ \A link \in links : link[2] = Latest(c).source
                                => link[1] = Latest(c).scope
      BY DEF CaptureSealed, Processed
    <2>1. Binding(Latest(c).source) = {c}
      BY DEF Binding, IntakeInv, Converted, Processed
    <2> QED BY <2>1 DEF IntakeInv, Sealed
  <1> QED BY <1>1, IntakeInvariant, PTL

\* No retried extraction, other reviewer or replaced document undoes a decision, and
\* nothing takes a promotion back.
THEOREM DecisionsFinal == Spec => DecisionsKept
  <1>1. IntakeInv /\ [Next]_intakeVars =>
          [\A id \in Identity : run[id].review \in {"approved", "rejected"} =>
               /\ run'[id].review = run[id].review
               /\ run[id].promoted => run'[id].promoted]_intakeVars
    <2> SUFFICES ASSUME IntakeInv, Next, NEW id \in Identity,
                        run[id].review \in {"approved", "rejected"}
                 PROVE  /\ run'[id].review = run[id].review
                        /\ run[id].promoted => run'[id].promoted
      BY DEF IntakeInv
    <2>0. run \in [Identity -> RunRows] /\ run[id] \in RunRows
          /\ run[id].status = "completed"
      BY DEF IntakeInv, RunsWhole
    <2>1. CASE run' = run
      BY <2>1
    <2>2. ASSUME NEW s \in Sources, IngestText(s)
          PROVE  /\ run'[id].review = run[id].review
                 /\ run[id].promoted => run'[id].promoted
      BY <2>0, <2>2 DEF IngestText, RunRows
    <2>3. ASSUME NEW i \in Identity, NEW row, run' = [run EXCEPT ![i] = row],
                 run[i].status # "completed"
          PROVE  run'[id] = run[id]
      BY <2>0, <2>3
    <2>4. ASSUME NEW w \in Workers, WorkerStep(w)
          PROVE  run'[id] = run[id]
      <3>1. CASE CompleteRefused(w) \/ Abandon(w)
        BY <3>1 DEF CompleteRefused, Abandon
      <3>2. CASE Complete(w) \/ FailRun(w)
        <4>1. worker[w].id \in Identity /\ run[worker[w].id].status = "pending"
          BY <3>2, BusyWorker DEF Complete, FailRun
        <4> QED BY <2>0, <3>2, <4>1 DEF Complete, FailRun
      <3>3. ASSUME NEW s \in Sources, NEW scope \in Scopes, Begin(w, s, scope)
            PROVE  run'[id] = run[id]
        BY <2>0, <3>3 DEF Begin, Startable
      <3> QED BY <2>4, <3>1, <3>2, <3>3 DEF WorkerStep
    <2>5. ASSUME NEW i \in Identity, ReviewStep(i)
          PROVE  /\ run'[id].review = run[id].review
                 /\ run[id].promoted => run'[id].promoted
      BY <2>0, <2>5 DEF ReviewStep, Review, Promote, RunRows
    <2> QED BY <2>1, <2>2, <2>4, <2>5
            DEF Next, ClientStep, SourceStep, CreateSource, LinkMemory
  <1> QED BY <1>1, IntakeInvariant, PTL DEF Spec, DecisionsKept

=============================================================================
