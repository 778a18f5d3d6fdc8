------------------------------ MODULE Calendar ------------------------------
(***************************************************************************)
(* A Google Calendar account (app/calendar/service), its manual refreshes  *)
(* (app/calendar/sync) and the evidence the reader is answered from        *)
(* (app/calendar/query).                                                   *)
(*                                                                         *)
(* An account is a sequence of revisions, each with calendar identities of *)
(* its own; nothing is ever updated in place.  A refresh claims one run    *)
(* for every calendar of a revision and reads the calendars one after the  *)
(* other, page by page, with Google requests outside any transaction.  A   *)
(* transaction that finds the account changed (_fence) fails the refresh.  *)
(* The credential lies behind the boundary: a request may find it missing. *)
(***************************************************************************)
EXTENDS Integers, Sequences, FiniteSets, SequencesExt

CONSTANTS
    Calendars,    \* provider calendar ids
    Occurrences,  \* occurrence keys of a calendar
    Contents,     \* normalized content of an event, its times included
    Floating,     \* contents whose coverage cannot be proved: all-day, no time zone
    Window,       \* the contents whose times fall in the window of the n-th refresh
    Scopes,       \* Projects, and "unassigned"
    PageSize,     \* MAX_RESULTS
    MaxPages,     \* MAX_PAGES_PER_CALENDAR
    MaxRefreshes, \* bound: refresh requests
    MaxRevision,  \* bound: account revisions
    MaxChanges    \* bound: changes made on Google Calendar

ASSUME CalendarAssumption ==
    /\ Calendars # {} /\ IsFiniteSet(Calendars) /\ Floating \subseteq Contents
    /\ Window \in [1 .. MaxRefreshes -> SUBSET Contents] /\ PageSize \in Nat \ {0} /\ MaxPages \in Nat \ {0}
    /\ MaxRefreshes \in Nat /\ MaxRevision \in Nat /\ MaxChanges \in Nat

VARIABLES
    revs,     \* calendar_account_revisions of the account, oldest first
    google,   \* the provider: order and content of each calendar's events
    changes,  \* changes made on Google Calendar so far
    runs,     \* calendar_sync_runs: one row per refresh and calendar
    ended,    \* the runs with a completed_at, in its order
    events,   \* calendar_event_revisions of each calendar identity, oldest first
    seen,     \* calendar_event_observations of each run: occurrence to event revision
    req       \* the worker of each refresh: its place and its locals

calendarVars == <<revs, google, changes, runs, ended, events, seen, req>>

Refreshes == 1 .. MaxRefreshes

Active == {"claimed", "running"}

RevisionRows == [life : {"enabled", "disabled", "revoked"}, scope : Scopes,
                 cals : (SUBSET Calendars) \ {{}}]

RunRows == [status : {"none", "claimed", "running", "succeeded", "incomplete", "failed"},
            started : BOOLEAN, items : Nat, evidence : BOOLEAN]

NoRun == [status |-> "none", started |-> FALSE, items |-> 0, evidence |-> FALSE]

Places == {"none", "claimed", "begin", "fetch", "write", "over", "seal", "done", "dead"}

\* Locals of a refresh: captured revision, calendars left, page number, the page
\* read and whether a token came with it.  For the properties: what the calendar listed
\* when its reading began, and whether it changed since, or lost or changed an event.
Fresh == [at |-> "none", rev |-> 0, todo |-> <<>>, page |-> 1, got |-> <<>>,
          more |-> FALSE, base |-> {}, changed |-> FALSE, lost |-> FALSE]

\* The identity of calendar c in revision v.
Identities == (1 .. MaxRevision) \X Calendars

\* Orders in which a set of events may be listed.
Lists == {l \in UNION {[1 .. n -> Occurrences] : n \in 0 .. Cardinality(Occurrences)} : IsInjective(l)}

Init ==
    /\ revs = <<>> /\ changes = 0 /\ ended = <<>>
    /\ \E start \in Contents : google \in [Calendars -> [list : Lists, content : {[o \in Occurrences |-> start]}]]
    /\ runs = [n \in Refreshes |-> [c \in Calendars |-> NoRun]]
    /\ events = [i \in Identities |-> [o \in Occurrences |-> <<>>]]
    /\ seen = [n \in Refreshes |-> [c \in Calendars |-> <<>>]]
    /\ req = [n \in Refreshes |-> Fresh]

-----------------------------------------------------------------------------
(* Account service: each operation locks the latest revision, needs the    *)
(* caller to expect exactly it, and appends the next one.                  *)

Current == Last(revs)

\* _append.
AppendRevision(row) ==
    /\ Len(revs) < MaxRevision
    /\ revs' = Append(revs, row)
    /\ UNCHANGED <<google, changes, runs, ended, events, seen, req>>

CreateAccount ==
    /\ revs = <<>>
    /\ \E row \in RevisionRows : row.life = "enabled" /\ AppendRevision(row)

UpdateAccount ==
    /\ revs # <<>> /\ Current.life = "disabled"
    /\ \E row \in RevisionRows : row.life = "disabled" /\ AppendRevision(row)

SetLifecycle(target) ==
    /\ revs # <<>> /\ <<Current.life, target>> \in {<<"enabled", "disabled">>, <<"disabled", "enabled">>}
    /\ AppendRevision([Current EXCEPT !.life = target])

Revoke ==
    /\ revs # <<>> /\ Current.life # "revoked"
    /\ AppendRevision([Current EXCEPT !.life = "revoked"])

Configure ==
    CreateAccount \/ UpdateAccount \/ Revoke \/ \E t \in {"enabled", "disabled"} : SetLifecycle(t)

-----------------------------------------------------------------------------
(* Google Calendar.                                                        *)

Listed(c) == ToSet(google[c].list)

\* A change on calendar c: a refresh that is reading it remembers that there was one.
Change(c, loses) ==
    /\ changes < MaxChanges /\ changes' = changes + 1
    /\ req' = [n \in Refreshes |->
           IF req[n].at \in {"fetch", "write", "seal"} /\ Head(req[n].todo) = c
           THEN [req[n] EXCEPT !.changed = TRUE, !.lost = @ \/ loses] ELSE req[n]]
    /\ UNCHANGED <<revs, runs, ended, events, seen>>

AddEvent(c, o) ==
    /\ o \notin Listed(c)
    /\ \E before \in BOOLEAN :
           google' = [google EXCEPT ![c].list = IF before THEN <<o>> \o @ ELSE Append(@, o)]
    /\ Change(c, FALSE)

RemoveEvent(c, o) ==
    /\ \E j \in DOMAIN google[c].list :
           /\ google[c].list[j] = o
           /\ google' = [google EXCEPT ![c].list = RemoveAt(@, j)]
    /\ Change(c, TRUE)

EditEvent(c, o, content) ==
    /\ o \in Listed(c) /\ content # google[c].content[o]
    /\ google' = [google EXCEPT ![c].content[o] = content]
    /\ Change(c, TRUE)

GoogleStep ==
    \E c \in Calendars, o \in Occurrences :
        \/ AddEvent(c, o) \/ RemoveEvent(c, o)
        \/ \E content \in Contents : EditEvent(c, o, content)

-----------------------------------------------------------------------------
(* Claim.                                                                  *)

\* uq_calendar_sync_one_active, for every calendar of revision v.
NoActiveRun(v) ==
    \A n \in Refreshes, c \in revs[v].cals : req[n].rev = v => runs[n][c].status \notin Active

\* One row per calendar or none.  A claim that waited for the lock behind an append
\* claims the revision it read, superseded or not.
Claim(n, v) ==
    /\ req[n].at = "none" /\ \A m \in 1 .. n - 1 : req[m].at # "none"
    /\ v \in DOMAIN revs /\ revs[v].life = "enabled"
    /\ NoActiveRun(v)
    /\ runs' = [runs EXCEPT ![n] =
           [c \in Calendars |-> IF c \in revs[v].cals THEN [NoRun EXCEPT !.status = "claimed"] ELSE NoRun]]
    /\ req' = [req EXCEPT ![n] =
           [Fresh EXCEPT !.at = "claimed", !.rev = v, !.todo = SetToSeq(revs[v].cals)]]
    /\ UNCHANGED <<revs, google, changes, ended, events, seen>>

-----------------------------------------------------------------------------
(* Refresh.                                                                *)

Step(n, place) == req[n].at = place

Reading(n) == Head(req[n].todo)

\* _fence and _eligible: the captured revision is still the latest.
Fence(n) == req[n].rev = Len(revs)

Go(n, local) ==
    /\ req' = [req EXCEPT ![n] = local]
    /\ UNCHANGED <<revs, google, changes, runs, ended, events, seen>>

\* The credential is authorized for the account and answers an access token.
Authorize(n) ==
    /\ Step(n, "claimed") /\ Fence(n)
    /\ Go(n, [req[n] EXCEPT !.at = "begin"])

\* The k-th of the given places.
Nth(places, k) == CHOOSE j \in places : Cardinality({i \in places : i <= j}) = k

\* The members of a list that lie in S, in their order.
Kept(list, S) ==
    LET places == {j \in DOMAIN list : list[j] \in S}
    IN  [k \in 1 .. Cardinality(places) |-> list[Nth(places, k)]]

\* What Google lists of calendar c in the window of refresh n.
InWindow(n, c) ==
    Kept(google[c].list, {o \in Occurrences : google[c].content[o] \in Window[n]})

BeginCalendar(n) ==
    LET c == Reading(n)
    IN  /\ Step(n, "begin") /\ Fence(n)
        /\ runs' = [runs EXCEPT ![n][c] = [runs[n][c] EXCEPT !.status = "running", !.started = TRUE]]
        /\ req' = [req EXCEPT ![n] =
               [req[n] EXCEPT !.at = "fetch", !.page = 1, !.base = ToSet(InWindow(n, c)),
                              !.changed = FALSE, !.lost = FALSE]]
        /\ UNCHANGED <<revs, google, changes, ended, events, seen>>

\* Faulty variant: the first page passes for the whole calendar.
FetchPageFirst(n) ==
    LET c == Reading(n)  list == InWindow(n, c)
        page == SubSeq(list, 1, IF PageSize < Len(list) THEN PageSize ELSE Len(list))
    IN  /\ Step(n, "fetch")
        /\ Go(n, [req[n] EXCEPT !.at = "write", !.more = FALSE,
                     !.got = [j \in DOMAIN page |-> [occ |-> page[j], content |-> google[c].content[page[j]]]]])

\* Tokens continue by position; the last page carries none.
FetchPage(n) ==
    LET c == Reading(n)  list == InWindow(n, c)  from == (req[n].page - 1) * PageSize
        page == SubSeq(list, from + 1, IF from + PageSize < Len(list) THEN from + PageSize ELSE Len(list))
    IN  /\ Step(n, "fetch")
        /\ Go(n, [req[n] EXCEPT !.at = "write", !.more = from + PageSize < Len(list),
                     !.got = [j \in DOMAIN page |-> [occ |-> page[j], content |-> google[c].content[page[j]]]]])

\* Faulty variant: only the latest revision counts as a replay.
RecordedLatest(rows, content) ==
    IF rows # <<>> /\ Last(rows) = content THEN rows ELSE Append(rows, content)

\* record_event_revision: any earlier revision with the same content is reused.
Recorded(rows, content) ==
    IF content \in ToSet(rows) THEN rows ELSE Append(rows, content)

RevisionOf(rows, content) == CHOOSE k \in DOMAIN rows : rows[k] = content

PageOccurrences(n) == {req[n].got[j].occ : j \in DOMAIN req[n].got}

PageContent(n, o) == req[n].got[CHOOSE j \in DOMAIN req[n].got : req[n].got[j].occ = o].content

\* record_event_observation: uq_calendar_observations_run_occurrence.
Repeated(n) == PageOccurrences(n) \cap DOMAIN seen[n][Reading(n)] # {}

\* Where a refresh goes once a page is stored: the page ceiling comes after the write.
AfterPage(n) ==
    IF ~req[n].more THEN "seal" ELSE IF req[n].page < MaxPages THEN "fetch" ELSE "over"

\* The page's event revisions, observations and counters, in one transaction.
WritePage(n) ==
    LET c == Reading(n)  i == <<req[n].rev, c>>  here == PageOccurrences(n)
        rows == [o \in Occurrences |->
                    IF o \in here THEN Recorded(events[i][o], PageContent(n, o)) ELSE events[i][o]]
    IN  /\ Step(n, "write") /\ Fence(n) /\ ~Repeated(n)
        /\ events' = [events EXCEPT ![i] = rows]
        /\ seen' = [seen EXCEPT ![n][c] = [o \in DOMAIN @ \cup here |->
                       IF o \in here THEN RevisionOf(rows[o], PageContent(n, o)) ELSE @[o]]]
        /\ runs' = [runs EXCEPT ![n][c].items = @ + Cardinality(here)]
        /\ req' = [req EXCEPT ![n] =
               [req[n] EXCEPT !.at = AfterPage(n), !.got = <<>>, !.more = FALSE,
                              !.page = IF AfterPage(n) = "fetch" THEN @ + 1 ELSE @]]
        /\ UNCHANGED <<revs, google, changes, ended>>

\* mark_observation_evidence_complete: what was observed is what was counted.
Counted(n, c) == Cardinality(DOMAIN seen[n][c]) = runs[n][c].items

\* The transaction that ends a calendar, and its effect.
Sealed(n) ==
    LET c == Reading(n)  rest == Tail(req[n].todo)
    IN  /\ Step(n, "seal") /\ Counted(n, c)
        /\ runs' = [runs EXCEPT ![n][c] = [runs[n][c] EXCEPT !.status = "succeeded", !.evidence = TRUE]]
        /\ ended' = Append(ended, <<n, c>>)
        /\ req' = [req EXCEPT ![n] = [Fresh EXCEPT !.rev = req[n].rev, !.todo = rest,
                       !.at = IF rest = <<>> THEN "done" ELSE "begin"]]
        /\ UNCHANGED <<revs, google, changes, events, seen>>

\* Faulty variant: the account is not looked at again before the run succeeds.
SealUnfenced(n) == Sealed(n)

Seal(n) == Fence(n) /\ Sealed(n)

\* The worker is gone.
Left(n, place) == [Fresh EXCEPT !.at = place, !.rev = req[n].rev]

\* Faulty variant: no constraint.
SettleableAlways(n) == TRUE

\* ck_calendar_sync_completed: a run that ends has started.
Settleable(n) == \A c \in ToSet(req[n].todo) : runs[n][c].started

\* The transaction that fails the active run and the later ones: when one of them never
\* started the constraint rolls it back, and no run ends.
Fail(n, status) ==
    /\ req' = [req EXCEPT ![n] = Left(n, "done")]
    /\ IF Settleable(n)
       THEN /\ runs' = [runs EXCEPT ![n] = [c \in Calendars |->
                 IF c \in ToSet(req[n].todo)
                 THEN [runs[n][c] EXCEPT !.status = status, !.evidence = FALSE]
                 ELSE runs[n][c]]]
            /\ ended' = ended \o [j \in DOMAIN req[n].todo |-> <<n, req[n].todo[j]>>]
       ELSE UNCHANGED <<runs, ended>>
    /\ UNCHANGED <<revs, google, changes, events, seen>>

\* The boundary has no authorized credential of the account, or its refresh fails.
CredentialRefused(n) == Step(n, "claimed") /\ Fail(n, "failed")

Drift(n) ==
    /\ req[n].at \in {"claimed", "begin", "write", "seal"} /\ ~Fence(n)
    /\ Fail(n, "failed")

\* events() raises: timeout, rejection, redirect, an answer outside the schema.
TransportFails(n) == Step(n, "fetch") /\ Fail(n, "failed")

\* _normalized refuses an event, a page repeats an occurrence of an earlier one, or a
\* token comes back.
PageRefused(n) ==
    /\ (Step(n, "write") /\ req[n].got # <<>>) \/ Step(n, "over")
    /\ Fail(n, "failed")

\* _CEILING_CODES: pages, events, bytes, requests and the deadline.
HitCeiling(n) == req[n].at \in {"fetch", "write", "over"} /\ Fail(n, "incomplete")

\* The process ends with the request: nothing takes its runs up again.
Crash(n) ==
    /\ req[n].at \notin {"none", "done", "dead"}
    /\ Go(n, Left(n, "dead"))

RefreshStep(n) ==
    \/ Authorize(n) \/ BeginCalendar(n) \/ FetchPage(n) \/ WritePage(n) \/ Seal(n)
    \/ CredentialRefused(n) \/ Drift(n) \/ TransportFails(n) \/ PageRefused(n) \/ HitCeiling(n)
    \/ Crash(n)

Next ==
    \/ Configure
    \/ GoogleStep
    \/ \E n \in Refreshes : RefreshStep(n) \/ \E v \in 1 .. MaxRevision : Claim(n, v)

Spec == Init /\ [][Next]_calendarVars

-----------------------------------------------------------------------------
(* What Calendar External Context answers (query.py).                      *)

\* _eligible_condition.
Eligible(n, c) == runs[n][c].status = "succeeded" /\ runs[n][c].evidence /\ Counted(n, c)

\* The positions in `ended` of the eligible runs of identity i.
Evidence(i) ==
    {k \in DOMAIN ended : LET n == ended[k][1]  c == ended[k][2]
                          IN  <<req[n].rev, c>> = i /\ Eligible(n, c)}

Observed(k, o) == o \in DOMAIN seen[ended[k][1]][ended[k][2]]

Sightings(i, o) == {k \in Evidence(i) : Observed(k, o)}

\* _latest_positive_query: the revision the newest eligible run observed.
Projection(i, o) ==
    LET k == Max(Sightings(i, o))
    IN  events[i][o][seen[ended[k][1]][ended[k][2]][o]]

\* _covered.
Covered(k, content) == content \notin Floating /\ content \in Window[ended[k][1]]

\* effective_evidence: the newest run that observed the event or covered its projection.
EffectiveState(i, o) ==
    LET deciding == {k \in Evidence(i) : Observed(k, o) \/ Covered(k, Projection(i, o))}
    IN  IF Observed(Max(deciding), o) THEN "current" ELSE "stale"

Shown(i, o) ==
    IF Sightings(i, o) = {} THEN <<"unknown">> ELSE <<EffectiveState(i, o), Projection(i, o)>>

-----------------------------------------------------------------------------
(* Properties.                                                             *)

\* Rows and locals keep their shapes; a run that ended had started, as
\* ck_calendar_sync_completed has it, and a page number never passes the ceiling.
TypeOK ==
    /\ revs \in Seq(RevisionRows) /\ Len(revs) <= MaxRevision /\ changes \in 0 .. MaxChanges
    /\ runs \in [Refreshes -> [Calendars -> RunRows]]
    /\ \A n \in Refreshes, c \in Calendars :
          runs[n][c].status \in {"succeeded", "incomplete", "failed"} => runs[n][c].started
    /\ \A n \in Refreshes :
          /\ req[n].at \in Places /\ req[n].page \in 1 .. MaxPages
          /\ req[n].rev \in 0 .. Len(revs) /\ Len(req[n].got) <= PageSize
    /\ \A i \in Identities, o \in Occurrences : events[i][o] \in Seq(Contents)

\* The evidence a reader is answered from is whole: a run counts exactly what it observed,
\* every observation names a revision of the run's own calendar identity, a content has one
\* revision however often the event returns to it, and a run has evidence, and an end
\* on record, exactly when it may decide what is stale (record_event_revision,
\* record_event_observation, mark_observation_evidence_complete).
EvidenceSound ==
    /\ \A n \in Refreshes, c \in Calendars :
          /\ Counted(n, c)
          /\ \A o \in DOMAIN seen[n][c] : seen[n][c][o] \in DOMAIN events[<<req[n].rev, c>>][o]
          /\ runs[n][c].evidence <=> runs[n][c].status = "succeeded"
          /\ runs[n][c].status = "succeeded" => <<n, c>> \in ToSet(ended)
    /\ \A i \in Identities, o \in Occurrences : IsInjective(events[i][o])
    /\ IsInjective(ended)

\* The step that ends refresh n's run of identity i with success.
Succeeds(n, i) ==
    /\ Step(n, "seal") /\ i = <<req[n].rev, Reading(n)>>
    /\ runs'[n][i[2]].status = "succeeded"

\* A failed, incomplete, superseded or interrupted refresh infers nothing: what is shown of
\* an event changes only when a run of its own calendar identity succeeds, and then the
\* account is still the one the run was claimed for (refresh, _fence).
EvidenceFenced ==
    [][\A i \in Identities : (\E o \in Occurrences : Shown(i, o)' # Shown(i, o)) =>
          /\ i[1] = Len(revs) /\ Current.life = "enabled"
          /\ \E n \in Refreshes : Succeeds(n, i)]_calendarVars

\* A run that succeeds mirrors the calendar.  If Google lost and edited no event while the
\* run read it, an event turns stale only if the calendar did not list it when the reading
\* began; and if nothing changed at all, every listed event is shown current with the
\* provider's content, even a content it had before, and no other event of the window is
\* shown current, unless its coverage cannot be proved (refresh, effective_evidence).
MirrorsCalendar ==
    [][\A n \in Refreshes, i \in Identities, o \in Occurrences : Succeeds(n, i) =>
          /\ ~req[n].lost /\ Shown(i, o)[1] = "current" /\ Shown(i, o)'[1] = "stale" =>
                o \notin req[n].base
          /\ ~req[n].changed =>
                IF o \in req[n].base THEN Shown(i, o)' = <<"current", google[i[2]].content[o]>>
                ELSE Shown(i, o)'[1] = "current" =>
                        Shown(i, o)'[2] \in Floating \cup (Contents \ Window[n])]_calendarVars

\* A refresh whose request has been answered leaves no run open: "a later failure preserves
\* earlier page history but leaves the affected and unstarted runs incomplete/failed"
\* (checkpoint 102).
FailuresSettle ==
    \A n \in Refreshes : Step(n, "done") => \A c \in Calendars : runs[n][c].status \notin Active

=============================================================================
