--------------------------- MODULE CalendarProofs ---------------------------
(***************************************************************************)
(* Calendar evidence is whole, fenced and a mirror of the calendar, for    *)
(* any calendars, events, windows, page sizes, refreshes and revisions.    *)
(***************************************************************************)
EXTENDS Calendar, SequenceTheorems, FiniteSetTheorems, WellFoundedInduction, TLAPS

-----------------------------------------------------------------------------
(* The inductive invariant, in four layers, each resting on those before.  *)

PageRows == [occ : Occurrences, content : Contents]

ReqRows == [at : Places, rev : Nat, todo : Seq(Calendars), page : 1 .. MaxPages,
            got : Seq(PageRows), more : BOOLEAN, base : SUBSET Occurrences,
            changed : BOOLEAN, lost : BOOLEAN]

GoogleRows == [list : Seq(Occurrences), content : [Occurrences -> Contents]]

Observations == UNION {[S -> Nat] : S \in SUBSET Occurrences}

\* Every variable keeps its shape.
Shapes ==
    /\ revs \in Seq(RevisionRows) /\ Len(revs) <= MaxRevision /\ changes \in 0 .. MaxChanges
    /\ google \in [Calendars -> GoogleRows]
    /\ runs \in [Refreshes -> [Calendars -> RunRows]]
    /\ ended \in Seq(Refreshes \X Calendars)
    /\ events \in [Identities -> [Occurrences -> Seq(Contents)]]
    /\ seen \in [Refreshes -> [Calendars -> Observations]]
    /\ req \in [Refreshes -> ReqRows]
    /\ \A n \in Refreshes : req[n].rev <= Len(revs) /\ Len(req[n].got) <= PageSize

Final == {"succeeded", "incomplete", "failed"}

Working == Places \ {"none", "done", "dead"}

\* A worker inside a calendar, the first of those it has left.
Inside == {"fetch", "write", "over", "seal"}

\* A working refresh holds an enabled revision and the distinct calendars it has left.
Claimed(n) ==
    /\ req[n].todo # <<>> /\ IsInjective(req[n].todo)
    /\ req[n].rev \in DOMAIN revs /\ revs[req[n].rev].life = "enabled"

\* Nothing was written for run (n, c).
Untouched(n, c) == runs[n][c].items = 0 /\ DOMAIN seen[n][c] = {}

\* The calendars a working refresh has left hold active runs, and only the one it is
\* inside has begun.
Open(n) ==
    \A c \in ToSet(req[n].todo) :
        IF req[n].at \in Inside /\ c = Reading(n)
        THEN runs[n][c].status = "running" /\ runs[n][c].started
        ELSE runs[n][c].status = "claimed" /\ Untouched(n, c)

\* A refresh that was never made has written nothing; one that was keeps its revision.
Placed(n) ==
    /\ req[n].at # "none" => req[n].rev \in DOMAIN revs
    /\ req[n].at = "none" => \A c \in Calendars : runs[n][c] = NoRun /\ Untouched(n, c)
    /\ req[n].at \in Working => Claimed(n) /\ Open(n)

\* Where the workers stand, and that a run is over once it is on record as ended.
Control ==
    /\ \A n \in Refreshes : Placed(n)
    /\ \A n \in Refreshes, c \in Calendars : runs[n][c].status \in Final => runs[n][c].started
    /\ \A k \in DOMAIN ended : runs[ended[k][1]][ended[k][2]].status \in Final

\* What run (n, c) has observed, counted and recorded.
Sound(n, c) ==
    /\ IsFiniteSet(DOMAIN seen[n][c]) /\ Counted(n, c)
    /\ \A o \in DOMAIN seen[n][c] : seen[n][c][o] \in DOMAIN events[<<req[n].rev, c>>][o]
    /\ runs[n][c].evidence <=> runs[n][c].status = "succeeded"
    /\ runs[n][c].status = "succeeded" => <<n, c>> \in ToSet(ended)

Whole ==
    /\ \A n \in Refreshes, c \in Calendars : Sound(n, c)
    /\ \A i \in Identities, o \in Occurrences : IsInjective(events[i][o])
    /\ IsInjective(ended)

\* How many of the places come no later than j.
Rank(places, j) == Cardinality({i \in places : i <= j})

\* The occurrences of calendar c in the window of refresh n, and where they are listed.
InScope(n, c) == {o \in Occurrences : google[c].content[o] \in Window[n]}

PlacesIn(list, S) == {j \in DOMAIN list : list[j] \in S}

PlacesOf(n, c) == PlacesIn(google[c].list, InScope(n, c))

\* The events of the window before the page refresh n asks for.
From(n) == (req[n].page - 1) * PageSize

\* Calendar c lists o in the window of n after the first `from` events of the window.
ListedAfter(n, c, o, from) ==
    \E j \in PlacesOf(n, c) : google[c].list[j] = o /\ Rank(PlacesOf(n, c), j) > from

\* While the calendar has lost nothing, an event of the base was observed or is to come.
Ahead(n) ==
    LET c == Reading(n)
    IN  ~req[n].lost => \A o \in req[n].base :
            \/ o \in DOMAIN seen[n][c]
            \/ req[n].at = "fetch" /\ ListedAfter(n, c, o, From(n))
            \/ req[n].at = "write" /\ o \in PageOccurrences(n)
            \/ req[n].at = "write" /\ req[n].more /\ ListedAfter(n, c, o, From(n) + PageSize)

\* While the calendar has not changed, what was read of it is what it says.
Faithful(n) ==
    LET c == Reading(n)
    IN  ~req[n].changed =>
            /\ req[n].base = {o \in InScope(n, c) : o \in Listed(c)}
            /\ \A o \in DOMAIN seen[n][c] :
                  /\ o \in req[n].base
                  /\ events[<<req[n].rev, c>>][o][seen[n][c][o]] = google[c].content[o]
            /\ req[n].at = "write" => \A j \in DOMAIN req[n].got :
                  /\ req[n].got[j].occ \in req[n].base
                  /\ req[n].got[j].content = google[c].content[req[n].got[j].occ]

Follows(n) ==
    /\ req[n].lost => req[n].changed
    /\ req[n].at \in {"fetch", "write", "seal"} => Ahead(n) /\ Faithful(n)

Readings == \A n \in Refreshes : Follows(n)

-----------------------------------------------------------------------------
(* Facts about the operators the actions are built from.                   *)

LEMMA TableIsSequence ==
    ASSUME NEW T, NEW n \in Nat, NEW f \in [1 .. n -> T]
    PROVE  f \in Seq(T) /\ Len(f) = n /\ DOMAIN f = 1 .. n
  OBVIOUS

LEMMA FreshTyped == Fresh \in ReqRows /\ Len(Fresh.got) = 0
  BY CalendarAssumption, EmptySeq DEF Fresh, ReqRows, Places, PageRows

\* A row of the account has calendars, each once in the sequence a claim takes them in.
LEMMA ClaimOrder ==
    ASSUME NEW S \in (SUBSET Calendars) \ {{}}
    PROVE  /\ SetToSeq(S) \in Seq(Calendars) /\ SetToSeq(S) # <<>>
           /\ IsInjective(SetToSeq(S)) /\ ToSet(SetToSeq(S)) \subseteq S
  <1>1. IsFiniteSet(S)
    BY FS_Subset, CalendarAssumption
  <1>2. Cardinality(S) \in Nat /\ Cardinality(S) # 0
    BY <1>1, FS_CardinalityType, FS_EmptySet
  <1>3. \E f \in [1 .. Cardinality(S) -> S] : IsInjective(f)
    BY <1>1, FS_CardinalityType DEF ExistsBijection, Bijection, Injection
  <1>4. SetToSeq(S) \in [1 .. Cardinality(S) -> S] /\ IsInjective(SetToSeq(S))
    BY <1>3 DEF SetToSeq
  <1> QED  BY <1>2, <1>4 DEF ToSet

LEMMA ObservationTyped ==
    ASSUME NEW S \in SUBSET Occurrences, NEW f \in [S -> Nat]
    PROVE  f \in Observations
  BY DEF Observations

LEMMA ObservationShape ==
    ASSUME NEW f \in Observations
    PROVE  DOMAIN f \subseteq Occurrences /\ \A o \in DOMAIN f : f[o] \in Nat
  BY DEF Observations

\* The ranks of finitely many places lie between 1 and their number and grow with them.
LEMMA RankGrows ==
    ASSUME NEW places \in SUBSET Nat, IsFiniteSet(places), NEW j \in places
    PROVE  /\ Rank(places, j) \in 1 .. Cardinality(places)
           /\ \A i \in places : i < j => Rank(places, i) < Rank(places, j)
  <1> DEFINE upto(i) == {h \in places : h <= i}
  <1>1. \A i \in places : IsFiniteSet(upto(i)) /\ Cardinality(upto(i)) \in Nat
                           /\ Cardinality(upto(i)) <= Cardinality(places)
    BY FS_Subset, FS_CardinalityType
  <1>2. Cardinality(upto(j)) # 0
    <2>1. j \in upto(j)
      OBVIOUS
    <2> QED  BY <1>1, <2>1, FS_EmptySet
  <1>3. ASSUME NEW i \in places, i < j PROVE Cardinality(upto(i)) < Cardinality(upto(j))
    <2>0. i \in Nat /\ j \in Nat /\ \A h \in places : h \in Nat
      OBVIOUS
    <2>1. upto(i) \in SUBSET upto(j) /\ j \in upto(j) /\ j \notin upto(i)
      <3>1. \A h \in places : h <= i => h <= j
        BY <1>3, <2>0
      <3>2. \A h \in upto(i) : h \in upto(j)
        BY <3>1
      <3>3. j \in upto(j) /\ j \notin upto(i)
        BY <1>3, <2>0
      <3> QED  BY <3>2, <3>3
    <2>2. upto(i) # upto(j)
      BY <2>1
    <2> HIDE DEF upto
    <2>3. Cardinality(upto(i)) <= Cardinality(upto(j)) /\ Cardinality(upto(i)) # Cardinality(upto(j))
      BY <1>1, <2>1, <2>2, FS_Subset
    <2> QED  BY <1>1, <2>3
  <1>4. Cardinality(places) \in Nat
    BY FS_CardinalityType
  <1> QED  BY <1>1, <1>2, <1>3, <1>4 DEF Rank

\* There is exactly one place of each rank.
LEMMA NthPlace ==
    ASSUME NEW places \in SUBSET Nat, IsFiniteSet(places)
    PROVE  /\ \A k \in 1 .. Cardinality(places) :
                 Nth(places, k) \in places /\ Rank(places, Nth(places, k)) = k
           /\ \A j \in places : Nth(places, Rank(places, j)) = j
  <1> DEFINE N == Cardinality(places)
             rank == [j \in places |-> Rank(places, j)]
  <1>1. N \in Nat /\ IsFiniteSet(1 .. N) /\ Cardinality(1 .. N) = N
    BY FS_CardinalityType, FS_Interval
  <1>2. rank \in [places -> 1 .. N] /\ IsInjective(rank)
    <2>1. \A i, j \in places : i < j \/ j < i \/ i = j
      OBVIOUS
    <2>2. \A i, j \in places : rank[i] \in 1 .. N /\ (i < j => rank[i] < rank[j])
      BY RankGrows
    <2> QED  BY <1>1, <2>1, <2>2 DEF IsInjective
  <1>3. rank \in Injection(places, 1 .. N)
    BY <1>2 DEF Injection
  <1>4. rank \in Surjection(places, 1 .. N)
    BY <1>1, <1>3, FS_Injection
  <1>5. \A k \in 1 .. N : \E j \in places : Rank(places, j) = k
    BY <1>4 DEF Surjection
  <1>6. \A i, j \in places : Rank(places, i) = Rank(places, j) => i = j
    BY <1>2 DEF IsInjective
  <1> QED  BY <1>2, <1>5, <1>6 DEF Nth, Rank

\* What is kept of a list: its members in S, each at the rank of its place.
LEMMA KeptRanks ==
    ASSUME NEW T, NEW list \in Seq(T), NEW S
    PROVE  LET places == PlacesIn(list, S)
           IN
           /\ places \in SUBSET Nat /\ IsFiniteSet(places)
           /\ Kept(list, S) \in Seq(T) /\ Len(Kept(list, S)) = Cardinality(places)
           /\ \A j \in places : Rank(places, j) \in DOMAIN Kept(list, S)
                                /\ Kept(list, S)[Rank(places, j)] = list[j]
           /\ ToSet(Kept(list, S)) = {o \in S : o \in ToSet(list)}
  <1> DEFINE places == PlacesIn(list, S)
  <1>0. places = {j \in DOMAIN list : list[j] \in S}
    BY DEF PlacesIn
  <1> HIDE DEF places
  <1>1. DOMAIN list = 1 .. Len(list) /\ Len(list) \in Nat /\ IsFiniteSet(1 .. Len(list))
    BY LenProperties, FS_Interval
  <1>2. places \in SUBSET (1 .. Len(list))
    BY <1>0, <1>1
  <1>3. places \in SUBSET Nat /\ IsFiniteSet(places) /\ Cardinality(places) \in Nat
    <2>1. places \in SUBSET Nat
      BY <1>1, <1>2
    <2>2. IsFiniteSet(places)
      BY <1>1, <1>2, FS_Subset
    <2> QED  BY <2>1, <2>2, FS_CardinalityType
  <1> DEFINE N == Cardinality(places)
  <1>4. Kept(list, S) = [k \in 1 .. N |-> list[Nth(places, k)]]
    BY <1>0 DEF Kept
  <1>5. /\ \A k \in 1 .. N : Nth(places, k) \in places
        /\ \A j \in places : Rank(places, j) \in 1 .. N /\ Nth(places, Rank(places, j)) = j
    BY <1>3, NthPlace, RankGrows
  <1>6. \A j \in places : list[j] \in T /\ list[j] \in S /\ list[j] \in ToSet(list)
    BY <1>0, <1>1, ElementOfSeq DEF ToSet
  <1>7. Kept(list, S) \in [1 .. N -> T]
    <2>1. \A k \in 1 .. N : list[Nth(places, k)] \in T
      BY <1>5, <1>6
    <2> QED  BY <1>4, <2>1
  <1>8. Kept(list, S) \in Seq(T) /\ Len(Kept(list, S)) = N
    BY <1>3, <1>7, TableIsSequence
  <1>9. \A j \in places : Rank(places, j) \in DOMAIN Kept(list, S)
                          /\ Kept(list, S)[Rank(places, j)] = list[j]
    BY <1>4, <1>5
  <1>10. ToSet(Kept(list, S)) = {o \in S : o \in ToSet(list)}
    <2>1. ASSUME NEW o \in ToSet(Kept(list, S)) PROVE o \in S /\ o \in ToSet(list)
      BY <1>4, <1>5, <1>6 DEF ToSet
    <2>2. ASSUME NEW o \in S, o \in ToSet(list) PROVE o \in ToSet(Kept(list, S))
      <3>1. PICK j \in places : list[j] = o
        BY <1>0, <2>2 DEF ToSet
      <3> QED  BY <1>9, <3>1 DEF ToSet
    <2> QED  BY <2>1, <2>2
  <1> QED  BY <1>3, <1>8, <1>9, <1>10 DEF places

\* The page of a list after `from`, and its rows.
PageAfter(list, from) ==
    SubSeq(list, from + 1, IF from + PageSize < Len(list) THEN from + PageSize ELSE Len(list))

RowsOf(page, content) == [j \in DOMAIN page |-> [occ |-> page[j], content |-> content[page[j]]]]

\* A page of a list: at most PageSize rows, one for every position after `from` it reaches.
LEMMA PageReaches ==
    ASSUME NEW list \in Seq(Occurrences), NEW content \in [Occurrences -> Contents], NEW from \in Nat
    PROVE  LET got == RowsOf(PageAfter(list, from), content)
           IN
           /\ got \in Seq(PageRows) /\ Len(got) <= PageSize
           /\ \A j \in DOMAIN got : got[j].occ \in ToSet(list) /\ got[j].content = content[got[j].occ]
           /\ \A p \in DOMAIN list : from < p /\ p <= from + PageSize =>
                  \E j \in DOMAIN got : got[j].occ = list[p]
           /\ Len(list) > from + PageSize \/ \A p \in DOMAIN list : p <= from + PageSize
  <1> DEFINE upto == IF from + PageSize < Len(list) THEN from + PageSize ELSE Len(list)
             page == PageAfter(list, from)
             got == RowsOf(page, content)
  <1>0. /\ page = SubSeq(list, from + 1, upto)
        /\ got = [j \in DOMAIN page |-> [occ |-> page[j], content |-> content[page[j]]]]
    BY DEF PageAfter, RowsOf
  <1> HIDE DEF page, got
  <1>1. PICK L \in Nat : L = Len(list)
    BY LenProperties
  <1>2. PICK P \in Nat : P = PageSize
    BY CalendarAssumption
  <1>3. DOMAIN list = 1 .. L /\ \A p \in 1 .. L : list[p] \in Occurrences /\ list[p] \in ToSet(list)
    BY <1>1, LenProperties, ElementOfSeq DEF ToSet
  <1>4. PICK u \in Nat : u = upto /\ u = IF from + P < L THEN from + P ELSE L
    <2>1. (IF from + P < L THEN from + P ELSE L) \in Nat
      OBVIOUS
    <2>2. upto = IF from + P < L THEN from + P ELSE L
      BY <1>1, <1>2
    <2> QED  BY <2>1, <2>2
  <1> HIDE DEF upto
  <1>5. PICK size \in Nat : size = IF from + 1 <= u THEN u - from ELSE 0
    <2>1. (IF from + 1 <= u THEN u - from ELSE 0) \in Nat
      OBVIOUS
    <2> QED  BY <2>1
  <1>6. size <= P /\ \A j \in 1 .. size : from + j \in 1 .. L
    BY <1>4, <1>5
  <1>7. page = [j \in 1 .. size |-> list[from + j]]
    <2>1. page = [j \in 1 .. (1 + u - (from + 1)) |-> list[(from + 1) + j - 1]]
      BY <1>0, <1>4
    <2>2. 1 .. size = 1 .. (1 + u - (from + 1))
      BY <1>5
    <2>3. \A j \in 1 .. size : (from + 1) + j - 1 = from + j
      OBVIOUS
    <2> QED  BY <2>1, <2>2, <2>3
  <1>8. DOMAIN page = 1 .. size /\ \A j \in 1 .. size : page[j] = list[from + j]
    BY <1>7
  <1>9. /\ DOMAIN got = 1 .. size
        /\ got = [j \in 1 .. size |-> [occ |-> list[from + j], content |-> content[list[from + j]]]]
    BY <1>0, <1>8
  <1>10. \A j \in 1 .. size : [occ |-> list[from + j], content |-> content[list[from + j]]] \in PageRows
    BY <1>3, <1>6 DEF PageRows
  <1>11. got \in [1 .. size -> PageRows]
    BY <1>9, <1>10
  <1>12. got \in Seq(PageRows) /\ Len(got) = size
    BY <1>11, TableIsSequence
  <1>13. \A j \in 1 .. size : /\ got[j].occ = list[from + j] /\ got[j].content = content[got[j].occ]
                              /\ got[j].occ \in ToSet(list)
    BY <1>3, <1>6, <1>9
  <1>14. ASSUME NEW p \in 1 .. L, from < p, p <= from + P
         PROVE  \E j \in 1 .. size : got[j].occ = list[p]
    <2>1. p - from \in 1 .. size /\ from + (p - from) = p
      BY <1>4, <1>5, <1>14
    <2> QED  BY <1>13, <2>1
  <1>15. L > from + P \/ \A p \in 1 .. L : p <= from + P
    OBVIOUS
  <1> QED  BY <1>1, <1>2, <1>3, <1>6, <1>9, <1>12, <1>13, <1>14, <1>15 DEF got, page

-----------------------------------------------------------------------------
(* First layer: shapes.                                                    *)

LEMMA ShapesInit ==
    ASSUME Init
    PROVE  Shapes
  <1>1. Lists \subseteq Seq(Occurrences)
    <2> SUFFICES ASSUME NEW l \in Lists PROVE l \in Seq(Occurrences)
      OBVIOUS
    <2>1. PICK n \in 0 .. Cardinality(Occurrences) : l \in [1 .. n -> Occurrences]
      BY DEF Lists
    <2>2. n \in Nat
      OBVIOUS
    <2> QED  BY <2>1, <2>2
  <1>2. google \in [Calendars -> GoogleRows]
    <2>1. PICK start \in Contents :
              google \in [Calendars -> [list : Lists, content : {[o \in Occurrences |-> start]}]]
      BY DEF Init
    <2>2. [o \in Occurrences |-> start] \in [Occurrences -> Contents]
      OBVIOUS
    <2> QED  BY <1>1, <2>1, <2>2 DEF GoogleRows
  <1>3. runs \in [Refreshes -> [Calendars -> RunRows]]
    BY DEF Init, NoRun, RunRows
  <1>4. events \in [Identities -> [Occurrences -> Seq(Contents)]]
    BY EmptySeq DEF Init
  <1>5. seen \in [Refreshes -> [Calendars -> Observations]]
    <2>1. <<>> \in [{} -> Nat]
      OBVIOUS
    <2>2. <<>> \in Observations
      BY <2>1, ObservationTyped
    <2> QED  BY <2>2 DEF Init
  <1>6. /\ req \in [Refreshes -> ReqRows]
        /\ \A n \in Refreshes : req[n].rev = 0 /\ Len(req[n].got) = 0
    BY FreshTyped DEF Init, Fresh
  <1>7. /\ revs \in Seq(RevisionRows) /\ Len(revs) = 0 /\ changes \in 0 .. MaxChanges
        /\ ended \in Seq(Refreshes \X Calendars)
    BY EmptySeq, CalendarAssumption DEF Init
  <1> QED  BY <1>2, <1>3, <1>4, <1>5, <1>6, <1>7, CalendarAssumption DEF Shapes

\* A step that only moves a worker.
LEMMA GoShapes ==
    ASSUME Shapes, NEW n \in Refreshes, NEW local \in ReqRows,
           local.rev <= Len(revs), Len(local.got) <= PageSize, Go(n, local)
    PROVE  Shapes'
  BY DEF Shapes, Go

\* A configuration appends one row.
LEMMA ConfigureAppends ==
    ASSUME Shapes, Configure
    PROVE  \E row \in RevisionRows : AppendRevision(row)
  <1>1. CASE CreateAccount
    BY <1>1 DEF CreateAccount
  <1>2. CASE UpdateAccount
    BY <1>2 DEF UpdateAccount
  <1>3. CASE Revoke
    <2>1. Current \in RevisionRows
      BY <1>3, LenProperties, EmptySeq DEF Shapes, Revoke, Current, Last
    <2>2. [Current EXCEPT !.life = "revoked"] \in RevisionRows
      BY <2>1 DEF RevisionRows
    <2> QED  BY <1>3, <2>2 DEF Revoke
  <1>4. ASSUME NEW t \in {"enabled", "disabled"}, SetLifecycle(t)
        PROVE  \E row \in RevisionRows : AppendRevision(row)
    <2>1. Current \in RevisionRows
      BY <1>4, LenProperties, EmptySeq DEF Shapes, SetLifecycle, Current, Last
    <2>2. [Current EXCEPT !.life = t] \in RevisionRows
      BY <2>1 DEF RevisionRows
    <2> QED  BY <1>4, <2>2 DEF SetLifecycle
  <1> QED  BY <1>1, <1>2, <1>3, <1>4 DEF Configure

LEMMA ConfigureShapes ==
    ASSUME Shapes, Configure
    PROVE  Shapes'
  <1>1. PICK row \in RevisionRows : AppendRevision(row)
    BY ConfigureAppends
  <1>2. revs' \in Seq(RevisionRows) /\ Len(revs') = Len(revs) + 1 /\ Len(revs') <= MaxRevision
    BY <1>1, AppendProperties, LenProperties, CalendarAssumption DEF Shapes, AppendRevision
  <1>3. \A n \in Refreshes : req[n].rev \in Nat /\ Len(revs) \in Nat
    BY LenProperties DEF Shapes, ReqRows
  <1> QED  BY <1>1, <1>2, <1>3 DEF Shapes, AppendRevision

LEMMA GoogleShapes ==
    ASSUME Shapes, NEW c \in Calendars, NEW o \in Occurrences,
           \/ AddEvent(c, o) \/ RemoveEvent(c, o)
           \/ \E content \in Contents : EditEvent(c, o, content)
    PROVE  Shapes'
  <1>1. google[c] \in GoogleRows /\ google[c].list \in Seq(Occurrences)
        /\ google[c].content \in [Occurrences -> Contents]
    BY DEF Shapes, GoogleRows
  <1>2. /\ google' \in [Calendars -> GoogleRows]
        /\ Change(c, FALSE) \/ Change(c, TRUE)
    <2>1. CASE AddEvent(c, o)
      <3>1. <<o>> \o google[c].list \in Seq(Occurrences) /\ Append(google[c].list, o) \in Seq(Occurrences)
        BY <1>1, AppendProperties, ConcatProperties
      <3>2. PICK list \in Seq(Occurrences) : google' = [google EXCEPT ![c].list = list]
        <4>1. CASE google' = [google EXCEPT ![c].list = <<o>> \o @]
          BY <1>1, <3>1, <4>1
        <4>2. CASE google' = [google EXCEPT ![c].list = Append(@, o)]
          BY <1>1, <3>1, <4>2
        <4> QED  BY <2>1, <4>1, <4>2 DEF AddEvent
      <3> QED  BY <1>1, <2>1, <3>2 DEF AddEvent, Shapes, GoogleRows
    <2>2. CASE RemoveEvent(c, o)
      <3>1. PICK j \in DOMAIN google[c].list :
                google' = [google EXCEPT ![c].list = RemoveAt(@, j)]
        BY <2>2 DEF RemoveEvent
      <3>2. RemoveAt(google[c].list, j) \in Seq(Occurrences)
        <4>1. Len(google[c].list) \in Nat /\ j \in 1 .. Len(google[c].list)
          BY <1>1, LenProperties
        <4>2. SubSeq(google[c].list, 1, j - 1) \in Seq(Occurrences)
              /\ SubSeq(google[c].list, j + 1, Len(google[c].list)) \in Seq(Occurrences)
          BY <1>1, <4>1, SubSeqProperties
        <4> QED  BY <4>2, ConcatProperties DEF RemoveAt
      <3> QED  BY <1>1, <2>2, <3>1, <3>2 DEF RemoveEvent, Shapes, GoogleRows
    <2>3. ASSUME NEW content \in Contents, EditEvent(c, o, content)
          PROVE  google' \in [Calendars -> GoogleRows] /\ Change(c, TRUE)
      BY <1>1, <2>3 DEF EditEvent, Shapes, GoogleRows
    <2> QED  BY <2>1, <2>2, <2>3
  <1>3. PICK loses \in BOOLEAN : Change(c, loses)
    BY <1>2
  <1>4. changes' \in 0 .. MaxChanges
    <2>1. changes < MaxChanges /\ changes' = changes + 1
      BY <1>3 DEF Change
    <2>2. changes \in 0 .. MaxChanges
      BY DEF Shapes
    <2> QED  BY <2>1, <2>2, CalendarAssumption
  <1>5. /\ req' \in [Refreshes -> ReqRows]
        /\ \A n \in Refreshes : req'[n].rev = req[n].rev /\ req'[n].got = req[n].got
    <2> SUFFICES ASSUME NEW n \in Refreshes
                 PROVE  /\ req'[n] \in ReqRows /\ req'[n].rev = req[n].rev
                        /\ req'[n].got = req[n].got
      BY <1>3 DEF Change
    <2>1. req[n] \in ReqRows
      BY DEF Shapes
    <2> QED  BY <1>3, <2>1 DEF Change, ReqRows
  <1> QED  BY <1>2, <1>3, <1>4, <1>5 DEF Shapes, Change

LEMMA ClaimShapes ==
    ASSUME Shapes, NEW n \in Refreshes, NEW v \in 1 .. MaxRevision, Claim(n, v)
    PROVE  Shapes'
  <1>1. revs[v] \in RevisionRows /\ v \in Nat /\ v <= Len(revs)
    BY LenProperties, ElementOfSeq DEF Claim, Shapes
  <1>2. SetToSeq(revs[v].cals) \in Seq(Calendars)
    BY <1>1, ClaimOrder DEF RevisionRows
  <1> DEFINE local == [Fresh EXCEPT !.at = "claimed", !.rev = v, !.todo = SetToSeq(revs[v].cals)]
  <1>3. local \in ReqRows /\ local.rev = v /\ local.got = <<>>
    BY <1>1, <1>2, FreshTyped DEF ReqRows, Fresh, Places
  <1>4. [c \in Calendars |-> IF c \in revs[v].cals THEN [NoRun EXCEPT !.status = "claimed"] ELSE NoRun]
        \in [Calendars -> RunRows]
    BY DEF NoRun, RunRows
  <1>5. Len(<<>>) = 0
    BY EmptySeq
  <1>6. PageSize \in Nat
    BY CalendarAssumption
  <1> HIDE DEF local
  <1>7. req' = [req EXCEPT ![n] = local]
    BY DEF Claim, local
  <1>8. req' \in [Refreshes -> ReqRows]
        /\ \A m \in Refreshes : req'[m].rev <= Len(revs) /\ Len(req'[m].got) <= PageSize
    BY <1>1, <1>3, <1>5, <1>6, <1>7 DEF Shapes
  <1> QED  BY <1>4, <1>8 DEF Shapes, Claim

\* What a working refresh holds.
LEMMA ReadingTyped ==
    ASSUME Shapes, Control, NEW n \in Refreshes, req[n].at \in Working
    PROVE  /\ req[n] \in ReqRows /\ req[n].todo \in Seq(Calendars) /\ req[n].todo # <<>>
           /\ IsInjective(req[n].todo)
           /\ Reading(n) \in Calendars /\ Reading(n) = req[n].todo[1] /\ 1 \in DOMAIN req[n].todo
           /\ Tail(req[n].todo) \in Seq(Calendars)
           /\ <<req[n].rev, Reading(n)>> \in Identities
           /\ Reading(n) \in ToSet(req[n].todo) /\ ToSet(req[n].todo) \subseteq Calendars
           /\ Claimed(n) /\ Open(n)
  <1>1. /\ req[n] \in ReqRows /\ req[n].todo \in Seq(Calendars) /\ req[n].todo # <<>>
        /\ Claimed(n) /\ Open(n)
    BY DEF Shapes, Control, Placed, Claimed, ReqRows
  <1>2. /\ Head(req[n].todo) \in Calendars /\ Tail(req[n].todo) \in Seq(Calendars)
        /\ Head(req[n].todo) = req[n].todo[1] /\ 1 \in DOMAIN req[n].todo
    BY <1>1, HeadTailProperties, LenProperties, EmptySeq
  <1>3. ToSet(req[n].todo) \subseteq Calendars /\ Head(req[n].todo) \in ToSet(req[n].todo)
    BY <1>1, <1>2, ElementOfSeq, LenProperties DEF ToSet
  <1>4. req[n].rev \in 1 .. Len(revs) /\ Len(revs) \in Nat /\ Len(revs) <= MaxRevision
    BY <1>1, LenProperties DEF Claimed, Shapes
  <1>5. req[n].rev \in 1 .. MaxRevision
    BY <1>4, CalendarAssumption
  <1> QED  BY <1>1, <1>2, <1>3, <1>5 DEF Claimed, Reading, Identities

LEMMA WindowTyped ==
    ASSUME Shapes, NEW n \in Refreshes, NEW c \in Calendars
    PROVE  /\ google[c].list \in Seq(Occurrences) /\ google[c].content \in [Occurrences -> Contents]
           /\ InWindow(n, c) \in Seq(Occurrences)
           /\ ToSet(InWindow(n, c)) = {o \in InScope(n, c) : o \in Listed(c)}
           /\ ToSet(InWindow(n, c)) \subseteq Occurrences
           /\ \A j \in PlacesOf(n, c) : /\ Rank(PlacesOf(n, c), j) \in DOMAIN InWindow(n, c)
                                        /\ InWindow(n, c)[Rank(PlacesOf(n, c), j)] = google[c].list[j]
  <1>1. google[c].list \in Seq(Occurrences) /\ google[c].content \in [Occurrences -> Contents]
    BY DEF Shapes, GoogleRows
  <1>2. InWindow(n, c) = Kept(google[c].list, InScope(n, c))
    BY DEF InWindow, InScope
  <1>3. InScope(n, c) \subseteq Occurrences
    BY DEF InScope
  <1>5. /\ Kept(google[c].list, InScope(n, c)) \in Seq(Occurrences)
        /\ \A j \in PlacesOf(n, c) :
               /\ Rank(PlacesOf(n, c), j) \in DOMAIN Kept(google[c].list, InScope(n, c))
               /\ Kept(google[c].list, InScope(n, c))[Rank(PlacesOf(n, c), j)] = google[c].list[j]
        /\ ToSet(Kept(google[c].list, InScope(n, c))) = {o \in InScope(n, c) : o \in ToSet(google[c].list)}
    BY <1>1, KeptRanks DEF PlacesOf
  <1> QED  BY <1>1, <1>2, <1>3, <1>5 DEF Listed

LEMMA BeginShapes ==
    ASSUME Shapes, Control, NEW n \in Refreshes, BeginCalendar(n)
    PROVE  Shapes'
  <1> DEFINE c == Reading(n)
  <1>1. req[n].at \in Working
    BY DEF BeginCalendar, Step, Working, Places
  <1>2. req[n] \in ReqRows /\ c \in Calendars
    BY <1>1, ReadingTyped
  <1>3. ToSet(InWindow(n, c)) \in SUBSET Occurrences
    BY <1>2, WindowTyped
  <1>4. runs[n][c] \in RunRows
    BY <1>2 DEF Shapes
  <1> HIDE DEF c
  <1>5. [runs[n][c] EXCEPT !.status = "running", !.started = TRUE] \in RunRows
    BY <1>4 DEF RunRows
  <1>6. runs' \in [Refreshes -> [Calendars -> RunRows]]
    BY <1>2, <1>5 DEF BeginCalendar, c, Shapes
  <1> DEFINE local == [req[n] EXCEPT !.at = "fetch", !.page = 1, !.base = ToSet(InWindow(n, c)),
                                     !.changed = FALSE, !.lost = FALSE]
  <1>7. local \in ReqRows /\ local.rev = req[n].rev /\ local.got = req[n].got
    <2>1. PICK row \in ReqRows : row = req[n]
      BY <1>2
    <2>2. PICK base \in SUBSET Occurrences : base = ToSet(InWindow(n, c))
      BY <1>3
    <2>3. 1 \in 1 .. MaxPages
      BY CalendarAssumption
    <2>4. local = [row EXCEPT !.at = "fetch", !.page = 1, !.base = base, !.changed = FALSE, !.lost = FALSE]
      BY <2>1, <2>2
    <2> HIDE DEF local
    <2>5. /\ [row EXCEPT !.at = "fetch", !.page = 1, !.base = base, !.changed = FALSE, !.lost = FALSE] \in ReqRows
          /\ [row EXCEPT !.at = "fetch", !.page = 1, !.base = base, !.changed = FALSE, !.lost = FALSE].rev = row.rev
          /\ [row EXCEPT !.at = "fetch", !.page = 1, !.base = base, !.changed = FALSE, !.lost = FALSE].got = row.got
      BY <2>3 DEF ReqRows, Places
    <2>6. local \in ReqRows
      BY <2>4, <2>5
    <2>7. local.rev = req[n].rev /\ local.got = req[n].got
      BY <2>1, <2>4, <2>5
    <2> QED  BY <2>6, <2>7 DEF local
  <1> HIDE DEF local
  <1>8. req' = [req EXCEPT ![n] = local]
    BY DEF BeginCalendar, c, local
  <1>9. req' \in [Refreshes -> ReqRows]
        /\ \A m \in Refreshes : req'[m].rev <= Len(revs) /\ Len(req'[m].got) <= PageSize
    BY <1>7, <1>8 DEF Shapes
  <1> QED  BY <1>6, <1>9 DEF BeginCalendar, Shapes

\* The page a refresh receives.
LEMMA FetchedPage ==
    ASSUME Shapes, Control, NEW n \in Refreshes, FetchPage(n)
    PROVE  LET c == Reading(n)  got == req'[n].got  list == InWindow(n, c)
           IN  /\ From(n) \in Nat /\ got \in Seq(PageRows) /\ Len(got) <= PageSize
               /\ \A j \in DOMAIN got : /\ got[j].occ \in ToSet(list)
                                        /\ got[j].content = google[c].content[got[j].occ]
               /\ \A p \in DOMAIN list : p > From(n) =>
                      \/ \E j \in DOMAIN got : got[j].occ = list[p]
                      \/ req'[n].more /\ p > From(n) + PageSize
               /\ req' = [req EXCEPT ![n] = [req[n] EXCEPT !.at = "write", !.more = req'[n].more, !.got = got]]
               /\ req'[n].more \in BOOLEAN
  <1> DEFINE c == Reading(n)
             list == InWindow(n, c)
             got == RowsOf(PageAfter(list, From(n)), google[c].content)
             more == From(n) + PageSize < Len(list)
  <1>1. req[n].at \in Working
    BY DEF FetchPage, Step, Working, Places
  <1>2. req[n] \in ReqRows /\ c \in Calendars
    BY <1>1, ReadingTyped
  <1>3. google[c].content \in [Occurrences -> Contents] /\ list \in Seq(Occurrences)
    BY <1>2, WindowTyped
  <1>4. From(n) \in Nat
    <2>1. PICK p \in Nat : p = req[n].page - 1
      BY <1>2 DEF ReqRows
    <2>2. p * PageSize \in Nat
      BY CalendarAssumption
    <2> QED  BY <2>1, <2>2 DEF From
  <1>5. req' = [req EXCEPT ![n] = [req[n] EXCEPT !.at = "write", !.more = more, !.got = got]]
    BY DEF FetchPage, Go, From, RowsOf, PageAfter
  <1> HIDE DEF c, list, got, more
  <1>6. req'[n].got = got /\ req'[n].more = more
    BY <1>2, <1>5 DEF Shapes, ReqRows
  <1>7. /\ got \in Seq(PageRows) /\ Len(got) <= PageSize
        /\ \A j \in DOMAIN got : got[j].occ \in ToSet(list) /\ got[j].content = google[c].content[got[j].occ]
        /\ \A p \in DOMAIN list : From(n) < p /\ p <= From(n) + PageSize =>
               \E j \in DOMAIN got : got[j].occ = list[p]
        /\ Len(list) > From(n) + PageSize \/ \A p \in DOMAIN list : p <= From(n) + PageSize
    BY <1>3, <1>4, PageReaches DEF got
  <1>8. PICK last \in Nat : last = From(n) + PageSize
    BY <1>4, CalendarAssumption
  <1>9. Len(list) \in Nat /\ \A p \in DOMAIN list : p \in Nat
    BY <1>3, LenProperties
  <1>10. more \in BOOLEAN /\ (more <=> last < Len(list))
    BY <1>8 DEF more
  <1>11. ASSUME NEW p \in DOMAIN list, p > From(n)
         PROVE  (\E j \in DOMAIN got : got[j].occ = list[p]) \/ (more /\ p > From(n) + PageSize)
    <2>1. CASE p <= last
      BY <1>4, <1>7, <1>8, <1>9, <1>11, <2>1
    <2>2. CASE p > last
      BY <1>7, <1>8, <1>9, <1>10, <2>2
    <2> QED  BY <1>9, <2>1, <2>2
  <1>12. /\ From(n) \in Nat /\ req'[n].got \in Seq(PageRows) /\ Len(req'[n].got) <= PageSize
         /\ \A j \in DOMAIN req'[n].got : /\ req'[n].got[j].occ \in ToSet(list)
                                          /\ req'[n].got[j].content = google[c].content[req'[n].got[j].occ]
         /\ \A p \in DOMAIN list : p > From(n) =>
                \/ \E j \in DOMAIN req'[n].got : req'[n].got[j].occ = list[p]
                \/ req'[n].more /\ p > From(n) + PageSize
    BY <1>4, <1>6, <1>7, <1>11
  <1>13. /\ req' = [req EXCEPT ![n] = [req[n] EXCEPT !.at = "write", !.more = req'[n].more, !.got = req'[n].got]]
         /\ req'[n].more \in BOOLEAN
    BY <1>5, <1>6, <1>10
  <1> QED  BY <1>12, <1>13 DEF c, list

LEMMA FetchShapes ==
    ASSUME Shapes, Control, NEW n \in Refreshes, FetchPage(n)
    PROVE  Shapes'
  <1>1. /\ req'[n].got \in Seq(PageRows) /\ Len(req'[n].got) <= PageSize /\ req'[n].more \in BOOLEAN
        /\ req' = [req EXCEPT ![n] = [req[n] EXCEPT !.at = "write", !.more = req'[n].more, !.got = req'[n].got]]
    BY FetchedPage
  <1>2. PICK got, more : /\ got \in Seq(PageRows) /\ Len(got) <= PageSize /\ more \in BOOLEAN
                         /\ req' = [req EXCEPT ![n] = [req[n] EXCEPT !.at = "write", !.more = more, !.got = got]]
    BY <1>1
  <1> DEFINE local == [req[n] EXCEPT !.at = "write", !.more = more, !.got = got]
  <1>3. local \in ReqRows /\ local.rev = req[n].rev /\ local.got = got
    BY <1>2 DEF Shapes, ReqRows, Places
  <1> HIDE DEF local
  <1>4. Go(n, local)
    BY <1>2 DEF FetchPage, Go, local
  <1>5. local.rev <= Len(revs) /\ Len(local.got) <= PageSize
    BY <1>2, <1>3 DEF Shapes
  <1> QED  BY <1>3, <1>4, <1>5, GoShapes

\* What WritePage stores: the rows of the identity and the observations of the run.
Here(n) == PageOccurrences(n)

PageRowsOf(n) ==
    LET i == <<req[n].rev, Reading(n)>>
    IN  [o \in Occurrences |-> IF o \in Here(n) THEN Recorded(events[i][o], PageContent(n, o)) ELSE events[i][o]]

SeenAfter(n) ==
    LET c == Reading(n)
    IN  [o \in DOMAIN seen[n][c] \cup Here(n) |->
            IF o \in Here(n) THEN RevisionOf(PageRowsOf(n)[o], PageContent(n, o)) ELSE seen[n][c][o]]

\* The rows of an occurrence after a page: what was there stays, and what the page says
\* of it is among them, at the number its observation names.
LEMMA RecordedRows ==
    ASSUME NEW rows \in Seq(Contents), NEW content \in Contents
    PROVE  /\ Recorded(rows, content) \in Seq(Contents)
           /\ \A k \in DOMAIN rows : k \in DOMAIN Recorded(rows, content) /\ Recorded(rows, content)[k] = rows[k]
           /\ RevisionOf(Recorded(rows, content), content) \in DOMAIN Recorded(rows, content)
           /\ RevisionOf(Recorded(rows, content), content) \in Nat
           /\ Recorded(rows, content)[RevisionOf(Recorded(rows, content), content)] = content
           /\ IsInjective(rows) => IsInjective(Recorded(rows, content))
  <1>1. /\ Recorded(rows, content) \in Seq(Contents)
        /\ \A k \in DOMAIN rows : k \in DOMAIN Recorded(rows, content) /\ Recorded(rows, content)[k] = rows[k]
        /\ \E k \in DOMAIN Recorded(rows, content) : Recorded(rows, content)[k] = content
        /\ IsInjective(rows) => IsInjective(Recorded(rows, content))
    <2>1. CASE content \in ToSet(rows)
      BY <2>1 DEF Recorded, ToSet
    <2>2. CASE content \notin ToSet(rows)
      <3>1. /\ Append(rows, content) \in Seq(Contents) /\ Len(rows) \in Nat
            /\ DOMAIN rows = 1 .. Len(rows) /\ DOMAIN Append(rows, content) = 1 .. Len(rows) + 1
            /\ \A k \in 1 .. Len(rows) : Append(rows, content)[k] = rows[k]
            /\ Append(rows, content)[Len(rows) + 1] = content
        BY AppendProperties, LenProperties
      <3>2. \A k \in 1 .. Len(rows) : rows[k] # content
        BY <2>2, <3>1 DEF ToSet
      <3>3. IsInjective(rows) => IsInjective(Append(rows, content))
        BY <3>1, <3>2 DEF IsInjective
      <3>4. Recorded(rows, content) = Append(rows, content)
        BY <2>2 DEF Recorded
      <3> QED  BY <3>1, <3>3, <3>4
    <2> QED  BY <2>1, <2>2
  <1>2. /\ RevisionOf(Recorded(rows, content), content) \in DOMAIN Recorded(rows, content)
        /\ Recorded(rows, content)[RevisionOf(Recorded(rows, content), content)] = content
    BY <1>1 DEF RevisionOf
  <1>3. \A k \in DOMAIN Recorded(rows, content) : k \in Nat
    BY <1>1, LenProperties
  <1> QED  BY <1>1, <1>2, <1>3

\* A page is finite, and what it says of an occurrence is the content of one of its rows.
LEMMA PageTyped ==
    ASSUME Shapes, NEW n \in Refreshes
    PROVE  /\ Here(n) \subseteq Occurrences /\ IsFiniteSet(Here(n))
           /\ \A o \in Here(n) : /\ PageContent(n, o) \in Contents
                                 /\ \E j \in DOMAIN req[n].got : /\ req[n].got[j].occ = o
                                                               /\ req[n].got[j].content = PageContent(n, o)
  <1>1. PICK got \in Seq(PageRows) : got = req[n].got
    BY DEF Shapes, ReqRows
  <1>2. /\ DOMAIN got = 1 .. Len(got) /\ Len(got) \in Nat
        /\ \A j \in 1 .. Len(got) : got[j].occ \in Occurrences /\ got[j].content \in Contents
    <2>1. DOMAIN got = 1 .. Len(got) /\ Len(got) \in Nat /\ \A j \in 1 .. Len(got) : got[j] \in PageRows
      BY LenProperties, ElementOfSeq
    <2> QED  BY <2>1 DEF PageRows
  <1>3. Here(n) = {got[j].occ : j \in 1 .. Len(got)}
    BY <1>1, <1>2 DEF Here, PageOccurrences
  <1>4. IsFiniteSet(Here(n))
    <2> DEFINE f == [j \in 1 .. Len(got) |-> got[j].occ]
    <2>1. f \in Surjection(1 .. Len(got), Here(n))
      BY <1>3 DEF Surjection
    <2>2. IsFiniteSet(1 .. Len(got))
      BY <1>2, FS_Interval
    <2> QED  BY <2>1, <2>2, FS_Surjection
  <1>5. ASSUME NEW o \in Here(n)
        PROVE  /\ PageContent(n, o) \in Contents
               /\ \E j \in DOMAIN got : got[j].occ = o /\ got[j].content = PageContent(n, o)
    <2> DEFINE j == CHOOSE h \in DOMAIN got : got[h].occ = o
    <2>1. j \in DOMAIN got /\ got[j].occ = o
      BY <1>2, <1>3
    <2>2. PageContent(n, o) = got[j].content
      BY <1>1 DEF PageContent
    <2> QED  BY <1>2, <2>1, <2>2
  <1> QED  BY <1>1, <1>2, <1>3, <1>4, <1>5

\* What WritePage changes.
LEMMA WriteEffect ==
    ASSUME Shapes, Control, NEW n \in Refreshes, WritePage(n)
    PROVE  LET c == Reading(n)  i == <<req[n].rev, c>>  rows == PageRowsOf(n)  here == Here(n)
           IN  /\ Step(n, "write") /\ Fence(n) /\ ~Repeated(n)
               /\ c \in Calendars /\ i \in Identities
               /\ here \subseteq Occurrences /\ IsFiniteSet(here)
               /\ rows \in [Occurrences -> Seq(Contents)]
               /\ \A o \in Occurrences : \A k \in DOMAIN events[i][o] : k \in DOMAIN rows[o] /\ rows[o][k] = events[i][o][k]
               /\ \A o \in Occurrences : IsInjective(events[i][o]) => IsInjective(rows[o])
               /\ \A o \in here : /\ RevisionOf(rows[o], PageContent(n, o)) \in DOMAIN rows[o]
                                  /\ RevisionOf(rows[o], PageContent(n, o)) \in Nat
                                  /\ rows[o][RevisionOf(rows[o], PageContent(n, o))] = PageContent(n, o)
               /\ events' = [events EXCEPT ![i] = rows]
               /\ seen' = [seen EXCEPT ![n][c] = SeenAfter(n)]
               /\ runs' = [runs EXCEPT ![n][c] = [runs[n][c] EXCEPT !.items = runs[n][c].items + Cardinality(here)]]
               /\ req' = [req EXCEPT ![n] =
                      [req[n] EXCEPT !.at = AfterPage(n), !.got = <<>>, !.more = FALSE,
                              !.page = IF AfterPage(n) = "fetch" THEN req[n].page + 1 ELSE req[n].page]]
               /\ UNCHANGED <<revs, google, changes, ended>>
  <1> DEFINE c == Reading(n)
             i == <<req[n].rev, c>>
             rows == PageRowsOf(n)
  <1>1. req[n].at \in Working
    BY DEF WritePage, Step, Working, Places
  <1>2. c \in Calendars /\ i \in Identities
    BY <1>1, ReadingTyped
  <1>3. Here(n) \subseteq Occurrences /\ IsFiniteSet(Here(n)) /\ \A o \in Here(n) : PageContent(n, o) \in Contents
    BY PageTyped
  <1>4. rows = [o \in Occurrences |-> IF o \in Here(n) THEN Recorded(events[i][o], PageContent(n, o)) ELSE events[i][o]]
    BY DEF PageRowsOf
  <1>5. \A o \in Occurrences : events[i][o] \in Seq(Contents)
    BY <1>2 DEF Shapes
  <1>6. /\ Step(n, "write") /\ Fence(n) /\ ~Repeated(n)
        /\ events' = [events EXCEPT ![i] = rows]
        /\ seen' = [seen EXCEPT ![n][c] = [o \in DOMAIN @ \cup Here(n) |->
               IF o \in Here(n) THEN RevisionOf(rows[o], PageContent(n, o)) ELSE @[o]]]
        /\ runs' = [runs EXCEPT ![n][c].items = @ + Cardinality(Here(n))]
        /\ req' = [req EXCEPT ![n] =
               [req[n] EXCEPT !.at = AfterPage(n), !.got = <<>>, !.more = FALSE,
                       !.page = IF AfterPage(n) = "fetch" THEN @ + 1 ELSE @]]
        /\ UNCHANGED <<revs, google, changes, ended>>
    BY DEF WritePage, PageRowsOf, Here
  <1> HIDE DEF c, i, rows
  <1>7. seen[n] \in [Calendars -> Observations] /\ runs[n] \in [Calendars -> RunRows]
        /\ seen \in [Refreshes -> [Calendars -> Observations]]
        /\ runs \in [Refreshes -> [Calendars -> RunRows]]
    BY DEF Shapes
  <1>8. seen' = [seen EXCEPT ![n][c] = [o \in DOMAIN seen[n][c] \cup Here(n) |->
               IF o \in Here(n) THEN RevisionOf(rows[o], PageContent(n, o)) ELSE seen[n][c][o]]]
    BY <1>2, <1>6, <1>7
  <1>15. seen' = [seen EXCEPT ![n][c] = SeenAfter(n)]
    BY <1>8 DEF SeenAfter, c, rows
  <1>9. runs' = [runs EXCEPT ![n][c] = [runs[n][c] EXCEPT !.items = runs[n][c].items + Cardinality(Here(n))]]
    BY <1>2, <1>6, <1>7
  <1>10. req' = [req EXCEPT ![n] =
               [req[n] EXCEPT !.at = AfterPage(n), !.got = <<>>, !.more = FALSE,
                       !.page = IF AfterPage(n) = "fetch" THEN req[n].page + 1 ELSE req[n].page]]
    <2>1. req[n] \in ReqRows
      BY DEF Shapes
    <2> QED  BY <1>6, <2>1 DEF ReqRows
  <1>11. rows \in [Occurrences -> Seq(Contents)]
    BY <1>3, <1>4, <1>5, RecordedRows
  <1>12. \A o \in Occurrences : \A k \in DOMAIN events[i][o] : k \in DOMAIN rows[o] /\ rows[o][k] = events[i][o][k]
    BY <1>3, <1>4, <1>5, RecordedRows
  <1>13. \A o \in Occurrences : IsInjective(events[i][o]) => IsInjective(rows[o])
    BY <1>3, <1>4, <1>5, RecordedRows
  <1>14. \A o \in Here(n) : /\ RevisionOf(rows[o], PageContent(n, o)) \in DOMAIN rows[o]
                            /\ RevisionOf(rows[o], PageContent(n, o)) \in Nat
                            /\ rows[o][RevisionOf(rows[o], PageContent(n, o))] = PageContent(n, o)
    BY <1>3, <1>4, <1>5, RecordedRows
  <1> QED  BY <1>2, <1>3, <1>6, <1>9, <1>15, <1>10, <1>11, <1>12, <1>13, <1>14 DEF c, i, rows

LEMMA WriteShapes ==
    ASSUME Shapes, Control, NEW n \in Refreshes, WritePage(n)
    PROVE  Shapes'
  <1> DEFINE c == Reading(n)
             i == <<req[n].rev, c>>
             rows == PageRowsOf(n)
             record == SeenAfter(n)
             place == AfterPage(n)
             page == IF place = "fetch" THEN req[n].page + 1 ELSE req[n].page
  <1>1. /\ c \in Calendars /\ i \in Identities /\ Here(n) \subseteq Occurrences /\ IsFiniteSet(Here(n))
        /\ rows \in [Occurrences -> Seq(Contents)]
        /\ \A o \in Here(n) : RevisionOf(rows[o], PageContent(n, o)) \in Nat
        /\ events' = [events EXCEPT ![i] = rows] /\ seen' = [seen EXCEPT ![n][c] = record]
        /\ runs' = [runs EXCEPT ![n][c] = [runs[n][c] EXCEPT !.items = runs[n][c].items + Cardinality(Here(n))]]
        /\ req' = [req EXCEPT ![n] = [req[n] EXCEPT !.at = place, !.got = <<>>, !.more = FALSE, !.page = page]]
        /\ UNCHANGED <<revs, google, changes, ended>>
    BY WriteEffect
  <1>2. seen[n][c] \in Observations /\ runs[n][c] \in RunRows /\ req[n] \in ReqRows
    BY <1>1 DEF Shapes
  <1>3. record \in Observations
    <2>1. DOMAIN seen[n][c] \subseteq Occurrences /\ \A o \in DOMAIN seen[n][c] : seen[n][c][o] \in Nat
      BY <1>2, ObservationShape
    <2>2. record \in [DOMAIN seen[n][c] \cup Here(n) -> Nat]
      BY <1>1, <2>1 DEF SeenAfter
    <2>3. DOMAIN seen[n][c] \cup Here(n) \in SUBSET Occurrences
      BY <1>1, <2>1
    <2> HIDE DEF record
    <2> QED  BY <2>2, <2>3, ObservationTyped
  <1>4. [runs[n][c] EXCEPT !.items = runs[n][c].items + Cardinality(Here(n))] \in RunRows
    <2>1. Cardinality(Here(n)) \in Nat
      BY <1>1, FS_CardinalityType
    <2>2. PICK items \in Nat : items = runs[n][c].items + Cardinality(Here(n))
      BY <1>2, <2>1 DEF RunRows
    <2> QED  BY <1>2, <2>2 DEF RunRows
  <1>5. page \in 1 .. MaxPages
    <2>1. req[n].page \in 1 .. MaxPages /\ MaxPages \in Nat
      BY <1>2, CalendarAssumption DEF ReqRows
    <2>2. place = "fetch" => req[n].page < MaxPages
      BY DEF AfterPage
    <2> QED  BY <2>1, <2>2
  <1>6. place \in Places
    BY DEF AfterPage, Places
  <1> HIDE DEF c, i, rows, record, place, page
  <1>7. [req[n] EXCEPT !.at = place, !.got = <<>>, !.more = FALSE, !.page = page] \in ReqRows
    <2>1. PICK row \in ReqRows : row = req[n]
      BY <1>2
    <2>2. <<>> \in Seq(PageRows)
      BY EmptySeq
    <2>3. [row EXCEPT !.at = place, !.got = <<>>, !.more = FALSE, !.page = page] \in ReqRows
      BY <1>5, <1>6, <2>2 DEF ReqRows
    <2> QED  BY <2>1, <2>3
  <1>8. /\ req' \in [Refreshes -> ReqRows]
        /\ \A m \in Refreshes : req'[m].rev <= Len(revs) /\ Len(req'[m].got) <= PageSize
    <2>1. PICK local \in ReqRows : local = [req[n] EXCEPT !.at = place, !.got = <<>>, !.more = FALSE, !.page = page]
      BY <1>7
    <2>2. local.rev = req[n].rev /\ local.got = <<>>
      BY <1>2, <2>1 DEF ReqRows
    <2>3. Len(<<>>) = 0 /\ PageSize \in Nat
      BY EmptySeq, CalendarAssumption
    <2>4. req' = [req EXCEPT ![n] = local]
      BY <1>1, <2>1
    <2> QED  BY <2>2, <2>3, <2>4 DEF Shapes
  <1>9. /\ events' \in [Identities -> [Occurrences -> Seq(Contents)]]
        /\ seen' \in [Refreshes -> [Calendars -> Observations]]
        /\ runs' \in [Refreshes -> [Calendars -> RunRows]]
    BY <1>1, <1>3, <1>4 DEF Shapes
  <1> QED  BY <1>1, <1>8, <1>9 DEF Shapes

LEMMA SealedShapes ==
    ASSUME Shapes, Control, NEW n \in Refreshes, Sealed(n)
    PROVE  Shapes'
  <1> DEFINE c == Reading(n)
             rest == Tail(req[n].todo)
             place == IF rest = <<>> THEN "done" ELSE "begin"
             local == [Fresh EXCEPT !.rev = req[n].rev, !.todo = rest, !.at = place]
  <1>1. req[n].at \in Working
    BY DEF Sealed, Step, Working, Places
  <1>2. req[n] \in ReqRows /\ c \in Calendars /\ rest \in Seq(Calendars)
    BY <1>1, ReadingTyped
  <1>3. runs' \in [Refreshes -> [Calendars -> RunRows]]
    <2>1. runs[n][c] \in RunRows
      BY <1>2 DEF Shapes
    <2>2. [runs[n][c] EXCEPT !.status = "succeeded", !.evidence = TRUE] \in RunRows
      BY <2>1 DEF RunRows
    <2>3. runs' = [runs EXCEPT ![n][c] = [runs[n][c] EXCEPT !.status = "succeeded", !.evidence = TRUE]]
      BY DEF Sealed
    <2> QED  BY <1>2, <2>2, <2>3 DEF Shapes
  <1>4. ended' \in Seq(Refreshes \X Calendars)
    BY <1>2, AppendProperties DEF Sealed, Shapes
  <1>5. place \in Places /\ req[n].rev \in Nat
    BY <1>2 DEF Places, ReqRows
  <1> HIDE DEF c, rest, place
  <1>6. local \in ReqRows /\ local.rev = req[n].rev /\ local.got = <<>>
    BY <1>2, <1>5, FreshTyped DEF ReqRows, Fresh
  <1> HIDE DEF local
  <1>7. req' = [req EXCEPT ![n] = local]
    BY DEF Sealed, local, place, rest
  <1>8. Len(<<>>) = 0 /\ PageSize \in Nat
    BY EmptySeq, CalendarAssumption
  <1>9. /\ req' \in [Refreshes -> ReqRows]
        /\ \A m \in Refreshes : req'[m].rev <= Len(revs) /\ Len(req'[m].got) <= PageSize
    BY <1>6, <1>7, <1>8 DEF Shapes
  <1> QED  BY <1>3, <1>4, <1>9 DEF Sealed, Shapes

LEMMA LeftTyped ==
    ASSUME Shapes, NEW n \in Refreshes, NEW place \in Places
    PROVE  /\ Left(n, place) \in ReqRows /\ Left(n, place).rev = req[n].rev /\ Left(n, place).at = place
           /\ Left(n, place).lost = FALSE /\ Left(n, place).changed = FALSE
           /\ Left(n, place).rev <= Len(revs) /\ Len(Left(n, place).got) <= PageSize
  <1>1. PICK v \in Nat : v = req[n].rev /\ v <= Len(revs)
    BY DEF Shapes, ReqRows
  <1>2. Left(n, place) = [Fresh EXCEPT !.at = place, !.rev = v]
    BY <1>1 DEF Left
  <1>3. /\ [Fresh EXCEPT !.at = place, !.rev = v] \in ReqRows
        /\ [Fresh EXCEPT !.at = place, !.rev = v].rev = v /\ [Fresh EXCEPT !.at = place, !.rev = v].at = place
        /\ [Fresh EXCEPT !.at = place, !.rev = v].lost = FALSE
        /\ [Fresh EXCEPT !.at = place, !.rev = v].changed = FALSE
        /\ [Fresh EXCEPT !.at = place, !.rev = v].got = <<>>
    BY FreshTyped DEF ReqRows, Fresh
  <1>4. Len(<<>>) = 0 /\ PageSize \in Nat
    BY EmptySeq, CalendarAssumption
  <1> QED  BY <1>1, <1>2, <1>3, <1>4

\* A failure that settles ends every run the refresh has left, in order.
LEMMA FailEffect ==
    ASSUME Shapes, Control, NEW n \in Refreshes, req[n].at \in Working,
           NEW status \in {"incomplete", "failed"}, Fail(n, status)
    PROVE  LET left == ToSet(req[n].todo)
           IN  /\ req' = [req EXCEPT ![n] = Left(n, "done")]
               /\ UNCHANGED <<revs, google, changes, events, seen>>
               /\ \/ UNCHANGED <<runs, ended>>
                  \/ /\ \A c \in left : runs[n][c].started
                     /\ runs' \in [Refreshes -> [Calendars -> RunRows]]
                     /\ \A m \in Refreshes, c \in Calendars :
                            runs'[m][c] = IF m = n /\ c \in left
                                          THEN [runs[m][c] EXCEPT !.status = status, !.evidence = FALSE]
                                          ELSE runs[m][c]
                     /\ ended' \in Seq(Refreshes \X Calendars) /\ Len(ended') = Len(ended) + Len(req[n].todo)
                     /\ \A k \in DOMAIN ended : k \in DOMAIN ended' /\ ended'[k] = ended[k]
                     /\ \A k \in DOMAIN ended' \ DOMAIN ended :
                            /\ k - Len(ended) \in DOMAIN req[n].todo
                            /\ ended'[k] = <<n, req[n].todo[k - Len(ended)]>>
  <1> DEFINE left == ToSet(req[n].todo)
             new == [j \in DOMAIN req[n].todo |-> <<n, req[n].todo[j]>>]
  <1>1. /\ req' = [req EXCEPT ![n] = Left(n, "done")]
        /\ UNCHANGED <<revs, google, changes, events, seen>>
    BY DEF Fail
  <1>2. CASE Settleable(n)
    <2>1. /\ runs' = [runs EXCEPT ![n] = [c \in Calendars |->
                 IF c \in left THEN [runs[n][c] EXCEPT !.status = status, !.evidence = FALSE] ELSE runs[n][c]]]
          /\ ended' = ended \o new /\ \A c \in left : runs[n][c].started
      BY <1>2 DEF Fail, Settleable
    <2>2. runs \in [Refreshes -> [Calendars -> RunRows]] /\ ended \in Seq(Refreshes \X Calendars)
      BY DEF Shapes
    <2>3. PICK todo \in Seq(Calendars) : todo = req[n].todo
      BY ReadingTyped
    <2>4. Len(todo) \in Nat /\ DOMAIN todo = 1 .. Len(todo) /\ \A j \in 1 .. Len(todo) : todo[j] \in Calendars
      BY LenProperties, ElementOfSeq
    <2>5. new \in [1 .. Len(todo) -> Refreshes \X Calendars] /\ \A j \in 1 .. Len(todo) : new[j] = <<n, todo[j]>>
      BY <2>3, <2>4
    <2> HIDE DEF left, new
    <2>6. new \in Seq(Refreshes \X Calendars) /\ Len(new) = Len(todo) /\ DOMAIN new = 1 .. Len(todo)
      BY <2>4, <2>5, TableIsSequence
    <2>7. /\ ended \o new \in Seq(Refreshes \X Calendars) /\ Len(ended \o new) = Len(ended) + Len(new)
          /\ \A k \in 1 .. Len(ended) + Len(new) :
                 (ended \o new)[k] = IF k <= Len(ended) THEN ended[k] ELSE new[k - Len(ended)]
      BY <2>2, <2>6, ConcatProperties
    <2>8. Len(ended) \in Nat /\ DOMAIN ended = 1 .. Len(ended)
          /\ DOMAIN (ended \o new) = 1 .. Len(ended) + Len(new)
      BY <2>2, <2>7, LenProperties
    <2> HIDE DEF new
    <2>9. PICK L \in Nat, M \in Nat : L = Len(ended) /\ M = Len(todo)
      BY <2>4, <2>8
    <2>10. /\ DOMAIN ended = 1 .. L /\ DOMAIN ended' = 1 .. L + M
           /\ \A k \in 1 .. L + M : ended'[k] = IF k <= L THEN ended[k] ELSE new[k - L]
      BY <2>1, <2>6, <2>7, <2>8, <2>9
    <2>11. runs' \in [Refreshes -> [Calendars -> RunRows]]
      <3>1. \A c \in Calendars :
                (IF c \in left THEN [runs[n][c] EXCEPT !.status = status, !.evidence = FALSE] ELSE runs[n][c])
                \in RunRows
        <4> SUFFICES ASSUME NEW c \in Calendars, NEW row \in RunRows, row = runs[n][c]
                     PROVE  [row EXCEPT !.status = status, !.evidence = FALSE] \in RunRows
          BY <2>2
        <4> QED  BY DEF RunRows
      <3> QED  BY <2>1, <2>2, <3>1
    <2>13. \A k \in DOMAIN ended : k \in DOMAIN ended' /\ ended'[k] = ended[k]
      BY <2>10
    <2>14. ASSUME NEW k \in DOMAIN ended' \ DOMAIN ended
           PROVE  k - Len(ended) \in DOMAIN todo /\ ended'[k] = <<n, todo[k - Len(ended)]>>
      <3>1. k \in 1 .. L + M /\ k - L \in 1 .. M
        BY <2>10
      <3> QED  BY <2>4, <2>5, <2>9, <2>10, <3>1
    <2>12. \A m \in Refreshes, c \in Calendars :
              runs'[m][c] = IF m = n /\ c \in left
                            THEN [runs[m][c] EXCEPT !.status = status, !.evidence = FALSE]
                            ELSE runs[m][c]
      BY <2>1, <2>2
    <2> QED  BY <1>1, <2>1, <2>3, <2>6, <2>7, <2>11, <2>12, <2>13, <2>14 DEF left
  <1>3. CASE ~Settleable(n)
    BY <1>1, <1>3 DEF Fail
  <1> QED  BY <1>2, <1>3

\* The handlers that fail a refresh, and where they can.
Failing(n) ==
    \E status \in {"incomplete", "failed"} : req[n].at \in Working /\ Fail(n, status)

LEMMA FailingHandlers ==
    ASSUME NEW n \in Refreshes,
           CredentialRefused(n) \/ Drift(n) \/ TransportFails(n) \/ PageRefused(n) \/ HitCeiling(n)
    PROVE  Failing(n)
  <1>1. CASE CredentialRefused(n)
    BY <1>1 DEF CredentialRefused, Step, Failing, Working, Places
  <1>2. CASE Drift(n)
    BY <1>2 DEF Drift, Failing, Working, Places
  <1>3. CASE TransportFails(n)
    BY <1>3 DEF TransportFails, Step, Failing, Working, Places
  <1>4. CASE PageRefused(n)
    BY <1>4 DEF PageRefused, Step, Failing, Working, Places
  <1>5. CASE HitCeiling(n)
    BY <1>5 DEF HitCeiling, Failing, Working, Places
  <1> QED  BY <1>1, <1>2, <1>3, <1>4, <1>5

LEMMA FailShapes ==
    ASSUME Shapes, Control, NEW n \in Refreshes, Failing(n)
    PROVE  Shapes'
  <1>1. PICK status \in {"incomplete", "failed"} : req[n].at \in Working /\ Fail(n, status)
    BY DEF Failing
  <1>2. /\ req' = [req EXCEPT ![n] = Left(n, "done")]
        /\ UNCHANGED <<revs, google, changes, events, seen>>
        /\ \/ UNCHANGED <<runs, ended>>
           \/ /\ runs' \in [Refreshes -> [Calendars -> RunRows]]
              /\ ended' \in Seq(Refreshes \X Calendars)
    BY <1>1, FailEffect
  <1>3. "done" \in Places
    BY DEF Places
  <1>4. /\ req' \in [Refreshes -> ReqRows]
        /\ \A m \in Refreshes : req'[m].rev <= Len(revs) /\ Len(req'[m].got) <= PageSize
    BY <1>2, <1>3, LeftTyped DEF Shapes
  <1> QED  BY <1>2, <1>4 DEF Shapes

\* The steps of Next, one by one, with the handlers that fail a refresh taken together.
LEMMA StepCases ==
    ASSUME Next
    PROVE  \/ Configure
           \/ \E c \in Calendars, o \in Occurrences :
                  \/ AddEvent(c, o) \/ RemoveEvent(c, o)
                  \/ \E content \in Contents : EditEvent(c, o, content)
           \/ \E n \in Refreshes :
                  \/ \E v \in 1 .. MaxRevision : Claim(n, v)
                  \/ Authorize(n) \/ BeginCalendar(n) \/ FetchPage(n) \/ WritePage(n) \/ Seal(n)
                  \/ Failing(n) \/ Crash(n)
  BY FailingHandlers DEF Next, GoogleStep, RefreshStep

LEMMA ShapesStep ==
    ASSUME Shapes, Control, [Next]_calendarVars
    PROVE  Shapes'
  <1>1. CASE Configure
    BY <1>1, ConfigureShapes
  <1>2. ASSUME NEW c \in Calendars, NEW o \in Occurrences,
               \/ AddEvent(c, o) \/ RemoveEvent(c, o)
               \/ \E content \in Contents : EditEvent(c, o, content)
        PROVE  Shapes'
    BY <1>2, GoogleShapes
  <1>3. ASSUME NEW n \in Refreshes, NEW v \in 1 .. MaxRevision, Claim(n, v)
        PROVE  Shapes'
    BY <1>3, ClaimShapes
  <1>4. ASSUME NEW n \in Refreshes, Authorize(n)
        PROVE  Shapes'
    <2> DEFINE local == [req[n] EXCEPT !.at = "begin"]
    <2>1. local \in ReqRows /\ local.rev = req[n].rev /\ local.got = req[n].got
      BY DEF Shapes, ReqRows, Places
    <2>2. Go(n, local)
      BY <1>4 DEF Authorize
    <2> HIDE DEF local
    <2> QED  BY <2>1, <2>2, GoShapes DEF Shapes
  <1>5. ASSUME NEW n \in Refreshes, BeginCalendar(n) \/ FetchPage(n) \/ WritePage(n)
        PROVE  Shapes'
    BY <1>5, BeginShapes, FetchShapes, WriteShapes
  <1>6. ASSUME NEW n \in Refreshes, Seal(n)
        PROVE  Shapes'
    BY <1>6, SealedShapes DEF Seal
  <1>7. ASSUME NEW n \in Refreshes, Failing(n)
        PROVE  Shapes'
    BY <1>7, FailShapes
  <1>8. ASSUME NEW n \in Refreshes, Crash(n)
        PROVE  Shapes'
    <2>1. "dead" \in Places
      BY DEF Places
    <2> QED  BY <1>8, <2>1, LeftTyped, GoShapes DEF Crash
  <1>9. CASE UNCHANGED calendarVars
    BY <1>9 DEF calendarVars, Shapes
  <1> QED  BY <1>1, <1>2, <1>3, <1>4, <1>5, <1>6, <1>7, <1>8, <1>9, StepCases

-----------------------------------------------------------------------------
(* Second layer: control.                                                  *)

LEMMA ControlInit ==
    ASSUME Init
    PROVE  Control
  <1>1. \A n \in Refreshes : req[n].at = "none" /\ \A c \in Calendars : runs[n][c] = NoRun /\ seen[n][c] = <<>>
    BY DEF Init, Fresh
  <1>2. DOMAIN <<>> = {} /\ NoRun.items = 0 /\ NoRun.status = "none" /\ DOMAIN ended = {}
    BY DEF NoRun, Init
  <1> QED  BY <1>1, <1>2 DEF Control, Placed, Untouched, Working, Final

EndedFinal == \A k \in DOMAIN ended : runs[ended[k][1]][ended[k][2]].status \in Final

StartedFinal(n) == \A c \in Calendars : runs[n][c].status \in Final => runs[n][c].started

LEMMA ControlParts == Control <=> /\ \A n \in Refreshes : Placed(n) /\ StartedFinal(n)
                                  /\ EndedFinal
  BY DEF Control, StartedFinal, EndedFinal

LEMMA EndedTyped ==
    ASSUME Shapes, NEW k \in DOMAIN ended
    PROVE  ended[k][1] \in Refreshes /\ ended[k][2] \in Calendars /\ ended[k] = <<ended[k][1], ended[k][2]>>
           /\ k \in Nat
  <1>1. ended[k] \in Refreshes \X Calendars /\ k \in Nat
    BY ElementOfSeq, LenProperties DEF Shapes
  <1> QED  BY <1>1

\* What a step does not look at stays placed.
LEMMA PlacedKept ==
    ASSUME NEW n \in Refreshes, Placed(n), StartedFinal(n), Shapes,
           req'[n].at = req[n].at, req'[n].todo = req[n].todo, req'[n].rev = req[n].rev,
           runs'[n] = runs[n], seen'[n] = seen[n],
           \A v \in DOMAIN revs : v \in DOMAIN revs' /\ revs'[v] = revs[v]
    PROVE  Placed(n)' /\ StartedFinal(n)'
  <1>1. Untouched(n, 1)' = Untouched(n, 1) /\ \A c : Untouched(n, c) => Untouched(n, c)'
    BY DEF Untouched
  <1>2. Claimed(n) => Claimed(n)'
    BY DEF Claimed
  <1>3. Open(n) => Open(n)'
    BY <1>1 DEF Open, Reading
  <1>4. req[n].at = "none" => \A c \in Calendars : runs'[n][c] = NoRun /\ Untouched(n, c)'
    BY <1>1 DEF Placed
  <1> QED  BY <1>2, <1>3, <1>4 DEF Placed, StartedFinal

\* A step of refresh n leaves the other refreshes where they are.
OnlyRefresh(n) ==
    /\ \A m \in Refreshes \ {n} : req'[m] = req[m] /\ runs'[m] = runs[m] /\ seen'[m] = seen[m]
    /\ revs' = revs

LEMMA OthersPlaced ==
    ASSUME Shapes, Control, NEW n \in Refreshes, OnlyRefresh(n)
    PROVE  \A m \in Refreshes \ {n} : Placed(m)' /\ StartedFinal(m)'
  BY PlacedKept, ControlParts DEF OnlyRefresh

\* A run that is still open is not on record as ended.
LEMMA OpenNotEnded ==
    ASSUME Shapes, Control, NEW n \in Refreshes, NEW c \in Calendars, runs[n][c].status \notin Final
    PROVE  \A k \in DOMAIN ended : ended[k] # <<n, c>>
  BY EndedTyped DEF Control

LEMMA ConfigureControl ==
    ASSUME Shapes, Shapes', Control, Configure
    PROVE  Control'
  <1>1. PICK row \in RevisionRows : AppendRevision(row)
    BY ConfigureAppends
  <1>2. revs' = Append(revs, row) /\ UNCHANGED <<google, changes, runs, ended, events, seen, req>>
    BY <1>1 DEF AppendRevision
  <1>3. \A v \in DOMAIN revs : v \in DOMAIN revs' /\ revs'[v] = revs[v]
    BY <1>2, AppendProperties, LenProperties DEF Shapes
  <1>4. \A n \in Refreshes : Placed(n)' /\ StartedFinal(n)'
    BY <1>2, <1>3, PlacedKept, ControlParts
  <1>5. EndedFinal'
    BY <1>2, ControlParts DEF EndedFinal
  <1> QED  BY <1>4, <1>5 DEF Control, StartedFinal, EndedFinal

LEMMA GoogleControl ==
    ASSUME Shapes, Shapes', Control, NEW c \in Calendars, NEW loses \in BOOLEAN, Change(c, loses)
    PROVE  Control'
  <1>1. UNCHANGED <<revs, runs, ended, events, seen>>
    BY DEF Change
  <1>2. \A n \in Refreshes : req'[n].at = req[n].at /\ req'[n].todo = req[n].todo /\ req'[n].rev = req[n].rev
    <2> SUFFICES ASSUME NEW n \in Refreshes
                 PROVE  req'[n].at = req[n].at /\ req'[n].todo = req[n].todo /\ req'[n].rev = req[n].rev
      OBVIOUS
    <2>1. PICK row \in ReqRows : row = req[n]
      BY DEF Shapes
    <2>2. req'[n] = row \/ req'[n] = [row EXCEPT !.changed = TRUE, !.lost = @ \/ loses]
      BY <2>1 DEF Change
    <2> QED  BY <2>1, <2>2 DEF ReqRows
  <1>3. \A n \in Refreshes : Placed(n)' /\ StartedFinal(n)'
    BY <1>1, <1>2, PlacedKept, ControlParts
  <1>4. EndedFinal'
    BY <1>1, ControlParts DEF EndedFinal
  <1> QED  BY <1>3, <1>4 DEF Control, StartedFinal, EndedFinal

\* A step of refresh n that ends no run: the runs it changes were open.
LEMMA OnlyRefreshControl ==
    ASSUME Shapes, Control, NEW n \in Refreshes, OnlyRefresh(n), ended' = ended,
           \A c \in Calendars : runs'[n][c] = runs[n][c] \/ runs[n][c].status \notin Final,
           Placed(n)', StartedFinal(n)'
    PROVE  Control'
  <1>1. \A m \in Refreshes : Placed(m)' /\ StartedFinal(m)'
    BY OthersPlaced
  <1>2. EndedFinal'
    <2> SUFFICES ASSUME NEW k \in DOMAIN ended
                 PROVE  runs'[ended[k][1]][ended[k][2]].status \in Final
      BY DEF EndedFinal
    <2>1. runs[ended[k][1]][ended[k][2]].status \in Final
      BY DEF Control
    <2> QED  BY <2>1, EndedTyped DEF OnlyRefresh
  <1> QED  BY <1>1, <1>2 DEF Control, StartedFinal, EndedFinal

LEMMA ClaimControl ==
    ASSUME Shapes, Shapes', Control, NEW n \in Refreshes, NEW v \in 1 .. MaxRevision, Claim(n, v)
    PROVE  Control'
  <1>1. req[n].at = "none" /\ v \in DOMAIN revs /\ revs[v].life = "enabled" /\ revs' = revs /\ ended' = ended
        /\ seen' = seen
    BY DEF Claim
  <1>2. \A c \in Calendars : runs[n][c] = NoRun /\ runs[n][c].status \notin Final /\ Untouched(n, c)
    BY <1>1 DEF Control, Placed, NoRun, Final
  <1>3. /\ SetToSeq(revs[v].cals) \in Seq(Calendars) /\ SetToSeq(revs[v].cals) # <<>>
        /\ IsInjective(SetToSeq(revs[v].cals)) /\ ToSet(SetToSeq(revs[v].cals)) \subseteq revs[v].cals
        /\ revs[v].cals \subseteq Calendars
    <2>1. revs[v] \in RevisionRows
      BY <1>1, LenProperties, ElementOfSeq DEF Shapes
    <2> QED  BY <2>1, ClaimOrder DEF RevisionRows
  <1>4. /\ req'[n].at = "claimed" /\ req'[n].rev = v /\ req'[n].todo = SetToSeq(revs[v].cals)
        /\ \A c \in Calendars : runs'[n][c] = IF c \in revs[v].cals THEN [NoRun EXCEPT !.status = "claimed"] ELSE NoRun
    BY DEF Claim, Shapes, Fresh
  <1>5. OnlyRefresh(n)
    BY <1>1 DEF Claim, OnlyRefresh, Shapes
  <1>6. Claimed(n)'
    BY <1>1, <1>3, <1>4 DEF Claimed
  <1>7. Open(n)'
    BY <1>1, <1>2, <1>3, <1>4 DEF Open, Untouched, Inside, NoRun
  <1>8. Placed(n)'
    BY <1>4, <1>6, <1>7 DEF Placed, Claimed
  <1>9. StartedFinal(n)'
    BY <1>4 DEF StartedFinal, NoRun, Final
  <1> QED  BY <1>1, <1>2, <1>5, <1>8, <1>9, OnlyRefreshControl

LEMMA AuthorizeControl ==
    ASSUME Shapes, Shapes', Control, NEW n \in Refreshes, Authorize(n)
    PROVE  Control'
  <1>1. /\ req[n].at = "claimed" /\ req'[n].at = "begin" /\ req'[n].todo = req[n].todo /\ req'[n].rev = req[n].rev
        /\ UNCHANGED <<revs, runs, ended, seen>>
    BY DEF Authorize, Step, Go, Shapes, ReqRows
  <1>2. OnlyRefresh(n)
    BY DEF Authorize, Go, OnlyRefresh, Shapes
  <1>3. Placed(n) /\ StartedFinal(n)
    BY ControlParts
  <1>4. Claimed(n) /\ Open(n)
    BY <1>1, <1>3 DEF Placed, Working, Places
  <1>5. Claimed(n)' /\ Open(n)' /\ StartedFinal(n)'
    BY <1>1, <1>3, <1>4 DEF Claimed, Open, Inside, Untouched, StartedFinal
  <1>6. Placed(n)'
    BY <1>1, <1>5 DEF Placed, Claimed
  <1> QED  BY <1>1, <1>2, <1>5, <1>6, OnlyRefreshControl

LEMMA BeginControl ==
    ASSUME Shapes, Shapes', Control, NEW n \in Refreshes, BeginCalendar(n)
    PROVE  Control'
  <1> DEFINE c == Reading(n)
  <1>1. req[n].at = "begin" /\ req[n].at \in Working
    BY DEF BeginCalendar, Step, Working, Places
  <1>2. /\ req[n] \in ReqRows /\ c \in Calendars /\ Claimed(n) /\ Open(n) /\ c \in ToSet(req[n].todo)
    BY <1>1, ReadingTyped
  <1>3. runs[n][c].status = "claimed"
    BY <1>1, <1>2 DEF Open, Inside
  <1>4. /\ req'[n].at = "fetch" /\ req'[n].todo = req[n].todo /\ req'[n].rev = req[n].rev
        /\ UNCHANGED <<revs, ended, seen>>
    BY DEF BeginCalendar, Shapes, ReqRows
  <1>5. runs' = [runs EXCEPT ![n][c] = [runs[n][c] EXCEPT !.status = "running", !.started = TRUE]]
    BY DEF BeginCalendar
  <1>6. OnlyRefresh(n)
    BY DEF BeginCalendar, OnlyRefresh, Shapes
  <1>7. Reading(n)' = c
    BY <1>4 DEF Reading
  <1> HIDE DEF c
  <1>8. runs'[n][c].status = "running" /\ runs'[n][c].started
        /\ \A d \in Calendars \ {c} : runs'[n][d] = runs[n][d]
    BY <1>2, <1>5 DEF Shapes, RunRows
  <1>9. Claimed(n)'
    BY <1>2, <1>4 DEF Claimed
  <1>10. Open(n)'
    <2>1. \A d \in ToSet(req[n].todo) : d \in Calendars /\ runs[n][d].status = "claimed" /\ Untouched(n, d)
      BY <1>1, <1>2, ReadingTyped DEF Open, Inside
    <2>2. ASSUME NEW d \in ToSet(req[n].todo)
          PROVE  IF d = c THEN runs'[n][d].status = "running" /\ runs'[n][d].started
                 ELSE runs'[n][d].status = "claimed" /\ Untouched(n, d)'
      BY <1>4, <1>8, <2>1 DEF Untouched
    <2> QED  BY <1>4, <1>7, <2>2 DEF Open, Inside
  <1>11. Placed(n)'
    BY <1>4, <1>9, <1>10 DEF Placed, Claimed
  <1>12. StartedFinal(n)'
    BY <1>8, ControlParts DEF StartedFinal
  <1>13. \A d \in Calendars : runs'[n][d] = runs[n][d] \/ runs[n][d].status \notin Final
    BY <1>3, <1>8 DEF Final
  <1> QED  BY <1>4, <1>6, <1>11, <1>12, <1>13, OnlyRefreshControl

LEMMA FetchControl ==
    ASSUME Shapes, Shapes', Control, NEW n \in Refreshes, FetchPage(n)
    PROVE  Control'
  <1>1. /\ req[n].at = "fetch" /\ req'[n].at = "write" /\ req'[n].todo = req[n].todo /\ req'[n].rev = req[n].rev
        /\ UNCHANGED <<revs, runs, ended, seen>>
    <2>1. PICK got, more : req' = [req EXCEPT ![n] = [req[n] EXCEPT !.at = "write", !.more = more, !.got = got]]
      BY FetchedPage
    <2>2. req[n].at = "fetch" /\ UNCHANGED <<revs, runs, ended, seen>>
      BY DEF FetchPage, Step, Go
    <2>3. req'[n].at = "write" /\ req'[n].todo = req[n].todo /\ req'[n].rev = req[n].rev
      BY <2>1 DEF Shapes, ReqRows
    <2> QED  BY <2>2, <2>3
  <1>2. OnlyRefresh(n)
    BY DEF FetchPage, Go, OnlyRefresh, Shapes
  <1>3. Placed(n) /\ StartedFinal(n)
    BY ControlParts
  <1>4. Claimed(n) /\ Open(n)
    BY <1>1, <1>3 DEF Placed, Working, Places
  <1>5. Claimed(n)' /\ Open(n)' /\ StartedFinal(n)'
    BY <1>1, <1>3, <1>4 DEF Claimed, Open, Reading, Inside, Untouched, StartedFinal
  <1>6. Placed(n)'
    BY <1>1, <1>5 DEF Placed, Claimed
  <1> QED  BY <1>1, <1>2, <1>5, <1>6, OnlyRefreshControl

LEMMA WriteControl ==
    ASSUME Shapes, Shapes', Control, NEW n \in Refreshes, WritePage(n)
    PROVE  Control'
  <1> DEFINE c == Reading(n)
  <1>1. req[n].at = "write" /\ req[n].at \in Working
    BY DEF WritePage, Step, Working, Places
  <1>2. /\ req[n] \in ReqRows /\ c \in Calendars /\ Claimed(n) /\ Open(n) /\ c \in ToSet(req[n].todo)
    BY <1>1, ReadingTyped
  <1>3. runs[n][c].status = "running" /\ runs[n][c].started
    BY <1>1, <1>2 DEF Open, Inside
  <1>4. PICK items, record, place, page :
            /\ runs' = [runs EXCEPT ![n][c] = [runs[n][c] EXCEPT !.items = items]]
            /\ seen' = [seen EXCEPT ![n][c] = record]
            /\ req' = [req EXCEPT ![n] = [req[n] EXCEPT !.at = place, !.got = <<>>, !.more = FALSE, !.page = page]]
            /\ place \in Inside /\ UNCHANGED <<revs, ended>>
    <2>1. AfterPage(n) \in Inside
      BY DEF AfterPage, Inside
    <2> DEFINE items == runs[n][c].items + Cardinality(Here(n))
               record == SeenAfter(n)
               place == AfterPage(n)
               page == IF place = "fetch" THEN req[n].page + 1 ELSE req[n].page
    <2>2. /\ runs' = [runs EXCEPT ![n][c] = [runs[n][c] EXCEPT !.items = items]]
          /\ seen' = [seen EXCEPT ![n][c] = record]
          /\ req' = [req EXCEPT ![n] = [req[n] EXCEPT !.at = place, !.got = <<>>, !.more = FALSE, !.page = page]]
          /\ UNCHANGED <<revs, ended>>
      BY WriteEffect
    <2> HIDE DEF items, record, page
    <2> QED  BY <2>1, <2>2
  <1> HIDE DEF c
  <1>5. req'[n].at \in Inside /\ req'[n].todo = req[n].todo /\ req'[n].rev = req[n].rev
    BY <1>2, <1>4 DEF Shapes, ReqRows
  <1>6. OnlyRefresh(n)
    BY <1>4 DEF OnlyRefresh, Shapes
  <1>7. Reading(n)' = c
    BY <1>5 DEF Reading, c
  <1>8. /\ runs'[n][c].status = "running" /\ runs'[n][c].started
        /\ \A d \in Calendars \ {c} : runs'[n][d] = runs[n][d] /\ seen'[n][d] = seen[n][d]
    BY <1>2, <1>3, <1>4 DEF Shapes, RunRows
  <1>9. Claimed(n)'
    BY <1>2, <1>4, <1>5 DEF Claimed
  <1>10. Open(n)'
    <2>1. \A d \in ToSet(req[n].todo) \ {c} : d \in Calendars /\ runs[n][d].status = "claimed" /\ Untouched(n, d)
      BY <1>1, <1>2, ReadingTyped DEF Open, Inside, c
    <2>2. ASSUME NEW d \in ToSet(req[n].todo)
          PROVE  IF d = c THEN runs'[n][d].status = "running" /\ runs'[n][d].started
                 ELSE runs'[n][d].status = "claimed" /\ Untouched(n, d)'
      BY <1>8, <2>1 DEF Untouched
    <2> QED  BY <1>5, <1>7, <2>2 DEF Open
  <1>11. Placed(n)'
    BY <1>5, <1>9, <1>10 DEF Placed, Inside, Claimed
  <1>12. StartedFinal(n)'
    BY <1>8, ControlParts DEF StartedFinal
  <1>13. \A d \in Calendars : runs'[n][d] = runs[n][d] \/ runs[n][d].status \notin Final
    BY <1>3, <1>8 DEF Final
  <1> QED  BY <1>4, <1>6, <1>11, <1>12, <1>13, OnlyRefreshControl

\* The calendars after the first one.
LEMMA RestOfTodo ==
    ASSUME NEW todo \in Seq(Calendars), todo # <<>>, IsInjective(todo)
    PROVE  /\ IsInjective(Tail(todo)) /\ ToSet(Tail(todo)) = ToSet(todo) \ {Head(todo)}
  <1>1. PICK L \in Nat : L = Len(todo) /\ DOMAIN todo = 1 .. L /\ L # 0
    BY LenProperties, EmptySeq
  <1>2. /\ Tail(todo) \in Seq(Calendars) /\ Len(Tail(todo)) = L - 1 /\ Head(todo) = todo[1]
        /\ \A k \in 1 .. Len(Tail(todo)) : Tail(todo)[k] = todo[k + 1]
    BY <1>1, HeadTailProperties
  <1>3. DOMAIN Tail(todo) = 1 .. L - 1 /\ \A k \in 1 .. L - 1 : Tail(todo)[k] = todo[k + 1] /\ k + 1 \in 2 .. L
    BY <1>1, <1>2, LenProperties
  <1>4. IsInjective(Tail(todo))
    <2> SUFFICES ASSUME NEW a \in 1 .. L - 1, NEW b \in 1 .. L - 1, todo[a + 1] = todo[b + 1]
                 PROVE  a = b
      BY <1>3 DEF IsInjective
    <2>1. a + 1 \in 1 .. L /\ b + 1 \in 1 .. L
      BY <1>1
    <2>2. a + 1 = b + 1
      BY <1>1, <2>1 DEF IsInjective
    <2> QED  BY <2>2
  <1>5. \A k \in 1 .. L : k = 1 \/ (k - 1 \in 1 .. L - 1 /\ (k - 1) + 1 = k)
    BY <1>1
  <1>6. \A k \in 2 .. L : todo[k] # todo[1]
    BY <1>1 DEF IsInjective
  <1>7. ASSUME NEW c \in ToSet(Tail(todo)) PROVE c \in ToSet(todo) /\ c # Head(todo)
    <2>1. PICK k \in 1 .. L - 1 : c = todo[k + 1]
      BY <1>3 DEF ToSet
    <2>2. k + 1 \in 2 .. L /\ k + 1 \in 1 .. L
      BY <1>1
    <2> QED  BY <1>1, <1>2, <1>6, <2>1, <2>2 DEF ToSet
  <1>8. ASSUME NEW c \in ToSet(todo), c # Head(todo) PROVE c \in ToSet(Tail(todo))
    <2>1. PICK k \in 1 .. L : c = todo[k]
      BY <1>1 DEF ToSet
    <2>2. k - 1 \in 1 .. L - 1 /\ (k - 1) + 1 = k
      BY <1>2, <1>5, <1>8, <2>1
    <2> QED  BY <1>3, <2>1, <2>2 DEF ToSet
  <1> QED  BY <1>4, <1>7, <1>8

LEMMA SealedControl ==
    ASSUME Shapes, Shapes', Control, NEW n \in Refreshes, Sealed(n)
    PROVE  Control'
  <1> DEFINE c == Reading(n)
             rest == Tail(req[n].todo)
             place == IF rest = <<>> THEN "done" ELSE "begin"
  <1>1. req[n].at = "seal" /\ req[n].at \in Working
    BY DEF Sealed, Step, Working, Places
  <1>2. /\ req[n] \in ReqRows /\ c \in Calendars /\ Claimed(n) /\ Open(n) /\ c \in ToSet(req[n].todo)
        /\ ToSet(req[n].todo) \subseteq Calendars /\ c = Head(req[n].todo)
        /\ IsInjective(rest) /\ ToSet(rest) = ToSet(req[n].todo) \ {c}
    BY <1>1, ReadingTyped, RestOfTodo DEF Reading
  <1>3. runs[n][c].status = "running" /\ runs[n][c].started
    BY <1>1, <1>2 DEF Open, Inside
  <1>4. /\ req'[n].at = place /\ req'[n].todo = rest /\ req'[n].rev = req[n].rev
    <2>1. req' = [req EXCEPT ![n] = [Fresh EXCEPT !.rev = req[n].rev, !.todo = rest, !.at = place]]
      BY DEF Sealed
    <2> QED  BY <2>1 DEF Shapes, Fresh
  <1>5. /\ runs' = [runs EXCEPT ![n][c] = [runs[n][c] EXCEPT !.status = "succeeded", !.evidence = TRUE]]
        /\ ended' = Append(ended, <<n, c>>) /\ UNCHANGED <<revs, google, changes, events, seen>>
    BY DEF Sealed
  <1>6. OnlyRefresh(n)
    BY DEF Sealed, OnlyRefresh, Shapes
  <1> HIDE DEF c, rest
  <1>7. /\ runs'[n][c].status = "succeeded" /\ runs'[n][c].started
        /\ \A d \in Calendars \ {c} : runs'[n][d] = runs[n][d]
    BY <1>2, <1>3, <1>5 DEF Shapes, RunRows
  <1>8. place \in {"done", "begin"} /\ place \notin Inside /\ place # "none"
        /\ (place \in Working => rest # <<>>)
    BY DEF Inside, Working, Places
  <1> HIDE DEF place
  <1>9. rest # <<>> => Claimed(n)'
    BY <1>2, <1>4, <1>5 DEF Claimed
  <1>10. Open(n)'
    <2>1. ASSUME NEW d \in ToSet(rest)
          PROVE  runs'[n][d].status = "claimed" /\ Untouched(n, d)'
      <3>1. d \in ToSet(req[n].todo) /\ d \in Calendars /\ d # c
        BY <1>2
      <3>2. runs[n][d].status = "claimed" /\ Untouched(n, d)
        BY <1>2, <3>1 DEF Open, c
      <3> QED  BY <1>5, <1>7, <3>1, <3>2 DEF Untouched
    <2> QED  BY <1>4, <1>8, <2>1 DEF Open
  <1>11. Placed(n)'
    <2>1. req'[n].rev \in DOMAIN revs'
      BY <1>2, <1>4, <1>5 DEF Claimed
    <2> QED  BY <1>4, <1>8, <1>9, <1>10, <2>1 DEF Placed
  <1>12. StartedFinal(n)'
    BY <1>7, ControlParts DEF StartedFinal
  <1>13. \A m \in Refreshes : Placed(m)' /\ StartedFinal(m)'
    BY <1>6, <1>11, <1>12, OthersPlaced
  <1>14. EndedFinal'
    <2>1. Len(ended) \in Nat /\ DOMAIN ended = 1 .. Len(ended)
          /\ DOMAIN ended' = 1 .. Len(ended) + 1 /\ ended'[Len(ended) + 1] = <<n, c>>
          /\ \A k \in 1 .. Len(ended) : ended'[k] = ended[k]
      BY <1>2, <1>5, AppendProperties, LenProperties DEF Shapes
    <2>2. ASSUME NEW k \in 1 .. Len(ended)
          PROVE  runs'[ended'[k][1]][ended'[k][2]].status \in Final
      <3>1. runs[ended[k][1]][ended[k][2]].status \in Final
        BY <2>1 DEF Control
      <3>2. ended[k][1] \in Refreshes /\ ended[k][2] \in Calendars
        BY <2>1, EndedTyped
      <3>3. runs'[ended[k][1]][ended[k][2]].status \in Final
        BY <1>6, <1>7, <3>1, <3>2 DEF OnlyRefresh, Final
      <3> QED  BY <2>1, <3>3
    <2>3. runs'[ended'[Len(ended) + 1][1]][ended'[Len(ended) + 1][2]].status \in Final
      BY <1>7, <2>1 DEF Final
    <2>4. \A k \in 1 .. Len(ended) + 1 : k \in 1 .. Len(ended) \/ k = Len(ended) + 1
      BY <2>1
    <2> QED  BY <2>1, <2>2, <2>3, <2>4 DEF EndedFinal
  <1> QED  BY <1>13, <1>14 DEF Control, StartedFinal, EndedFinal

LEMMA FailingControl ==
    ASSUME Shapes, Shapes', Control, NEW n \in Refreshes, Failing(n)
    PROVE  Control'
  <1> DEFINE left == ToSet(req[n].todo)
  <1>1. PICK status \in {"incomplete", "failed"} : req[n].at \in Working /\ Fail(n, status)
    BY DEF Failing
  <1>2. /\ req' = [req EXCEPT ![n] = Left(n, "done")]
        /\ UNCHANGED <<revs, google, changes, events, seen>>
        /\ \/ UNCHANGED <<runs, ended>>
           \/ /\ \A c \in left : runs[n][c].started
              /\ runs' \in [Refreshes -> [Calendars -> RunRows]]
              /\ \A m \in Refreshes, c \in Calendars :
                     runs'[m][c] = IF m = n /\ c \in left
                                   THEN [runs[m][c] EXCEPT !.status = status, !.evidence = FALSE]
                                   ELSE runs[m][c]
              /\ \A k \in DOMAIN ended : k \in DOMAIN ended' /\ ended'[k] = ended[k]
              /\ \A k \in DOMAIN ended' \ DOMAIN ended :
                     /\ k - Len(ended) \in DOMAIN req[n].todo
                     /\ ended'[k] = <<n, req[n].todo[k - Len(ended)]>>
    BY <1>1, FailEffect
  <1>3. req'[n].at = "done" /\ req'[n].rev = req[n].rev
    <2>1. "done" \in Places
      BY DEF Places
    <2>2. Left(n, "done").at = "done" /\ Left(n, "done").rev = req[n].rev
      BY <2>1, LeftTyped
    <2> QED  BY <1>2, <2>2 DEF Shapes
  <1>4. Placed(n)'
    <2>1. req'[n].rev \in DOMAIN revs'
      BY <1>1, <1>2, <1>3, ReadingTyped DEF Claimed
    <2> QED  BY <1>3, <2>1 DEF Placed, Working
  <1>5. CASE UNCHANGED <<runs, ended>>
    <2>1. OnlyRefresh(n)
      BY <1>2, <1>5 DEF OnlyRefresh, Shapes
    <2>2. StartedFinal(n)'
      BY <1>5, ControlParts DEF StartedFinal
    <2> QED  BY <1>4, <1>5, <2>1, <2>2, OnlyRefreshControl
  <1>6. CASE ~UNCHANGED <<runs, ended>>
    <2>1. \A c \in left : c \in Calendars /\ runs[n][c].started
      BY <1>1, <1>2, <1>6, ReadingTyped
    <2>2. \A c \in Calendars : IF c \in left THEN runs'[n][c].status = status /\ runs'[n][c].started
                              ELSE runs'[n][c] = runs[n][c]
      <3> SUFFICES ASSUME NEW c \in Calendars
                   PROVE  IF c \in left THEN runs'[n][c].status = status /\ runs'[n][c].started
                          ELSE runs'[n][c] = runs[n][c]
        OBVIOUS
      <3>1. PICK row \in RunRows : row = runs[n][c]
        BY DEF Shapes
      <3>2. runs'[n][c] = IF c \in left THEN [row EXCEPT !.status = status, !.evidence = FALSE] ELSE row
        BY <1>2, <1>6, <3>1
      <3> QED  BY <2>1, <3>1, <3>2 DEF RunRows
    <2>3. \A m \in Refreshes \ {n} : runs'[m] = runs[m]
      <3> SUFFICES ASSUME NEW m \in Refreshes \ {n} PROVE runs'[m] = runs[m]
        OBVIOUS
      <3>1. \A c \in Calendars : runs'[m][c] = runs[m][c]
        BY <1>2, <1>6
      <3>2. runs'[m] \in [Calendars -> RunRows] /\ runs[m] \in [Calendars -> RunRows]
        BY <1>2, <1>6 DEF Shapes
      <3> QED  BY <3>1, <3>2
    <2>4. OnlyRefresh(n)
      BY <1>2, <2>3 DEF OnlyRefresh, Shapes
    <2>5. StartedFinal(n)'
      BY <2>2, ControlParts DEF StartedFinal
    <2>6. \A m \in Refreshes : Placed(m)' /\ StartedFinal(m)'
      BY <1>4, <2>4, <2>5, OthersPlaced
    <2>7. EndedFinal'
      <3>1. ASSUME NEW k \in DOMAIN ended
            PROVE  runs'[ended'[k][1]][ended'[k][2]].status \in Final
        <4>1. runs[ended[k][1]][ended[k][2]].status \in Final
          BY DEF Control
        <4>2. runs'[ended[k][1]][ended[k][2]].status \in Final
          BY <2>2, <2>3, <4>1, EndedTyped DEF Final
        <4> QED  BY <1>2, <1>6, <4>2
      <3>2. ASSUME NEW k \in DOMAIN ended' \ DOMAIN ended
            PROVE  runs'[ended'[k][1]][ended'[k][2]].status \in Final
        <4>1. PICK j \in DOMAIN req[n].todo : ended'[k] = <<n, req[n].todo[j]>>
          BY <1>2, <1>6
        <4>2. req[n].todo[j] \in left
          BY <4>1 DEF ToSet
        <4> QED  BY <2>1, <2>2, <4>1, <4>2 DEF Final
      <3> QED  BY <3>1, <3>2 DEF EndedFinal
    <2> QED  BY <2>6, <2>7 DEF Control, StartedFinal, EndedFinal
  <1> QED  BY <1>5, <1>6

LEMMA ControlStep ==
    ASSUME Shapes, Shapes', Control, [Next]_calendarVars
    PROVE  Control'
  <1>1. CASE Configure
    BY <1>1, ConfigureControl
  <1>2. ASSUME NEW c \in Calendars, NEW o \in Occurrences,
               \/ AddEvent(c, o) \/ RemoveEvent(c, o)
               \/ \E content \in Contents : EditEvent(c, o, content)
        PROVE  Control'
    <2>1. PICK loses \in BOOLEAN : Change(c, loses)
      BY <1>2 DEF AddEvent, RemoveEvent, EditEvent
    <2> QED  BY <2>1, GoogleControl
  <1>3. ASSUME NEW n \in Refreshes, NEW v \in 1 .. MaxRevision, Claim(n, v)
        PROVE  Control'
    BY <1>3, ClaimControl
  <1>4. ASSUME NEW n \in Refreshes, Authorize(n) \/ BeginCalendar(n) \/ FetchPage(n) \/ WritePage(n)
        PROVE  Control'
    BY <1>4, AuthorizeControl, BeginControl, FetchControl, WriteControl
  <1>5. ASSUME NEW n \in Refreshes, Seal(n) \/ Failing(n)
        PROVE  Control'
    BY <1>5, SealedControl, FailingControl DEF Seal
  <1>6. ASSUME NEW n \in Refreshes, Crash(n)
        PROVE  Control'
    <2>1. "dead" \in Places
      BY DEF Places
    <2>2. /\ req' = [req EXCEPT ![n] = Left(n, "dead")] /\ UNCHANGED <<revs, runs, ended, seen>>
      BY <1>6 DEF Crash, Go
    <2>3. req'[n].at = "dead" /\ req'[n].rev \in DOMAIN revs
      <3>1. Left(n, "dead").at = "dead" /\ Left(n, "dead").rev = req[n].rev
        BY <2>1, LeftTyped
      <3>2. req[n].rev \in DOMAIN revs
        BY <1>6, ControlParts DEF Crash, Placed
      <3> QED  BY <2>2, <3>1, <3>2 DEF Shapes
    <2>4. OnlyRefresh(n)
      BY <2>2 DEF OnlyRefresh, Shapes
    <2>5. Placed(n)' /\ StartedFinal(n)'
      BY <2>2, <2>3, ControlParts DEF Placed, Working, StartedFinal
    <2> QED  BY <2>2, <2>4, <2>5, OnlyRefreshControl
  <1>7. CASE UNCHANGED calendarVars
    BY <1>7 DEF calendarVars, Control, Placed, Claimed, Open, Untouched, Reading
  <1> QED  BY <1>1, <1>2, <1>3, <1>4, <1>5, <1>6, <1>7, StepCases

\* Every reachable state has its shapes and its workers in place.
LEMMA Placement == Spec => [](Shapes /\ Control)
  <1>1. Init => Shapes /\ Control
    BY ShapesInit, ControlInit
  <1>2. Shapes /\ Control /\ [Next]_calendarVars => (Shapes /\ Control)'
    BY ShapesStep, ControlStep
  <1> QED  BY <1>1, <1>2, PTL DEF Spec

\* Rows and locals keep their shapes in every reachable state; a run that ended had
\* started, and a page number never passes the ceiling.
THEOREM CalendarTypes == Spec => []TypeOK
  <1>1. Shapes /\ Control => TypeOK
    <2> SUFFICES ASSUME Shapes, Control PROVE TypeOK
      OBVIOUS
    <2>1. \A n \in Refreshes :
              /\ req[n].at \in Places /\ req[n].page \in 1 .. MaxPages
              /\ req[n].rev \in 0 .. Len(revs) /\ Len(req[n].got) <= PageSize
      BY LenProperties DEF Shapes, ReqRows
    <2>2. \A n \in Refreshes, c \in Calendars :
              runs[n][c].status \in {"succeeded", "incomplete", "failed"} => runs[n][c].started
      BY DEF Control, Final
    <2> QED  BY <2>1, <2>2 DEF Shapes, TypeOK
  <1> QED  BY <1>1, Placement, PTL

-----------------------------------------------------------------------------
(* The record: what a step may add and what it may never touch.            *)

EventsGrow ==
    \A i \in Identities, o \in Occurrences :
        \A k \in DOMAIN events[i][o] : k \in DOMAIN events'[i][o] /\ events'[i][o][k] = events[i][o][k]

EndedGrows == \A k \in DOMAIN ended : k \in DOMAIN ended' /\ ended'[k] = ended[k]

\* A refresh keeps the revision it claimed, and a run that is over keeps its row and its
\* observations.
OverKept ==
    \A n \in Refreshes :
        /\ req[n].at # "none" => req'[n].rev = req[n].rev
        /\ \A c \in Calendars : runs[n][c].status \in Final =>
              runs'[n][c] = runs[n][c] /\ seen'[n][c] = seen[n][c]

Record == EventsGrow /\ EndedGrows /\ OverKept

LEMMA QuietRecord ==
    ASSUME UNCHANGED <<runs, ended, events, seen>>,
           \A n \in Refreshes : req'[n].rev = req[n].rev
    PROVE  Record
  BY DEF Record, EventsGrow, EndedGrows, OverKept

LEMMA ChangeRecord ==
    ASSUME Shapes, NEW c \in Calendars, NEW loses \in BOOLEAN, Change(c, loses)
    PROVE  /\ UNCHANGED <<revs, runs, ended, events, seen>>
           /\ \A n \in Refreshes :
                 /\ req'[n].at = req[n].at /\ req'[n].rev = req[n].rev /\ req'[n].todo = req[n].todo
                 /\ req'[n].page = req[n].page /\ req'[n].got = req[n].got /\ req'[n].more = req[n].more
                 /\ req'[n].base = req[n].base
  <1>1. UNCHANGED <<revs, runs, ended, events, seen>>
    BY DEF Change
  <1> SUFFICES ASSUME NEW n \in Refreshes
               PROVE  /\ req'[n].at = req[n].at /\ req'[n].rev = req[n].rev /\ req'[n].todo = req[n].todo
                      /\ req'[n].page = req[n].page /\ req'[n].got = req[n].got /\ req'[n].more = req[n].more
                      /\ req'[n].base = req[n].base
    BY <1>1
  <1>2. PICK row \in ReqRows : row = req[n]
    BY DEF Shapes
  <1>3. req'[n] = row \/ req'[n] = [row EXCEPT !.changed = TRUE, !.lost = @ \/ loses]
    BY <1>2 DEF Change
  <1> QED  BY <1>2, <1>3 DEF ReqRows

LEMMA RecordStep ==
    ASSUME Shapes, Control, [Next]_calendarVars
    PROVE  Record
  <1>1. CASE Configure
    <2>1. UNCHANGED <<google, changes, runs, ended, events, seen, req>>
      BY <1>1, ConfigureAppends DEF AppendRevision
    <2> QED  BY <2>1, QuietRecord
  <1>2. ASSUME NEW c \in Calendars, NEW o \in Occurrences,
               \/ AddEvent(c, o) \/ RemoveEvent(c, o)
               \/ \E content \in Contents : EditEvent(c, o, content)
        PROVE  Record
    <2>1. PICK loses \in BOOLEAN : Change(c, loses)
      BY <1>2 DEF AddEvent, RemoveEvent, EditEvent
    <2> QED  BY <2>1, ChangeRecord, QuietRecord
  <1>3. ASSUME NEW n \in Refreshes, NEW v \in 1 .. MaxRevision, Claim(n, v)
        PROVE  Record
    <2>1. req[n].at = "none" /\ UNCHANGED <<ended, events, seen>>
      BY <1>3 DEF Claim
    <2>2. \A m \in Refreshes \ {n} : req'[m] = req[m] /\ runs'[m] = runs[m]
      BY <1>3 DEF Claim, Shapes
    <2>3. \A c \in Calendars : runs[n][c].status \notin Final
      BY <2>1 DEF Control, Placed, NoRun, Final
    <2> QED  BY <2>1, <2>2, <2>3 DEF Record, EventsGrow, EndedGrows, OverKept
  <1>4. ASSUME NEW n \in Refreshes, Authorize(n)
        PROVE  Record
    <2>1. /\ UNCHANGED <<runs, ended, events, seen>>
          /\ req' = [req EXCEPT ![n] = [req[n] EXCEPT !.at = "begin"]]
      BY <1>4 DEF Authorize, Go
    <2>2. \A m \in Refreshes : req'[m].rev = req[m].rev
      BY <2>1 DEF Shapes, ReqRows
    <2> QED  BY <2>1, <2>2, QuietRecord
  <1>5. ASSUME NEW n \in Refreshes, BeginCalendar(n)
        PROVE  Record
    <2> DEFINE c == Reading(n)
    <2>1. req[n].at = "begin" /\ req[n].at \in Working
      BY <1>5 DEF BeginCalendar, Step, Working, Places
    <2>2. c \in Calendars /\ runs[n][c].status = "claimed"
      BY <2>1, ReadingTyped DEF Open, Inside
    <2>3. /\ runs' = [runs EXCEPT ![n][c] = [runs[n][c] EXCEPT !.status = "running", !.started = TRUE]]
          /\ UNCHANGED <<ended, events, seen>>
      BY <1>5 DEF BeginCalendar
    <2>4. \A m \in Refreshes : req'[m].rev = req[m].rev
      BY <1>5 DEF BeginCalendar, Shapes, ReqRows
    <2> HIDE DEF c
    <2>5. \A m \in Refreshes, d \in Calendars : runs[m][d].status \in Final => runs'[m][d] = runs[m][d]
      BY <2>2, <2>3 DEF Shapes, Final
    <2> QED  BY <2>3, <2>4, <2>5 DEF Record, EventsGrow, EndedGrows, OverKept
  <1>6. ASSUME NEW n \in Refreshes, FetchPage(n)
        PROVE  Record
    <2>1. PICK got, more : req' = [req EXCEPT ![n] = [req[n] EXCEPT !.at = "write", !.more = more, !.got = got]]
      BY <1>6, FetchedPage
    <2>2. UNCHANGED <<runs, ended, events, seen>>
      BY <1>6 DEF FetchPage, Go
    <2>3. \A m \in Refreshes : req'[m].rev = req[m].rev
      BY <2>1 DEF Shapes, ReqRows
    <2> QED  BY <2>2, <2>3, QuietRecord
  <1>7. ASSUME NEW n \in Refreshes, WritePage(n)
        PROVE  Record
    <2> DEFINE c == Reading(n)
               i == <<req[n].rev, c>>
               rows == PageRowsOf(n)
               record == SeenAfter(n)
               row == [runs[n][c] EXCEPT !.items = runs[n][c].items + Cardinality(Here(n))]
               place == AfterPage(n)
               page == IF place = "fetch" THEN req[n].page + 1 ELSE req[n].page
    <2>1. /\ Step(n, "write") /\ i \in Identities
          /\ \A o \in Occurrences : \A k \in DOMAIN events[i][o] : k \in DOMAIN rows[o] /\ rows[o][k] = events[i][o][k]
          /\ events' = [events EXCEPT ![i] = rows]
          /\ seen' = [seen EXCEPT ![n][c] = record] /\ runs' = [runs EXCEPT ![n][c] = row]
          /\ req' = [req EXCEPT ![n] = [req[n] EXCEPT !.at = place, !.got = <<>>, !.more = FALSE, !.page = page]]
          /\ ended' = ended
      BY <1>7, WriteEffect
    <2>2. c \in Calendars /\ runs[n][c].status = "running"
      <3>1. req[n].at \in Working /\ req[n].at \in Inside
        BY <2>1 DEF Step, Working, Places, Inside
      <3> QED  BY <3>1, ReadingTyped DEF Open
    <2> HIDE DEF c, i, rows, record, row, place, page
    <2>3. \A m \in Refreshes : req'[m].rev = req[m].rev
      BY <2>1 DEF Shapes, ReqRows
    <2>4. \A m \in Refreshes, d \in Calendars :
              runs[m][d].status \in Final => runs'[m][d] = runs[m][d] /\ seen'[m][d] = seen[m][d]
      BY <2>1, <2>2 DEF Shapes, Final
    <2>5. EventsGrow
      BY <2>1 DEF Shapes, EventsGrow
    <2> QED  BY <2>1, <2>3, <2>4, <2>5 DEF Record, EndedGrows, OverKept
  <1>8. ASSUME NEW n \in Refreshes, Seal(n)
        PROVE  Record
    <2> DEFINE c == Reading(n)
               rest == Tail(req[n].todo)
    <2>1. req[n].at = "seal" /\ req[n].at \in Working
      BY <1>8 DEF Seal, Sealed, Step, Working, Places
    <2>2. c \in Calendars /\ runs[n][c].status = "running"
      BY <2>1, ReadingTyped DEF Open, Inside
    <2>3. /\ runs' = [runs EXCEPT ![n][c] = [runs[n][c] EXCEPT !.status = "succeeded", !.evidence = TRUE]]
          /\ ended' = Append(ended, <<n, c>>) /\ UNCHANGED <<events, seen>>
      BY <1>8 DEF Seal, Sealed
    <2>4. \A m \in Refreshes : req'[m].rev = req[m].rev
      <3>1. req' = [req EXCEPT ![n] = [Fresh EXCEPT !.rev = req[n].rev, !.todo = rest,
                                       !.at = IF rest = <<>> THEN "done" ELSE "begin"]]
        BY <1>8 DEF Seal, Sealed
      <3> QED  BY <3>1 DEF Shapes, Fresh
    <2> HIDE DEF c
    <2>5. \A m \in Refreshes, d \in Calendars : runs[m][d].status \in Final => runs'[m][d] = runs[m][d]
      BY <2>2, <2>3 DEF Shapes, Final
    <2>6. EndedGrows
      BY <2>2, <2>3, AppendProperties, LenProperties DEF Shapes, EndedGrows
    <2> QED  BY <2>3, <2>4, <2>5, <2>6 DEF Record, EventsGrow, OverKept
  <1>9. ASSUME NEW n \in Refreshes, Failing(n)
        PROVE  Record
    <2> DEFINE left == ToSet(req[n].todo)
    <2>1. PICK status \in {"incomplete", "failed"} : req[n].at \in Working /\ Fail(n, status)
      BY <1>9 DEF Failing
    <2>2. /\ req' = [req EXCEPT ![n] = Left(n, "done")] /\ UNCHANGED <<events, seen>>
          /\ \/ UNCHANGED <<runs, ended>>
             \/ /\ \A m \in Refreshes, c \in Calendars :
                       runs'[m][c] = IF m = n /\ c \in left
                                     THEN [runs[m][c] EXCEPT !.status = status, !.evidence = FALSE]
                                     ELSE runs[m][c]
                /\ \A k \in DOMAIN ended : k \in DOMAIN ended' /\ ended'[k] = ended[k]
      BY <2>1, FailEffect
    <2>3. \A m \in Refreshes : req'[m].rev = req[m].rev
      <3>1. "done" \in Places
        BY DEF Places
      <3>2. Left(n, "done").rev = req[n].rev
        BY <3>1, LeftTyped
      <3> QED  BY <2>2, <3>2 DEF Shapes
    <2>4. \A c \in left : c \in Calendars /\ runs[n][c].status \notin Final
      BY <2>1, ReadingTyped DEF Open, Final
    <2>5. \A m \in Refreshes, c \in Calendars : runs[m][c].status \in Final => runs'[m][c] = runs[m][c]
      BY <2>2, <2>4
    <2>6. EndedGrows
      BY <2>2 DEF EndedGrows
    <2> QED  BY <2>2, <2>3, <2>5, <2>6 DEF Record, EventsGrow, OverKept
  <1>10. ASSUME NEW n \in Refreshes, Crash(n)
         PROVE  Record
    <2>1. /\ UNCHANGED <<runs, ended, events, seen>> /\ req' = [req EXCEPT ![n] = Left(n, "dead")]
      BY <1>10 DEF Crash, Go
    <2>2. "dead" \in Places
      BY DEF Places
    <2>3. \A m \in Refreshes : req'[m].rev = req[m].rev
      <3>1. Left(n, "dead").rev = req[n].rev
        BY <2>2, LeftTyped
      <3> QED  BY <2>1, <3>1 DEF Shapes
    <2> QED  BY <2>1, <2>3, QuietRecord
  <1>11. CASE UNCHANGED calendarVars
    BY <1>11, QuietRecord DEF calendarVars
  <1> QED  BY <1>1, <1>2, <1>3, <1>4, <1>5, <1>6, <1>7, <1>8, <1>9, <1>10, <1>11, StepCases

-----------------------------------------------------------------------------
(* Third layer: the evidence is whole.                                     *)

EventsDistinct == \A i \in Identities, o \in Occurrences : IsInjective(events[i][o])

LEMMA WholeInit ==
    ASSUME Init
    PROVE  Whole
  <1>1. \A n \in Refreshes, c \in Calendars : Sound(n, c)
    <2> SUFFICES ASSUME NEW n \in Refreshes, NEW c \in Calendars PROVE Sound(n, c)
      OBVIOUS
    <2>1. runs[n][c] = NoRun /\ seen[n][c] = <<>> /\ DOMAIN <<>> = {}
      BY DEF Init
    <2>2. IsFiniteSet({}) /\ Cardinality({}) = 0
      BY FS_EmptySet
    <2> QED  BY <2>1, <2>2 DEF Sound, Counted, NoRun
  <1>2. EventsDistinct
    BY DEF Init, EventsDistinct, IsInjective
  <1>3. IsInjective(ended)
    BY DEF Init, IsInjective
  <1> QED  BY <1>1, <1>2, <1>3 DEF Whole, EventsDistinct

\* An observation is made of a calendar identity of the account.
LEMMA SeenIdentity ==
    ASSUME Shapes, Control, NEW n \in Refreshes, NEW c \in Calendars, NEW o \in DOMAIN seen[n][c]
    PROVE  /\ req[n].at # "none" /\ <<req[n].rev, c>> \in Identities /\ o \in Occurrences
           /\ seen[n][c][o] \in Nat
  <1>1. seen[n][c] \in Observations
    BY DEF Shapes
  <1>2. o \in Occurrences /\ seen[n][c][o] \in Nat
    BY <1>1, ObservationShape
  <1>3. req[n].at # "none" /\ req[n].rev \in DOMAIN revs
    BY DEF Control, Placed, Untouched
  <1>4. req[n].rev \in 1 .. Len(revs) /\ Len(revs) \in Nat /\ Len(revs) <= MaxRevision
    BY <1>3, LenProperties DEF Shapes
  <1>5. req[n].rev \in 1 .. MaxRevision
    BY <1>4, CalendarAssumption
  <1> QED  BY <1>2, <1>3, <1>5 DEF Identities

\* A run whose row and observations a step leaves alone stays sound.
LEMMA SoundKept ==
    ASSUME Shapes, Control, Record, NEW n \in Refreshes, NEW c \in Calendars, Sound(n, c),
           runs'[n][c] = runs[n][c], seen'[n][c] = seen[n][c]
    PROVE  Sound(n, c)'
  <1>1. IsFiniteSet(DOMAIN seen'[n][c]) /\ Counted(n, c)'
    BY DEF Sound, Counted
  <1>2. ASSUME NEW o \in DOMAIN seen[n][c]
        PROVE  seen[n][c][o] \in DOMAIN events'[<<req'[n].rev, c>>][o]
    <2>1. /\ <<req[n].rev, c>> \in Identities /\ o \in Occurrences /\ req'[n].rev = req[n].rev
      BY SeenIdentity DEF Record, OverKept
    <2>2. seen[n][c][o] \in DOMAIN events[<<req[n].rev, c>>][o]
      BY DEF Sound
    <2> QED  BY <2>1, <2>2 DEF Record, EventsGrow
  <1>3. \A p \in ToSet(ended) : p \in ToSet(ended')
    BY DEF Record, EndedGrows, ToSet
  <1> QED  BY <1>1, <1>2, <1>3 DEF Sound

LEMMA QuietWhole ==
    ASSUME Shapes, Control, Whole, Record, UNCHANGED <<runs, seen, events, ended>>
    PROVE  Whole'
  <1>1. \A n \in Refreshes, c \in Calendars : Sound(n, c)'
    BY SoundKept DEF Whole
  <1> QED  BY <1>1 DEF Whole

LEMMA ClaimWhole ==
    ASSUME Shapes, Control, Whole, Record, NEW n \in Refreshes, NEW v \in 1 .. MaxRevision, Claim(n, v)
    PROVE  Whole'
  <1>1. req[n].at = "none" /\ UNCHANGED <<ended, events, seen>>
    BY DEF Claim
  <1>2. \A m \in Refreshes \ {n} : runs'[m] = runs[m]
    BY DEF Claim, Shapes
  <1>3. ASSUME NEW c \in Calendars PROVE Sound(n, c)'
    <2>1. DOMAIN seen[n][c] = {}
      BY <1>1 DEF Control, Placed, Untouched
    <2>2. runs'[n][c].items = 0 /\ runs'[n][c].evidence = FALSE /\ runs'[n][c].status # "succeeded"
      BY DEF Claim, Shapes, NoRun
    <2>3. IsFiniteSet({}) /\ Cardinality({}) = 0
      BY FS_EmptySet
    <2> QED  BY <1>1, <2>1, <2>2, <2>3 DEF Sound, Counted
  <1>4. ASSUME NEW m \in Refreshes \ {n}, NEW c \in Calendars PROVE Sound(m, c)'
    BY <1>1, <1>2, SoundKept DEF Whole
  <1> QED  BY <1>1, <1>3, <1>4 DEF Whole

LEMMA BeginWhole ==
    ASSUME Shapes, Control, Whole, Record, NEW n \in Refreshes, BeginCalendar(n)
    PROVE  Whole'
  <1>1. req[n].at = "begin" /\ req[n].at \in Working
    BY DEF BeginCalendar, Step, Working, Places
  <1>0. PICK c \in Calendars : c = Reading(n)
    BY <1>1, ReadingTyped
  <1>2. c \in Calendars /\ runs[n][c].status = "claimed" /\ Untouched(n, c)
    BY <1>0, <1>1, ReadingTyped DEF Open, Inside
  <1>3. /\ runs' = [runs EXCEPT ![n][c] = [runs[n][c] EXCEPT !.status = "running", !.started = TRUE]]
        /\ UNCHANGED <<ended, events, seen>>
    BY <1>0 DEF BeginCalendar
  <1>4. PICK row \in RunRows : row = runs[n][c]
    BY <1>2 DEF Shapes
  <1>5. runs'[n][c] = [row EXCEPT !.status = "running", !.started = TRUE]
    BY <1>2, <1>3, <1>4 DEF Shapes
  <1>6. runs'[n][c].items = 0 /\ runs'[n][c].evidence = FALSE /\ runs'[n][c].status = "running"
    <2>1. row.items = 0 /\ ~row.evidence
      BY <1>2, <1>4 DEF Untouched, Whole, Sound
    <2> QED  BY <1>4, <1>5, <2>1 DEF RunRows
  <1>7. Sound(n, c)'
    <2>1. IsFiniteSet({}) /\ Cardinality({}) = 0
      BY FS_EmptySet
    <2>2. DOMAIN seen'[n][c] = {}
      BY <1>2, <1>3 DEF Untouched
    <2>3. runs'[n][c].status # "succeeded"
      BY <1>6
    <2> QED  BY <1>6, <2>1, <2>2, <2>3 DEF Sound, Counted
  <1>8. ASSUME NEW m \in Refreshes, NEW d \in Calendars, ~(m = n /\ d = c) PROVE Sound(m, d)'
    <2>1. runs'[m][d] = runs[m][d] /\ seen'[m][d] = seen[m][d]
      BY <1>3, <1>8 DEF Shapes
    <2> QED  BY <2>1, SoundKept DEF Whole
  <1>9. \A m \in Refreshes, d \in Calendars : Sound(m, d)'
    BY <1>7, <1>8
  <1> QED  BY <1>3, <1>9 DEF Whole

LEMMA WriteWhole ==
    ASSUME Shapes, Control, Whole, Record, NEW n \in Refreshes, WritePage(n)
    PROVE  Whole'
  <1>0. PICK c \in Calendars : c = Reading(n)
    <2>1. req[n].at \in Working
      BY DEF WritePage, Step, Working, Places
    <2> QED  BY <2>1, ReadingTyped
  <1> DEFINE i == <<req[n].rev, c>>
             rows == PageRowsOf(n)
             here == Here(n)
             record == SeenAfter(n)
             row == [runs[n][c] EXCEPT !.items = runs[n][c].items + Cardinality(here)]
  <1>1. /\ Step(n, "write") /\ c \in Calendars /\ i \in Identities /\ ~Repeated(n)
        /\ here \subseteq Occurrences /\ IsFiniteSet(here)
        /\ rows \in [Occurrences -> Seq(Contents)]
        /\ \A o \in Occurrences : \A k \in DOMAIN events[i][o] : k \in DOMAIN rows[o] /\ rows[o][k] = events[i][o][k]
        /\ \A o \in Occurrences : IsInjective(events[i][o]) => IsInjective(rows[o])
        /\ \A o \in here : RevisionOf(rows[o], PageContent(n, o)) \in DOMAIN rows[o]
        /\ events' = [events EXCEPT ![i] = rows]
        /\ seen' = [seen EXCEPT ![n][c] = record] /\ runs' = [runs EXCEPT ![n][c] = row]
        /\ ended' = ended
    <2> DEFINE d == Reading(n)
               k0 == <<req[n].rev, d>>
    <2>1. /\ Step(n, "write") /\ d \in Calendars /\ k0 \in Identities /\ ~Repeated(n)
          /\ here \subseteq Occurrences /\ IsFiniteSet(here)
          /\ rows \in [Occurrences -> Seq(Contents)]
          /\ \A o \in Occurrences : \A k \in DOMAIN events[k0][o] : k \in DOMAIN rows[o] /\ rows[o][k] = events[k0][o][k]
          /\ \A o \in Occurrences : IsInjective(events[k0][o]) => IsInjective(rows[o])
          /\ \A o \in here : RevisionOf(rows[o], PageContent(n, o)) \in DOMAIN rows[o]
          /\ events' = [events EXCEPT ![k0] = rows]
          /\ seen' = [seen EXCEPT ![n][d] = record]
          /\ runs' = [runs EXCEPT ![n][d] = [runs[n][d] EXCEPT !.items = runs[n][d].items + Cardinality(here)]]
          /\ ended' = ended
      BY WriteEffect
    <2>2. d = c
      BY <1>0
    <2> HIDE DEF d, here, rows, record
    <2> QED  BY <2>1, <2>2
  <1>2. here \cap DOMAIN seen[n][c] = {}
    BY <1>0, <1>1 DEF Repeated, Here
  <1>3. runs[n][c].status = "running"
    <2>1. req[n].at \in Working /\ req[n].at \in Inside
      BY <1>1 DEF Step, Working, Places, Inside
    <2> QED  BY <1>0, <2>1, ReadingTyped DEF Open
  <1>4. req'[n].rev = req[n].rev
    <2>1. req[n].at # "none"
      BY <1>1 DEF Step
    <2> QED  BY <2>1 DEF Record, OverKept
  <1>5. Sound(n, c)
    BY <1>1 DEF Whole
  <1>6. DOMAIN record = DOMAIN seen[n][c] \cup here
        /\ \A o \in DOMAIN record : record[o] = IF o \in here THEN RevisionOf(rows[o], PageContent(n, o)) ELSE seen[n][c][o]
    BY <1>0 DEF SeenAfter
  <1>7. \A o \in DOMAIN seen[n][c] : o \in Occurrences /\ seen[n][c][o] \in DOMAIN events[i][o]
    BY <1>1, <1>5, SeenIdentity DEF Sound
  <1> HIDE DEF i, rows, here, record
  <1>8. seen'[n][c] = record /\ runs'[n][c] = row /\ events'[i] = rows
    BY <1>1 DEF Shapes
  <1>9. \A o \in DOMAIN record : record[o] \in DOMAIN events'[<<req'[n].rev, c>>][o]
    <2>1. <<req'[n].rev, c>> = i
      BY <1>4 DEF i
    <2>2. \A o \in DOMAIN record : record[o] \in DOMAIN rows[o]
      BY <1>1, <1>6, <1>7
    <2> QED  BY <1>8, <2>1, <2>2
  <1>10. runs[n][c] \in RunRows
    BY <1>1 DEF Shapes
  <1>11. IsFiniteSet(DOMAIN record) /\ Cardinality(DOMAIN record) = row.items
    <2>1. IsFiniteSet(DOMAIN seen[n][c]) /\ Cardinality(DOMAIN seen[n][c]) = runs[n][c].items
      BY <1>5 DEF Sound, Counted
    <2>2. /\ IsFiniteSet(DOMAIN seen[n][c] \cup here)
          /\ Cardinality(DOMAIN seen[n][c] \cup here)
             = Cardinality(DOMAIN seen[n][c]) + Cardinality(here) - Cardinality(DOMAIN seen[n][c] \cap here)
      BY <1>1, <2>1, FS_Union
    <2>3. DOMAIN seen[n][c] \cap here = {} /\ Cardinality(DOMAIN seen[n][c] \cap here) = 0
      BY <1>2, FS_EmptySet
    <2>4. Cardinality({}) = 0 /\ Cardinality(here) \in Nat /\ Cardinality(DOMAIN seen[n][c]) \in Nat
      BY <1>1, <2>1, FS_EmptySet, FS_CardinalityType
    <2>5. Cardinality(DOMAIN seen[n][c] \cup here) = Cardinality(DOMAIN seen[n][c]) + Cardinality(here)
      BY <2>2, <2>3, <2>4
    <2>6. row.items = runs[n][c].items + Cardinality(here)
      BY <1>10 DEF RunRows
    <2> QED  BY <1>6, <2>1, <2>2, <2>5, <2>6
  <1>12. row.status = "running" /\ ~row.evidence
    <2>1. ~runs[n][c].evidence
      BY <1>3, <1>5 DEF Sound
    <2> QED  BY <1>3, <1>10, <2>1 DEF RunRows
  <1> HIDE DEF row
  <1>13. Sound(n, c)'
    <2>1. IsFiniteSet(DOMAIN seen'[n][c]) /\ Counted(n, c)'
      BY <1>8, <1>11 DEF Counted
    <2>2. \A o \in DOMAIN seen'[n][c] : seen'[n][c][o] \in DOMAIN events'[<<req'[n].rev, c>>][o]
      BY <1>8, <1>9
    <2>3. ~runs'[n][c].evidence /\ runs'[n][c].status # "succeeded"
      BY <1>8, <1>12
    <2> QED  BY <2>1, <2>2, <2>3 DEF Sound
  <1>14. ASSUME NEW m \in Refreshes, NEW d \in Calendars, ~(m = n /\ d = c) PROVE Sound(m, d)'
    <2>1. runs'[m][d] = runs[m][d] /\ seen'[m][d] = seen[m][d]
      BY <1>1, <1>14 DEF Shapes
    <2> QED  BY <2>1, SoundKept DEF Whole
  <1>15. \A m \in Refreshes, d \in Calendars : Sound(m, d)'
    BY <1>13, <1>14
  <1>16. \A j \in Identities, o \in Occurrences : IsInjective(events'[j][o])
    <2>1. \A j \in Identities, o \in Occurrences : IsInjective(events[j][o])
      BY DEF Whole
    <2>2. \A j \in Identities : events'[j] = IF j = i THEN rows ELSE events[j]
      BY <1>1 DEF Shapes
    <2> QED  BY <1>1, <2>1, <2>2
  <1> QED  BY <1>1, <1>15, <1>16 DEF Whole

LEMMA SealedWhole ==
    ASSUME Shapes, Control, Whole, Record, NEW n \in Refreshes, Sealed(n)
    PROVE  Whole'
  <1>1. req[n].at = "seal" /\ req[n].at \in Working 
    BY DEF Sealed, Step, Working, Places
  <1>0. PICK c \in Calendars : c = Reading(n)
    BY <1>1, ReadingTyped
  <1>2. c \in Calendars /\ runs[n][c].status = "running"
    BY <1>0, <1>1, ReadingTyped DEF Open, Inside
  <1>3. /\ runs' = [runs EXCEPT ![n][c] = [runs[n][c] EXCEPT !.status = "succeeded", !.evidence = TRUE]]
        /\ ended' = Append(ended, <<n, c>>) /\ UNCHANGED <<events, seen>>
    BY <1>0 DEF Sealed
  <1>4. /\ Len(ended) \in Nat /\ DOMAIN ended = 1 .. Len(ended)
        /\ DOMAIN ended' = 1 .. Len(ended) + 1 /\ ended'[Len(ended) + 1] = <<n, c>>
        /\ \A k \in 1 .. Len(ended) : ended'[k] = ended[k]
    BY <1>2, <1>3, AppendProperties, LenProperties DEF Shapes
  <1>5. PICK row \in RunRows : row = runs[n][c]
    BY <1>2 DEF Shapes
  <1>6. runs'[n][c] = [row EXCEPT !.status = "succeeded", !.evidence = TRUE]
    BY <1>2, <1>3, <1>5 DEF Shapes
  <1>7. runs'[n][c].items = runs[n][c].items /\ runs'[n][c].evidence /\ runs'[n][c].status = "succeeded"
    BY <1>5, <1>6 DEF RunRows
  <1>8. Sound(n, c)'
    <2>1. Sound(n, c)
      BY <1>2 DEF Whole
    <2>2. <<n, c>> \in ToSet(ended')
      BY <1>4 DEF ToSet
    <2>3. req'[n].rev = req[n].rev
      BY <1>1 DEF Record, OverKept
    <2>4. IsFiniteSet(DOMAIN seen'[n][c]) /\ Counted(n, c)'
      BY <1>3, <1>7, <2>1 DEF Sound, Counted
    <2>5. \A o \in DOMAIN seen'[n][c] : seen'[n][c][o] \in DOMAIN events'[<<req'[n].rev, c>>][o]
      BY <1>3, <2>1, <2>3 DEF Sound
    <2> QED  BY <1>7, <2>2, <2>4, <2>5 DEF Sound
  <1>9. ASSUME NEW m \in Refreshes, NEW d \in Calendars, ~(m = n /\ d = c) PROVE Sound(m, d)'
    <2>1. runs'[m][d] = runs[m][d] /\ seen'[m][d] = seen[m][d]
      BY <1>3, <1>9 DEF Shapes
    <2> QED  BY <2>1, SoundKept DEF Whole
  <1>10. \A m \in Refreshes, d \in Calendars : Sound(m, d)'
    BY <1>8, <1>9
  <1>11. IsInjective(ended')
    <2>1. \A k \in DOMAIN ended : ended[k] # <<n, c>>
      BY <1>2, OpenNotEnded DEF Final
    <2>2. IsInjective(ended)
      BY DEF Whole
    <2> QED  BY <1>4, <2>1, <2>2 DEF IsInjective
  <1> QED  BY <1>3, <1>10, <1>11 DEF Whole

LEMMA FailingWhole ==
    ASSUME Shapes, Control, Whole, Record, NEW n \in Refreshes, Failing(n)
    PROVE  Whole'
  <1> DEFINE left == ToSet(req[n].todo)
  <1>1. PICK status \in {"incomplete", "failed"} : req[n].at \in Working /\ Fail(n, status)
    BY DEF Failing
  <1>2. CASE UNCHANGED <<runs, ended>>
    <2>1. UNCHANGED <<events, seen>>
      BY <1>1, FailEffect
    <2> QED  BY <1>2, <2>1, QuietWhole
  <1>3. CASE ~UNCHANGED <<runs, ended>>
    <2>1. /\ UNCHANGED <<events, seen>>
          /\ \A m \in Refreshes, c \in Calendars :
                 runs'[m][c] = IF m = n /\ c \in left
                               THEN [runs[m][c] EXCEPT !.status = status, !.evidence = FALSE]
                               ELSE runs[m][c]
          /\ ended' \in Seq(Refreshes \X Calendars)
          /\ \A k \in DOMAIN ended : k \in DOMAIN ended' /\ ended'[k] = ended[k]
          /\ \A k \in DOMAIN ended' \ DOMAIN ended :
                 /\ k - Len(ended) \in DOMAIN req[n].todo
                 /\ ended'[k] = <<n, req[n].todo[k - Len(ended)]>>
      BY <1>1, <1>3, FailEffect
    <2>2. /\ left \subseteq Calendars /\ IsInjective(req[n].todo)
          /\ \A c \in left : runs[n][c].status \notin Final
      BY <1>1, ReadingTyped DEF Open, Final
    <2>3. ASSUME NEW c \in left PROVE Sound(n, c)'
      <3>1. PICK row \in RunRows : row = runs[n][c]
        BY <2>2 DEF Shapes
      <3>2. runs'[n][c] = [row EXCEPT !.status = status, !.evidence = FALSE]
        BY <2>1, <2>2, <3>1
      <3>3. runs'[n][c].items = runs[n][c].items /\ runs'[n][c].evidence = FALSE /\ runs'[n][c].status = status
        BY <3>1, <3>2 DEF RunRows
      <3>4. req'[n].rev = req[n].rev
        BY <1>1 DEF Record, OverKept, Working
      <3>5. Sound(n, c)
        BY <2>2 DEF Whole
      <3> QED  BY <2>1, <3>3, <3>4, <3>5 DEF Sound, Counted
    <2>4. ASSUME NEW m \in Refreshes, NEW c \in Calendars, ~(m = n /\ c \in left) PROVE Sound(m, c)'
      BY <2>1, <2>4, SoundKept DEF Whole
    <2>5. \A m \in Refreshes, c \in Calendars : Sound(m, c)'
      BY <2>3, <2>4
    <2>6. IsInjective(ended')
      <3> SUFFICES ASSUME NEW a \in DOMAIN ended', NEW b \in DOMAIN ended', ended'[a] = ended'[b]
                   PROVE  a = b
        BY DEF IsInjective
      <3>0. ended \in Seq(Refreshes \X Calendars)
        BY DEF Shapes
      <3>1. a \in Nat /\ b \in Nat /\ Len(ended) \in Nat
        <4>1. DOMAIN ended' = 1 .. Len(ended') /\ Len(ended') \in Nat
          BY <2>1, LenProperties
        <4>2. Len(ended) \in Nat
          BY <3>0, LenProperties
        <4> QED  BY <4>1, <4>2
      <3>2. CASE a \in DOMAIN ended /\ b \in DOMAIN ended
        BY <2>1, <3>2 DEF Whole, IsInjective
      <3>3. \A k \in DOMAIN ended : ended'[k] = ended[k] /\ \A c \in left : ended[k] # <<n, c>>
        BY <2>1, <2>2, OpenNotEnded
      <3>4. \A k \in DOMAIN ended' \ DOMAIN ended : \E c \in left : ended'[k] = <<n, c>>
        BY <2>1 DEF ToSet
      <3>5. CASE a \notin DOMAIN ended /\ b \notin DOMAIN ended
        <4>0. /\ a - Len(ended) \in DOMAIN req[n].todo /\ ended'[a] = <<n, req[n].todo[a - Len(ended)]>>
              /\ b - Len(ended) \in DOMAIN req[n].todo /\ ended'[b] = <<n, req[n].todo[b - Len(ended)]>>
              /\ ended'[a] = ended'[b]
          BY <2>1, <3>5
        <4>1. PICK p, q : p = a - Len(ended) /\ q = b - Len(ended)
          OBVIOUS
        <4>2. /\ p \in DOMAIN req[n].todo /\ q \in DOMAIN req[n].todo
              /\ <<n, req[n].todo[p]>> = <<n, req[n].todo[q]>>
          BY <4>0, <4>1
        <4>3. p = q
          BY <2>2, <4>2 DEF IsInjective
        <4> QED  BY <3>1, <4>1, <4>3
      <3> QED  BY <3>2, <3>3, <3>4, <3>5
    <2> QED  BY <2>1, <2>5, <2>6 DEF Whole
  <1> QED  BY <1>2, <1>3

LEMMA WholeStep ==
    ASSUME Shapes, Control, Whole, [Next]_calendarVars
    PROVE  Whole'
  <1>0. Record
    BY RecordStep
  <1>1. CASE Configure
    <2>1. UNCHANGED <<google, changes, runs, ended, events, seen, req>>
      BY <1>1, ConfigureAppends DEF AppendRevision
    <2> QED  BY <1>0, <2>1, QuietWhole
  <1>2. ASSUME NEW c \in Calendars, NEW o \in Occurrences,
               \/ AddEvent(c, o) \/ RemoveEvent(c, o)
               \/ \E content \in Contents : EditEvent(c, o, content)
        PROVE  Whole'
    <2>1. PICK loses \in BOOLEAN : Change(c, loses)
      BY <1>2 DEF AddEvent, RemoveEvent, EditEvent
    <2> QED  BY <1>0, <2>1, QuietWhole DEF Change
  <1>3. ASSUME NEW n \in Refreshes, NEW v \in 1 .. MaxRevision, Claim(n, v)
        PROVE  Whole'
    BY <1>0, <1>3, ClaimWhole
  <1>4. ASSUME NEW n \in Refreshes, Authorize(n) \/ FetchPage(n) \/ Crash(n)
        PROVE  Whole'
    BY <1>0, <1>4, QuietWhole DEF Authorize, FetchPage, Crash, Go
  <1>5. ASSUME NEW n \in Refreshes, BeginCalendar(n) \/ WritePage(n) \/ Seal(n) \/ Failing(n)
        PROVE  Whole'
    BY <1>0, <1>5, BeginWhole, WriteWhole, SealedWhole, FailingWhole DEF Seal
  <1>6. CASE UNCHANGED calendarVars
    BY <1>0, <1>6, QuietWhole DEF calendarVars
  <1> QED  BY <1>1, <1>2, <1>3, <1>4, <1>5, <1>6, StepCases

LEMMA Wholeness == Spec => []Whole
  <1>1. Init => Whole
    BY WholeInit
  <1>2. Shapes /\ Control /\ Whole /\ [Next]_calendarVars => Whole'
    BY WholeStep
  <1> QED  BY <1>1, <1>2, Placement, PTL DEF Spec

\* The evidence a reader is answered from is whole in every reachable state: a run counts
\* exactly what it observed, each observation names a revision of the run's own identity,
\* a content has one revision, and a run has evidence exactly when it succeeded and is on
\* record as ended (record_event_revision, record_event_observation,
\* mark_observation_evidence_complete).
THEOREM EvidenceWhole == Spec => []EvidenceSound
  <1>1. Whole => EvidenceSound
    BY DEF Whole, Sound, EvidenceSound
  <1> QED  BY <1>1, Wholeness, PTL

-----------------------------------------------------------------------------
(* The newest of some recorded positions.                                  *)

\* A non-empty set of natural numbers has a least element.
LEMMA Least ==
    ASSUME NEW S \in SUBSET Nat, S # {}
    PROVE  \E n \in S : \A m \in S : n <= m
  <1> DEFINE T == {0 .. n : n \in S}
             R == StrictSubsetOrdering(Nat)
  <1>1. T \subseteq FiniteSubsetsOf(Nat) /\ T # {}
    <2>1. \A n \in S : IsFiniteSet(0 .. n) /\ 0 .. n \in SUBSET Nat
      BY FS_Interval
    <2> QED  BY <2>1 DEF FiniteSubsetsOf
  <1>2. IsWellFoundedOn(R, FiniteSubsetsOf(Nat))
    BY FS_StrictSubsetOrderingWellFounded
  <1> HIDE DEF T, R
  <1>3. PICK I \in T : \A J \in T : ~(<<J, I>> \in R)
    BY <1>1, <1>2, WFMin
  <1>4. PICK n \in S : I = 0 .. n
    BY DEF T
  <1>5. ASSUME NEW m \in S, m < n PROVE FALSE
    <2>1. /\ 0 .. m \in T /\ 0 .. m \subseteq 0 .. n /\ 0 .. m # 0 .. n
          /\ 0 .. m \in SUBSET Nat /\ I \in SUBSET Nat
      BY <1>4, <1>5 DEF T
    <2>2. <<0 .. m, I>> \in R
      BY <1>4, <2>1 DEF R, StrictSubsetOrdering
    <2> QED  BY <1>3, <2>1, <2>2
  <1> QED  BY <1>4, <1>5

LEMMA MaxExists ==
    ASSUME NEW n \in Nat, NEW S \in SUBSET (1 .. n), S # {}
    PROVE  Max(S) \in S /\ \A k \in S : k <= Max(S)
  <1> DEFINE T == {m \in Nat : \E k \in S : m = n - k}
  <1>1. T \in SUBSET Nat /\ T # {}
    <2>1. PICK k \in S : k \in 1 .. n
      OBVIOUS
    <2>2. n - k \in Nat
      BY <2>1
    <2> QED  BY <2>2
  <1>2. PICK m \in T : \A h \in T : m <= h
    BY <1>1, Least
  <1>3. PICK k \in S : m = n - k
    OBVIOUS
  <1>4. ASSUME NEW j \in S PROVE k >= j
    <2>1. j \in 1 .. n /\ k \in 1 .. n
      OBVIOUS
    <2>2. n - j \in T
      BY <2>1
    <2>3. n - k <= n - j
      BY <1>2, <1>3, <2>2
    <2> QED  BY <2>1, <2>3
  <1>5. \E x \in S : \A y \in S : x >= y
    BY <1>4
  <1>6. Max(S) \in S /\ \A y \in S : Max(S) >= y
    BY <1>5 DEF Max
  <1>7. \A y \in S : y \in Nat
    OBVIOUS
  <1> QED  BY <1>6, <1>7

LEMMA MaxIs ==
    ASSUME NEW S \in SUBSET Nat, NEW k \in S, \A j \in S : j <= k
    PROVE  Max(S) = k
  <1>1. \A j \in S : j \in Nat
    OBVIOUS
  <1>2. Max(S) \in S /\ \A j \in S : Max(S) >= j
    <2>1. \A j \in S : k >= j
      BY <1>1
    <2>2. \E x \in S : \A j \in S : x >= j
      BY <2>1
    <2> QED  BY <2>2 DEF Max
  <1>3. Max(S) \in Nat /\ k \in Nat /\ Max(S) <= k /\ Max(S) >= k
    BY <1>1, <1>2
  <1> QED  BY <1>3

-----------------------------------------------------------------------------
(* The evidence of an identity only grows by a run of it that succeeds.    *)

\* A run that is evidence is over, and its row, its observations and its revision stay.
LEMMA EvidenceOver ==
    ASSUME Shapes, Control, Whole, NEW i \in Identities, NEW k \in Evidence(i)
    PROVE  LET n == ended[k][1]  c == ended[k][2]
           IN  /\ k \in DOMAIN ended /\ k \in Nat /\ n \in Refreshes /\ c \in Calendars /\ i = <<req[n].rev, c>>
               /\ runs[n][c].status \in Final /\ Eligible(n, c) /\ req[n].at # "none"
               /\ \A o \in DOMAIN seen[n][c] : o \in Occurrences /\ seen[n][c][o] \in DOMAIN events[i][o]
  <1> DEFINE n == ended[k][1]
             c == ended[k][2]
  <1>1. k \in DOMAIN ended /\ i = <<req[n].rev, c>> /\ Eligible(n, c)
    BY DEF Evidence
  <1>2. n \in Refreshes /\ c \in Calendars /\ k \in Nat
    BY <1>1, EndedTyped
  <1> HIDE DEF n, c
  <1>3. runs[n][c].status = "succeeded"
    BY <1>1 DEF Eligible
  <1>4. req[n].at # "none"
    BY <1>2, <1>3 DEF Control, Placed, NoRun
  <1>5. \A o \in DOMAIN seen[n][c] : o \in Occurrences /\ seen[n][c][o] \in DOMAIN events[i][o]
    BY <1>1, <1>2, SeenIdentity DEF Whole, Sound
  <1> QED  BY <1>1, <1>2, <1>3, <1>4, <1>5 DEF Final, n, c

LEMMA EvidenceKept ==
    ASSUME Shapes, Control, Whole, Record, NEW i \in Identities, NEW k \in Evidence(i)
    PROVE  LET n == ended[k][1]  c == ended[k][2]
           IN  k \in Evidence(i)' /\ ended'[k] = ended[k] /\ seen'[n][c] = seen[n][c]
  <1> DEFINE n == ended[k][1]
             c == ended[k][2]
  <1>1. /\ k \in DOMAIN ended /\ n \in Refreshes /\ c \in Calendars /\ i = <<req[n].rev, c>>
        /\ runs[n][c].status \in Final /\ Eligible(n, c) /\ req[n].at # "none"
    BY EvidenceOver
  <1>2. /\ k \in DOMAIN ended' /\ ended'[k] = ended[k] /\ req'[n].rev = req[n].rev
        /\ runs'[n][c] = runs[n][c] /\ seen'[n][c] = seen[n][c]
    BY <1>1 DEF Record, EndedGrows, OverKept
  <1>3. /\ runs'[n][c].status = "succeeded" /\ runs'[n][c].evidence
        /\ Cardinality(DOMAIN seen'[n][c]) = runs'[n][c].items
    BY <1>1, <1>2 DEF Eligible, Counted
  <1>4. k \in Evidence(i)'
    BY <1>1, <1>2, <1>3 DEF Evidence, Eligible, Counted
  <1> QED  BY <1>2, <1>4

LEMMA EvidenceNew ==
    ASSUME Shapes, Control, Record, NEW i \in Identities, NEW k \in Evidence(i)', k \notin Evidence(i)
    PROVE  k \in DOMAIN ended' \ DOMAIN ended
  <1>1. k \in DOMAIN ended'
    BY DEF Evidence
  <1>2. ASSUME k \in DOMAIN ended PROVE FALSE
    <2>1. PICK n \in Refreshes, c \in Calendars : ended[k] = <<n, c>> /\ runs[n][c].status \in Final
      BY <1>2, EndedTyped DEF Control
    <2>2. req[n].at # "none"
      BY <2>1 DEF Control, Placed, NoRun, Final
    <2>3. /\ ended'[k] = <<n, c>> /\ req'[n].rev = req[n].rev
          /\ runs'[n][c] = runs[n][c] /\ seen'[n][c] = seen[n][c]
      BY <1>2, <2>1, <2>2 DEF Record, EndedGrows, OverKept
    <2>4. /\ <<req'[n].rev, c>> = i /\ runs'[n][c].status = "succeeded" /\ runs'[n][c].evidence
          /\ Cardinality(DOMAIN seen'[n][c]) = runs'[n][c].items
      BY <2>3 DEF Evidence, Eligible, Counted
    <2>5. k \in Evidence(i)
      BY <1>2, <2>1, <2>3, <2>4 DEF Evidence, Eligible, Counted
    <2> QED  BY <2>5
  <1> QED  BY <1>1, <1>2

\* Only sealing puts a run on record as ended with success.
LEMMA NewSuccess ==
    ASSUME Shapes, Control, [Next]_calendarVars, NEW k \in DOMAIN ended' \ DOMAIN ended,
           runs'[ended'[k][1]][ended'[k][2]].status = "succeeded"
    PROVE  \E n \in Refreshes :
              /\ Seal(n) /\ k = Len(ended) + 1 /\ ended'[k] = <<n, Reading(n)>>
  <1>1. ended' # ended
    OBVIOUS
  <1>2. CASE Configure
    BY <1>1, <1>2, ConfigureAppends DEF AppendRevision
  <1>3. ASSUME NEW c \in Calendars, NEW o \in Occurrences,
               \/ AddEvent(c, o) \/ RemoveEvent(c, o)
               \/ \E content \in Contents : EditEvent(c, o, content)
        PROVE  FALSE
    BY <1>1, <1>3 DEF AddEvent, RemoveEvent, EditEvent, Change
  <1>4. ASSUME NEW n \in Refreshes, NEW v \in 1 .. MaxRevision, Claim(n, v)
        PROVE  FALSE
    BY <1>1, <1>4 DEF Claim
  <1>5. ASSUME NEW n \in Refreshes,
               Authorize(n) \/ BeginCalendar(n) \/ FetchPage(n) \/ WritePage(n) \/ Crash(n)
        PROVE  FALSE
    BY <1>1, <1>5 DEF Authorize, BeginCalendar, FetchPage, WritePage, Crash, Go
  <1>6. ASSUME NEW n \in Refreshes, Seal(n)
        PROVE  k = Len(ended) + 1 /\ ended'[k] = <<n, Reading(n)>>
    <2>1. req[n].at \in Working /\ ended' = Append(ended, <<n, Reading(n)>>)
      BY <1>6 DEF Seal, Sealed, Step, Working, Places
    <2>2. /\ Len(ended) \in Nat /\ DOMAIN ended = 1 .. Len(ended)
          /\ DOMAIN ended' = 1 .. Len(ended) + 1 /\ ended'[Len(ended) + 1] = <<n, Reading(n)>>
      BY <2>1, ReadingTyped, AppendProperties, LenProperties DEF Shapes
    <2>3. k = Len(ended) + 1
      BY <2>2
    <2> QED  BY <2>2, <2>3
  <1>7. ASSUME NEW n \in Refreshes, Failing(n)
        PROVE  FALSE
    <2> DEFINE left == ToSet(req[n].todo)
    <2>1. PICK status \in {"incomplete", "failed"} : req[n].at \in Working /\ Fail(n, status)
      BY <1>7 DEF Failing
    <2>2. /\ \A m \in Refreshes, c \in Calendars :
                 runs'[m][c] = IF m = n /\ c \in left
                               THEN [runs[m][c] EXCEPT !.status = status, !.evidence = FALSE]
                               ELSE runs[m][c]
          /\ k - Len(ended) \in DOMAIN req[n].todo
          /\ ended'[k] = <<n, req[n].todo[k - Len(ended)]>>
      BY <1>1, <2>1, FailEffect
    <2>3. PICK c \in left : ended'[k] = <<n, c>>
      BY <2>2 DEF ToSet
    <2>4. c \in Calendars
      BY <2>1, ReadingTyped
    <2>5. PICK row \in RunRows : row = runs[n][c]
      BY <2>4 DEF Shapes
    <2>6. runs'[n][c] = [row EXCEPT !.status = status, !.evidence = FALSE]
      BY <2>2, <2>4, <2>5
    <2>7. runs'[n][c].status = status
      BY <2>5, <2>6 DEF RunRows
    <2> QED  BY <2>3, <2>7
  <1>8. CASE UNCHANGED calendarVars
    BY <1>1, <1>8 DEF calendarVars
  <1> QED  BY <1>2, <1>3, <1>4, <1>5, <1>6, <1>7, <1>8, StepCases

\* What is shown of an event follows from the evidence of its identity.
LEMMA ShownKept ==
    ASSUME Shapes, Control, Whole, Record, NEW i \in Identities, NEW o \in Occurrences,
           Evidence(i)' = Evidence(i)
    PROVE  Shown(i, o)' = Shown(i, o)
  <1>1. PICK L \in Nat : DOMAIN ended = 1 .. L
    BY LenProperties DEF Shapes
  <1>2. Evidence(i) \subseteq 1 .. L
    BY <1>1 DEF Evidence
  <1>3. \A k \in Evidence(i) : /\ ended'[k] = ended[k]
                              /\ seen'[ended[k][1]][ended[k][2]] = seen[ended[k][1]][ended[k][2]]
    BY EvidenceKept
  <1>4. \A k \in Evidence(i) : Observed(k, o)' = Observed(k, o)
    BY <1>3 DEF Observed
  <1>5. Sightings(i, o)' = Sightings(i, o) /\ Sightings(i, o) \subseteq Evidence(i)
    BY <1>4 DEF Sightings
  <1>6. CASE Sightings(i, o) = {}
    BY <1>5, <1>6 DEF Shown
  <1>7. CASE Sightings(i, o) # {}
    <2> DEFINE k == Max(Sightings(i, o))
    <2>1. k \in Sightings(i, o)
      BY <1>2, <1>5, <1>7, MaxExists
    <2>2. k \in Evidence(i) /\ Observed(k, o)
      BY <2>1 DEF Sightings
    <2>3. Projection(i, o)' = Projection(i, o)
      <3>1. PICK n, c : n = ended[k][1] /\ c = ended[k][2]
        OBVIOUS
      <3>2. o \in DOMAIN seen[n][c] /\ seen[n][c][o] \in DOMAIN events[i][o]
        BY <2>2, <3>1, EvidenceOver DEF Observed
      <3>3. events'[i][o][seen[n][c][o]] = events[i][o][seen[n][c][o]]
        BY <3>2 DEF Record, EventsGrow
      <3>4. Projection(i, o) = events[i][o][seen[n][c][o]]
        BY <3>1 DEF Projection
      <3>5. ended'[k] = ended[k] /\ seen'[n][c] = seen[n][c]
        BY <1>3, <2>2, <3>1
      <3>6. Projection(i, o)' = events'[i][o][seen'[n][c][o]]
        <4>1. Max(Sightings(i, o)') = k
          BY <1>5
        <4> HIDE DEF k
        <4>2. Projection(i, o)' = events'[i][o][seen'[ended'[k][1]][ended'[k][2]][o]]
          BY <4>1 DEF Projection
        <4> QED  BY <3>1, <3>5, <4>2
      <3> QED  BY <3>3, <3>4, <3>5, <3>6
    <2> DEFINE p == Projection(i, o)
               deciding == {j \in Evidence(i) : Observed(j, o) \/ Covered(j, Projection(i, o))}
    <2>4. deciding \subseteq 1 .. L /\ k \in deciding
      BY <1>2, <2>2
    <2>5. Max(deciding) \in deciding
      BY <2>4, MaxExists
    <2>6. \A j \in Evidence(i) : Covered(j, Projection(i, o))' = Covered(j, Projection(i, o))
      BY <1>3, <2>3 DEF Covered
    <2>7. deciding' = deciding
      BY <1>4, <2>6
    <2>8. Max(deciding)' = Max(deciding)
      BY <2>7
    <2>9. Observed(Max(deciding), o)' = Observed(Max(deciding), o)
      BY <1>3, <2>5, <2>8 DEF Observed
    <2>10. EffectiveState(i, o)' = EffectiveState(i, o)
      BY <2>9 DEF EffectiveState
    <2> QED  BY <1>5, <1>7, <2>3, <2>10 DEF Shown
  <1> QED  BY <1>6, <1>7

\* The step of EvidenceFenced: evidence that changed was added by a run that succeeds.
LEMMA FencedStep ==
    ASSUME Shapes, Control, Whole, [Next]_calendarVars, NEW i \in Identities, NEW o \in Occurrences,
           Shown(i, o)' # Shown(i, o)
    PROVE  /\ i[1] = Len(revs) /\ Current.life = "enabled"
           /\ \E n \in Refreshes : Succeeds(n, i)
  <1>0. Record
    BY RecordStep
  <1>1. Evidence(i)' # Evidence(i)
    BY <1>0, ShownKept
  <1>2. Evidence(i) \subseteq Evidence(i)'
    BY <1>0, EvidenceKept
  <1>3. PICK k \in Evidence(i)' : k \notin Evidence(i)
    BY <1>1, <1>2
  <1>4. k \in DOMAIN ended' \ DOMAIN ended
    BY <1>0, <1>3, EvidenceNew
  <1>5. /\ runs'[ended'[k][1]][ended'[k][2]].status = "succeeded"
        /\ <<req'[ended'[k][1]].rev, ended'[k][2]>> = i
    BY <1>3 DEF Evidence, Eligible
  <1>6. PICK n \in Refreshes : Seal(n) /\ ended'[k] = <<n, Reading(n)>>
    BY <1>4, <1>5, NewSuccess
  <1>7. PICK c : c = Reading(n)
    OBVIOUS
  <1>8. Step(n, "seal") /\ Fence(n) /\ req[n].at \in Working /\ req[n].at # "none"
    BY <1>6 DEF Seal, Sealed, Step, Working, Places
  <1>9. Claimed(n)
    BY <1>8, ReadingTyped
  <1>10. req'[n].rev = req[n].rev
    BY <1>0, <1>8 DEF Record, OverKept
  <1>11. ended'[k] = <<n, c>>
    BY <1>6, <1>7
  <1>12. i = <<req[n].rev, c>> /\ runs'[n][c].status = "succeeded"
    BY <1>5, <1>10, <1>11
  <1>13. Succeeds(n, i)
    BY <1>7, <1>8, <1>12 DEF Succeeds
  <1>14. i[1] = Len(revs) /\ Current.life = "enabled"
    BY <1>8, <1>9, <1>12 DEF Fence, Claimed, Current, Last
  <1> QED  BY <1>13, <1>14

\* What is shown of an event changes only when a run of its own calendar identity
\* succeeds, and then the account is still the one the run was claimed for (refresh, _fence).
THEOREM FencedEvidence == Spec => EvidenceFenced
  <1>1. Shapes /\ Control /\ Whole /\ [Next]_calendarVars =>
            [\A i \in Identities : (\E o \in Occurrences : Shown(i, o)' # Shown(i, o)) =>
                /\ i[1] = Len(revs) /\ Current.life = "enabled"
                /\ \E n \in Refreshes : Succeeds(n, i)]_calendarVars
    BY FencedStep
  <1> QED  BY <1>1, Placement, Wholeness, PTL DEF Spec, EvidenceFenced

-----------------------------------------------------------------------------
(* What a run reads of a calendar that changes under it.                   *)

\* Places that move up by one into a larger set keep their rank or gain.
LEMMA RankShift ==
    ASSUME NEW places \in SUBSET Nat, NEW others \in SUBSET Nat, IsFiniteSet(others),
           NEW d \in {0, 1}, \A i \in places : i + d \in others, NEW j \in places
    PROVE  Rank(places, j) \in Nat /\ Rank(others, j + d) \in Nat /\ Rank(places, j) <= Rank(others, j + d)
  <1> DEFINE here == {i \in places : i <= j}
             there == {i \in others : i <= j + d}
             f == [i \in here |-> i + d]
  <1>1. \A i \in places : i \in Nat
    OBVIOUS
  <1>2. f \in [here -> there] /\ \A a, b \in here : f[a] = f[b] => a = b
    <2>1. j \in Nat /\ d \in Nat
      OBVIOUS
    <2>2. \A i \in here : i \in Nat /\ i + d \in there
      BY <1>1, <2>1
    <2>3. \A a, b \in here : a + d = b + d => a = b
      BY <2>1, <2>2
    <2> QED  BY <2>2, <2>3
  <1>3. f \in Injection(here, there)
    BY <1>2 DEF Injection, IsInjective
  <1>4. IsFiniteSet(there)
    <2>1. there \subseteq others
      OBVIOUS
    <2> QED  BY <2>1, FS_Subset
  <1>5. IsFiniteSet(here) /\ Cardinality(here) <= Cardinality(there)
    BY <1>3, <1>4, FS_Injection
  <1>6. Cardinality(here) \in Nat /\ Cardinality(there) \in Nat
    BY <1>4, <1>5, FS_CardinalityType
  <1> QED  BY <1>5, <1>6 DEF Rank

\* An event added before or behind the others leaves each of them as far down the list.
LEMMA AddListed ==
    ASSUME Shapes, Shapes', NEW c \in Calendars, NEW o \in Occurrences, AddEvent(c, o),
           NEW n \in Refreshes, NEW e, NEW from \in Nat, ListedAfter(n, c, e, from)
    PROVE  ListedAfter(n, c, e, from)'
  <1>1. PICK list \in Seq(Occurrences) : list = google[c].list
    BY DEF Shapes, GoogleRows
  <1>2. PICK later \in Seq(Occurrences) : later = google'[c].list
    BY DEF Shapes, GoogleRows
  <1>3. /\ google'[c].content = google[c].content
        /\ later = <<o>> \o list \/ later = Append(list, o)
    <2>1. google[c] \in GoogleRows /\ google \in [Calendars -> GoogleRows]
      BY DEF Shapes
    <2>2. PICK row : row = google[c] /\ row.list = list
      BY <1>1
    <2>3. PICK grown \in {<<o>> \o list, Append(list, o)} :
             google' = [google EXCEPT ![c] = [row EXCEPT !.list = grown]]
      BY <2>2 DEF AddEvent
    <2>4. google'[c].list = grown /\ google'[c].content = google[c].content
      BY <2>1, <2>2, <2>3 DEF GoogleRows
    <2> QED  BY <1>2, <2>3, <2>4
  <1>4. PICK d \in {0, 1} : \A j \in DOMAIN list : j + d \in DOMAIN later /\ later[j + d] = list[j]
    <2>1. CASE later = Append(list, o)
      <3>1. \A j \in DOMAIN list : j + 0 = j /\ j \in DOMAIN later /\ later[j] = list[j]
        BY <2>1, AppendProperties, LenProperties
      <3> QED  BY <3>1
    <2>2. CASE later = <<o>> \o list
      <3>1. <<o>> \in Seq(Occurrences) /\ Len(<<o>>) = 1
        OBVIOUS
      <3>2. /\ DOMAIN list = 1 .. Len(list) /\ DOMAIN later = 1 .. 1 + Len(list) /\ Len(list) \in Nat
            /\ \A j \in 1 .. 1 + Len(list) : j > 1 => later[j] = list[j - 1]
        BY <2>2, <3>1, ConcatProperties, LenProperties
      <3>3. \A j \in 1 .. Len(list) : j + 1 \in 1 .. 1 + Len(list) /\ j + 1 > 1 /\ (j + 1) - 1 = j
        BY <3>2
      <3> QED  BY <3>2, <3>3
    <2> QED  BY <1>3, <2>1, <2>2
  <1>5. PICK S : S = InScope(n, c)
    OBVIOUS
  <1>6. InScope(n, c)' = S
    BY <1>3, <1>5 DEF InScope
  <1>7. PICK places : places = PlacesIn(list, S)
    OBVIOUS
  <1>8. PICK others : others = PlacesIn(later, S)
    OBVIOUS
  <1>9. PlacesOf(n, c) = places /\ PlacesOf(n, c)' = others
    BY <1>1, <1>2, <1>5, <1>6, <1>7, <1>8 DEF PlacesOf
  <1>10. places \in SUBSET Nat /\ others \in SUBSET Nat /\ IsFiniteSet(others)
    BY <1>7, <1>8, KeptRanks
  <1>11. \A j \in places : j + d \in others /\ later[j + d] = list[j]
    BY <1>4, <1>7, <1>8 DEF PlacesIn
  <1>12. PICK j \in places : list[j] = e /\ Rank(places, j) > from
    BY <1>1, <1>9 DEF ListedAfter
  <1>13. Rank(others, j + d) > from
    <2>1. Rank(places, j) \in Nat /\ Rank(others, j + d) \in Nat /\ Rank(places, j) <= Rank(others, j + d)
      BY <1>10, <1>11, RankShift
    <2> QED  BY <1>12, <2>1
  <1>14. j + d \in others /\ later[j + d] = e
    BY <1>11, <1>12
  <1> QED  BY <1>2, <1>9, <1>13, <1>14 DEF ListedAfter

\* A worker that a step leaves alone, with the calendar it reads, follows as before.
LEMMA FollowsKept ==
    ASSUME Shapes, Control, Whole, Record, NEW n \in Refreshes, Follows(n), req'[n] = req[n], seen'[n] = seen[n],
           req[n].at \in Working => google'[Reading(n)] = google[Reading(n)]
    PROVE  Follows(n)'
  <1>1. CASE req[n].at \notin {"fetch", "write", "seal"}
    BY <1>1 DEF Follows
  <1>2. CASE req[n].at \in {"fetch", "write", "seal"}
    <2>1. req[n].at \in Working
      BY <1>2 DEF Working, Places
    <2>2. PICK c \in Calendars : c = Reading(n)
      BY <2>1, ReadingTyped
    <2>3. Reading(n)' = c /\ google'[c] = google[c]
      BY <2>1, <2>2 DEF Reading
    <2>4. InScope(n, c)' = InScope(n, c) /\ Listed(c)' = Listed(c) /\ PlacesOf(n, c)' = PlacesOf(n, c)
      BY <2>3 DEF InScope, Listed, PlacesOf
    <2>5. \A e, from : ListedAfter(n, c, e, from)' = ListedAfter(n, c, e, from)
      BY <2>3, <2>4 DEF ListedAfter
    <2>6. From(n)' = From(n) /\ PageOccurrences(n)' = PageOccurrences(n)
      BY DEF From, PageOccurrences
    <2>7. Ahead(n)'
      BY <1>2, <2>2, <2>3, <2>5, <2>6 DEF Ahead, Follows
    <2>8. ASSUME NEW o \in DOMAIN seen[n][c]
          PROVE  events'[<<req[n].rev, c>>][o][seen[n][c][o]] = events[<<req[n].rev, c>>][o][seen[n][c][o]]
      <3>1. <<req[n].rev, c>> \in Identities /\ o \in Occurrences
        BY SeenIdentity
      <3>2. seen[n][c][o] \in DOMAIN events[<<req[n].rev, c>>][o]
        BY DEF Whole, Sound
      <3> QED  BY <3>1, <3>2 DEF Record, EventsGrow
    <2>9. Faithful(n)'
      BY <1>2, <2>2, <2>3, <2>4, <2>8 DEF Faithful, Follows
    <2> QED  BY <2>7, <2>9 DEF Follows
  <1> QED  BY <1>1, <1>2

LEMMA BeginFollows ==
    ASSUME Shapes, Control, NEW n \in Refreshes, BeginCalendar(n)
    PROVE  Follows(n)'
  <1>1. req[n].at = "begin" /\ req[n].at \in Working /\ req[n].at \notin Inside
    BY DEF BeginCalendar, Step, Working, Places, Inside
  <1>2. PICK c \in Calendars : c = Reading(n)
    BY <1>1, ReadingTyped
  <1>3. Open(n) /\ c \in ToSet(req[n].todo)
    BY <1>1, <1>2, ReadingTyped
  <1>4. DOMAIN seen[n][c] = {}
    BY <1>1, <1>3 DEF Open, Untouched
  <1>5. PICK row \in ReqRows : row = req[n]
    BY DEF Shapes
  <1>6. PICK base \in SUBSET Occurrences : base = ToSet(InWindow(n, c))
    BY <1>2, WindowTyped
  <1>7. req' = [req EXCEPT ![n] = [row EXCEPT !.at = "fetch", !.page = 1, !.base = base,
                                              !.changed = FALSE, !.lost = FALSE]]
    BY <1>2, <1>5, <1>6 DEF BeginCalendar
  <1>8. req'[n] = [row EXCEPT !.at = "fetch", !.page = 1, !.base = base, !.changed = FALSE, !.lost = FALSE]
    BY <1>7 DEF Shapes
  <1>9. /\ req'[n].at = "fetch" /\ req'[n].page = 1 /\ req'[n].base = base /\ req'[n].lost = FALSE
        /\ req'[n].todo = req[n].todo
    BY <1>5, <1>8 DEF ReqRows
  <1>10. Reading(n)' = c /\ UNCHANGED <<google, seen, events>>
    BY <1>2, <1>9 DEF BeginCalendar, Reading
  <1>11. base = {o \in InScope(n, c) : o \in Listed(c)}
    BY <1>6, WindowTyped
  <1>12. From(n)' = 0
    <2>1. PICK size \in Nat : size = PageSize
      BY CalendarAssumption
    <2>2. (1 - 1) * size = 0
      BY <2>1
    <2> QED  BY <1>9, <2>1, <2>2 DEF From
  <1>13. ASSUME NEW o \in base PROVE ListedAfter(n, c, o, 0)
    <2>1. PICK j \in DOMAIN google[c].list : google[c].list[j] = o
      BY <1>11 DEF Listed, ToSet
    <2>2. j \in PlacesOf(n, c)
      BY <1>11, <2>1 DEF PlacesOf, PlacesIn
    <2>3. PlacesOf(n, c) \in SUBSET Nat /\ IsFiniteSet(PlacesOf(n, c))
      BY WindowTyped, KeptRanks DEF PlacesOf
    <2>4. Rank(PlacesOf(n, c), j) \in 1 .. Cardinality(PlacesOf(n, c)) /\ Cardinality(PlacesOf(n, c)) \in Nat
      BY <2>2, <2>3, RankGrows, FS_CardinalityType
    <2>5. Rank(PlacesOf(n, c), j) > 0
      BY <2>4
    <2> QED  BY <2>1, <2>2, <2>5 DEF ListedAfter
  <1>14. \A o \in base : ListedAfter(n, c, o, 0)'
    BY <1>10, <1>13 DEF ListedAfter, PlacesOf, InScope
  <1>15. Ahead(n)'
    BY <1>9, <1>10, <1>12, <1>14 DEF Ahead
  <1>16. Faithful(n)'
    BY <1>4, <1>9, <1>10, <1>11 DEF Faithful, InScope, Listed
  <1> QED  BY <1>9, <1>15, <1>16 DEF Follows

LEMMA FetchFollows ==
    ASSUME Shapes, Control, NEW n \in Refreshes, Follows(n), FetchPage(n)
    PROVE  Follows(n)'
  <1>1. req[n].at = "fetch" /\ req[n].at \in Working
    BY DEF FetchPage, Step, Working, Places
  <1>2. PICK c \in Calendars : c = Reading(n)
    BY <1>1, ReadingTyped
  <1>3. PICK got, more : got = req'[n].got /\ more = req'[n].more
    OBVIOUS
  <1>4. PICK list : list = InWindow(n, c)
    OBVIOUS
  <1>5. /\ From(n) \in Nat
        /\ \A j \in DOMAIN got : got[j].occ \in ToSet(list) /\ got[j].content = google[c].content[got[j].occ]
        /\ \A p \in DOMAIN list : p > From(n) =>
               (\E j \in DOMAIN got : got[j].occ = list[p]) \/ (more /\ p > From(n) + PageSize)
        /\ req' = [req EXCEPT ![n] = [req[n] EXCEPT !.at = "write", !.more = more, !.got = got]]
    BY <1>2, <1>3, <1>4, FetchedPage
  <1>6. /\ req'[n].at = "write" /\ req'[n].page = req[n].page /\ req'[n].base = req[n].base
        /\ req'[n].lost = req[n].lost /\ req'[n].changed = req[n].changed /\ req'[n].todo = req[n].todo
        /\ req'[n].rev = req[n].rev
    BY <1>5 DEF Shapes, ReqRows
  <1>7. Reading(n)' = c /\ From(n)' = From(n) /\ UNCHANGED <<google, seen, events>>
    BY <1>2, <1>6 DEF FetchPage, Go, Reading, From
  <1>8. Ahead(n) /\ Faithful(n) /\ (req[n].lost => req[n].changed)
    BY <1>1 DEF Follows
  <1>9. ASSUME ~req[n].lost, NEW o \in req[n].base, o \notin DOMAIN seen[n][c]
        PROVE  o \in PageOccurrences(n)' \/ (more /\ ListedAfter(n, c, o, From(n) + PageSize))
    <2>1. ListedAfter(n, c, o, From(n))
      BY <1>1, <1>2, <1>8, <1>9 DEF Ahead
    <2>2. PICK j \in PlacesOf(n, c) : google[c].list[j] = o /\ Rank(PlacesOf(n, c), j) > From(n)
      BY <2>1 DEF ListedAfter
    <2>3. PICK p : p = Rank(PlacesOf(n, c), j)
      OBVIOUS
    <2>4. p \in DOMAIN list /\ list[p] = o
      BY <1>4, <2>2, <2>3, WindowTyped
    <2>5. (\E h \in DOMAIN got : got[h].occ = o) \/ (more /\ p > From(n) + PageSize)
      BY <1>5, <2>2, <2>3, <2>4
    <2>6. CASE \E h \in DOMAIN got : got[h].occ = o
      BY <1>3, <2>6 DEF PageOccurrences
    <2>7. CASE more /\ p > From(n) + PageSize
      BY <2>2, <2>3, <2>7 DEF ListedAfter
    <2> QED  BY <2>5, <2>6, <2>7
  <1>10. \A o, from : ListedAfter(n, c, o, from)' = ListedAfter(n, c, o, from)
    BY <1>7 DEF ListedAfter, PlacesOf, InScope
  <1>11. Ahead(n)'
    BY <1>3, <1>6, <1>7, <1>9, <1>10 DEF Ahead
  <1>12. ToSet(list) = {o \in InScope(n, c) : o \in Listed(c)}
    BY <1>4, WindowTyped
  <1>13. Faithful(n)'
    <2>1. InScope(n, c)' = InScope(n, c) /\ Listed(c)' = Listed(c)
      BY <1>7 DEF InScope, Listed
    <2> QED  BY <1>2, <1>3, <1>5, <1>6, <1>7, <1>8, <1>12, <2>1 DEF Faithful
  <1> QED  BY <1>6, <1>8, <1>11, <1>13 DEF Follows

LEMMA WriteFollows ==
    ASSUME Shapes, Control, Whole, Record, NEW n \in Refreshes, Follows(n), WritePage(n)
    PROVE  Follows(n)'
  <1>1. req[n].at = "write" /\ req[n].at \in Working
    BY DEF WritePage, Step, Working, Places
  <1>2. PICK c \in Calendars : c = Reading(n)
    BY <1>1, ReadingTyped
  <1>3. PICK i : i = <<req[n].rev, c>>
    OBVIOUS
  <1>4. /\ i \in Identities /\ Here(n) \subseteq Occurrences
        /\ \A o \in Here(n) : PageRowsOf(n)[o][RevisionOf(PageRowsOf(n)[o], PageContent(n, o))] = PageContent(n, o)
        /\ events' = [events EXCEPT ![i] = PageRowsOf(n)] /\ seen' = [seen EXCEPT ![n][c] = SeenAfter(n)]
        /\ UNCHANGED google
    BY <1>2, <1>3, WriteEffect
  <1>5. req' = [req EXCEPT ![n] =
               [req[n] EXCEPT !.at = AfterPage(n), !.got = <<>>, !.more = FALSE,
                       !.page = IF AfterPage(n) = "fetch" THEN req[n].page + 1 ELSE req[n].page]]
    BY WriteEffect
  <1>6. PICK row \in ReqRows : row = req[n]
    BY DEF Shapes
  <1>7. PICK place, page : /\ place = AfterPage(n)
                           /\ page = IF place = "fetch" THEN row.page + 1 ELSE row.page
    OBVIOUS
  <1>8. req'[n] = [row EXCEPT !.at = place, !.got = <<>>, !.more = FALSE, !.page = page]
    BY <1>5, <1>6, <1>7 DEF Shapes
  <1>9. /\ req'[n].at = place /\ req'[n].page = page /\ req'[n].base = row.base /\ req'[n].todo = row.todo
        /\ req'[n].lost = row.lost /\ req'[n].changed = row.changed /\ req'[n].rev = row.rev
    BY <1>6, <1>8 DEF ReqRows
  <1>10. Reading(n)' = c
    BY <1>2, <1>6, <1>9 DEF Reading
  <1>11. PICK record : record = SeenAfter(n)
    OBVIOUS
  <1>12. /\ seen'[n][c] = record /\ DOMAIN record = DOMAIN seen[n][c] \cup Here(n)
         /\ \A o \in DOMAIN record :
                record[o] = IF o \in Here(n) THEN RevisionOf(PageRowsOf(n)[o], PageContent(n, o)) ELSE seen[n][c][o]
    <2>1. seen'[n][c] = SeenAfter(n)
      BY <1>2, <1>4 DEF Shapes
    <2> QED  BY <1>2, <1>11, <2>1 DEF SeenAfter
  <1>13. Ahead(n) /\ Faithful(n) /\ (req[n].lost => req[n].changed)
    BY <1>1 DEF Follows
  <1>14. ASSUME ~row.lost, NEW o \in row.base
         PROVE  o \in DOMAIN record \/ (row.more /\ ListedAfter(n, c, o, From(n) + PageSize))
    BY <1>1, <1>2, <1>6, <1>12, <1>13, <1>14 DEF Ahead, Here
  <1>15. ASSUME place # "over", NEW o \in row.base, row.more, ListedAfter(n, c, o, From(n) + PageSize)
         PROVE  place = "fetch" /\ ListedAfter(n, c, o, From(n))'
    <2>1. place = "fetch"
      BY <1>6, <1>7, <1>15 DEF AfterPage
    <2>2. From(n)' = From(n) + PageSize
      <3>1. PICK before \in Nat : row.page = before + 1
        <4>1. row.page \in 1 .. MaxPages /\ MaxPages \in Nat
          BY CalendarAssumption DEF ReqRows
        <4>2. row.page - 1 \in Nat /\ row.page = (row.page - 1) + 1
          BY <4>1
        <4> QED  BY <4>2
      <3>2. PICK size \in Nat : size = PageSize
        BY CalendarAssumption
      <3>3. From(n) = before * size
        <4>1. (before + 1) - 1 = before
          OBVIOUS
        <4> QED  BY <1>6, <3>1, <3>2, <4>1 DEF From
      <3>4. From(n)' = (before + 1) * size
        <4>1. ((before + 1) + 1) - 1 = before + 1
          OBVIOUS
        <4> QED  BY <1>7, <1>9, <2>1, <3>1, <3>2, <4>1 DEF From
      <3>5. (before + 1) * size = before * size + size
        OBVIOUS
      <3> QED  BY <3>2, <3>3, <3>4, <3>5
    <2>3. ListedAfter(n, c, o, From(n)')
      BY <1>15, <2>2
    <2> QED  BY <1>4, <2>1, <2>3 DEF ListedAfter, PlacesOf, InScope
  <1>16. ASSUME place # "over" PROVE Ahead(n)'
    BY <1>9, <1>10, <1>12, <1>14, <1>15, <1>16 DEF Ahead
  <1>17. InScope(n, c)' = InScope(n, c) /\ Listed(c)' = Listed(c)
    BY <1>4 DEF InScope, Listed
  <1>18. ASSUME ~row.changed, NEW o \in DOMAIN record
         PROVE  o \in row.base /\ events'[i][o][record[o]] = google[c].content[o]
    <2>1. CASE o \in Here(n)
      <3>1. PICK j \in DOMAIN req[n].got : req[n].got[j].occ = o /\ req[n].got[j].content = PageContent(n, o)
        BY <2>1, PageTyped
      <3>2. o \in row.base /\ PageContent(n, o) = google[c].content[o]
        BY <1>1, <1>2, <1>6, <1>13, <1>18, <3>1 DEF Faithful
      <3>3. events'[i] = PageRowsOf(n)
        BY <1>4 DEF Shapes
      <3> QED  BY <1>4, <1>12, <2>1, <3>2, <3>3
    <2>2. CASE o \notin Here(n)
      <3>1. o \in DOMAIN seen[n][c] /\ record[o] = seen[n][c][o]
        BY <1>12, <2>2
      <3>2. o \in row.base /\ events[i][o][seen[n][c][o]] = google[c].content[o]
        BY <1>2, <1>3, <1>6, <1>13, <1>18, <3>1 DEF Faithful
      <3>3. o \in Occurrences /\ seen[n][c][o] \in DOMAIN events[i][o]
        BY <1>3, <3>1, SeenIdentity DEF Whole, Sound
      <3> QED  BY <1>4, <3>1, <3>2, <3>3 DEF Record, EventsGrow
    <2> QED  BY <2>1, <2>2
  <1>19. Faithful(n)'
    <2>1. place # "write"
      BY <1>7 DEF AfterPage
    <2>2. ~row.changed => row.base = {o \in InScope(n, c) : o \in Listed(c)}
      BY <1>2, <1>6, <1>13 DEF Faithful
    <2>3. <<req'[n].rev, c>> = i
      BY <1>3, <1>6, <1>9
    <2> QED  BY <1>4, <1>9, <1>10, <1>12, <1>17, <1>18, <2>1, <2>2, <2>3 DEF Faithful
  <1> QED  BY <1>6, <1>9, <1>13, <1>16, <1>19 DEF Follows

LEMMA GoogleFollows ==
    ASSUME Shapes, Shapes', Control, Whole, Record, NEW n \in Refreshes, Follows(n),
           NEW c \in Calendars, NEW o \in Occurrences,
           \/ AddEvent(c, o) \/ RemoveEvent(c, o)
           \/ \E content \in Contents : EditEvent(c, o, content)
    PROVE  Follows(n)'
  <1>1. PICK loses \in BOOLEAN : Change(c, loses) /\ (AddEvent(c, o) \/ loses = TRUE)
    BY DEF AddEvent, RemoveEvent, EditEvent
  <1>2. /\ UNCHANGED <<revs, runs, ended, events, seen>>
        /\ req'[n].at = req[n].at /\ req'[n].rev = req[n].rev /\ req'[n].todo = req[n].todo
        /\ req'[n].page = req[n].page /\ req'[n].got = req[n].got /\ req'[n].more = req[n].more
        /\ req'[n].base = req[n].base
    BY <1>1, ChangeRecord
  <1>3. \A d \in Calendars \ {c} : google'[d] = google[d]
    BY DEF AddEvent, RemoveEvent, EditEvent, Shapes
  <1>4. CASE ~(req[n].at \in {"fetch", "write", "seal"} /\ Reading(n) = c)
    <2>1. req'[n] = req[n]
      BY <1>1, <1>4 DEF Change, Reading
    <2>2. CASE req[n].at \notin {"fetch", "write", "seal"}
      BY <2>1, <2>2 DEF Follows
    <2>3. CASE req[n].at \in {"fetch", "write", "seal"}
      <3>1. req[n].at \in Working
        BY <2>3 DEF Working, Places
      <3>2. google'[Reading(n)] = google[Reading(n)]
        BY <1>3, <1>4, <2>3, <3>1, ReadingTyped
      <3> QED  BY <1>2, <2>1, <3>2, FollowsKept
    <2> QED  BY <2>2, <2>3
  <1>5. CASE req[n].at \in {"fetch", "write", "seal"} /\ Reading(n) = c
    <2>1. PICK row \in ReqRows : row = req[n]
      BY DEF Shapes
    <2>2. req'[n] = [row EXCEPT !.changed = TRUE, !.lost = @ \/ loses]
      BY <1>1, <1>5, <2>1 DEF Change, Reading
    <2>3. req'[n].changed = TRUE /\ req'[n].lost = (req[n].lost \/ loses)
      BY <2>1, <2>2 DEF ReqRows
    <2>4. Faithful(n)'
      BY <2>3 DEF Faithful
    <2>5. CASE loses
      <3>1. Ahead(n)'
        BY <2>3, <2>5 DEF Ahead
      <3> QED  BY <2>3, <2>4, <3>1 DEF Follows
    <2>6. CASE ~loses
      <3>1. AddEvent(c, o)
        BY <1>1, <2>6
      <3>2. req'[n].lost = req[n].lost
        BY <2>1, <2>3, <2>6 DEF ReqRows
      <3>3. From(n) \in Nat /\ From(n) + PageSize \in Nat
        <4>1. row.page \in 1 .. MaxPages /\ MaxPages \in Nat
          BY CalendarAssumption DEF ReqRows
        <4>2. PICK before, size \in Nat : before = row.page - 1 /\ size = PageSize
          BY <4>1, CalendarAssumption
        <4>3. before * size \in Nat
          OBVIOUS
        <4> QED  BY <2>1, <4>2, <4>3 DEF From
      <3>4. From(n)' = From(n) /\ Reading(n)' = c /\ PageOccurrences(n)' = PageOccurrences(n)
        BY <1>2, <1>5 DEF From, Reading, PageOccurrences
      <3>5. \A e, from : from \in Nat /\ ListedAfter(n, c, e, from) => ListedAfter(n, c, e, from)'
        BY <3>1, AddListed
      <3>6. \A e : /\ ListedAfter(n, c, e, From(n)) => ListedAfter(n, c, e, From(n))'
                   /\ ListedAfter(n, c, e, From(n) + PageSize) => ListedAfter(n, c, e, From(n) + PageSize)'
        BY <3>3, <3>4, <3>5
      <3>7. Ahead(n)
        BY <1>5 DEF Follows
      <3>8. Ahead(n)'
        BY <1>2, <1>5, <3>2, <3>4, <3>6, <3>7 DEF Ahead
      <3> QED  BY <2>3, <2>4, <3>8 DEF Follows
    <2> QED  BY <2>5, <2>6
  <1> QED  BY <1>4, <1>5

LEMMA ReadingsInit ==
    ASSUME Init
    PROVE  Readings
  BY DEF Init, Readings, Follows, Fresh

LEMMA ReadingsStep ==
    ASSUME Shapes, Shapes', Control, Whole, Readings, [Next]_calendarVars
    PROVE  Readings'
  <1> SUFFICES ASSUME NEW n \in Refreshes PROVE Follows(n)'
    BY DEF Readings
  <1>0. Record /\ Follows(n)
    BY RecordStep DEF Readings
  <1>1. CASE Configure
    <2>1. UNCHANGED <<google, changes, runs, ended, events, seen, req>>
      BY <1>1, ConfigureAppends DEF AppendRevision
    <2> QED  BY <1>0, <2>1, FollowsKept
  <1>2. ASSUME NEW c \in Calendars, NEW o \in Occurrences,
               \/ AddEvent(c, o) \/ RemoveEvent(c, o)
               \/ \E content \in Contents : EditEvent(c, o, content)
        PROVE  Follows(n)'
    BY <1>0, <1>2, GoogleFollows
  <1>3. ASSUME NEW m \in Refreshes \ {n},
               \/ \E v \in 1 .. MaxRevision : Claim(m, v)
               \/ Authorize(m) \/ BeginCalendar(m) \/ FetchPage(m) \/ WritePage(m) \/ Seal(m)
               \/ Failing(m) \/ Crash(m)
        PROVE  Follows(n)'
    <2>1. google' = google /\ req'[n] = req[n] /\ seen'[n] = seen[n]
      BY <1>3 DEF Claim, Authorize, BeginCalendar, FetchPage, WritePage, Seal, Sealed, Failing, Fail,
                  Crash, Go, Shapes
    <2> QED  BY <1>0, <2>1, FollowsKept
  <1>4. ASSUME NEW v \in 1 .. MaxRevision, Claim(n, v)
        PROVE  Follows(n)'
    <2>1. PICK order : order = SetToSeq(revs[v].cals)
      OBVIOUS
    <2>2. req'[n] = [Fresh EXCEPT !.at = "claimed", !.rev = v, !.todo = order]
      BY <1>4, <2>1 DEF Claim, Shapes
    <2>3. req'[n].at = "claimed" /\ req'[n].lost = FALSE
      BY <2>2 DEF Fresh
    <2> QED  BY <2>3 DEF Follows
  <1>5. ASSUME Authorize(n) PROVE Follows(n)'
    <2>1. PICK row \in ReqRows : row = req[n]
      BY DEF Shapes
    <2>2. req'[n] = [row EXCEPT !.at = "begin"]
      BY <1>5, <2>1 DEF Authorize, Go, Shapes
    <2>3. req'[n].at = "begin" /\ req'[n].lost = req[n].lost /\ req'[n].changed = req[n].changed
      BY <2>1, <2>2 DEF ReqRows
    <2> QED  BY <1>0, <2>3 DEF Follows
  <1>6. ASSUME Seal(n) PROVE Follows(n)'
    <2>1. PICK rest, place : /\ rest = Tail(req[n].todo) /\ place = IF rest = <<>> THEN "done" ELSE "begin"
                             /\ req'[n] = [Fresh EXCEPT !.rev = req[n].rev, !.todo = rest, !.at = place]
      BY <1>6 DEF Seal, Sealed, Shapes
    <2>2. req'[n].at = place /\ req'[n].lost = FALSE
      BY <2>1 DEF Fresh
    <2> QED  BY <2>1, <2>2 DEF Follows
  <1>7. ASSUME NEW place \in {"done", "dead"}, req' = [req EXCEPT ![n] = Left(n, place)] PROVE Follows(n)'
    <2>1. req'[n] = Left(n, place) /\ place \in Places
      BY <1>7 DEF Shapes, Places
    <2>2. Left(n, place).at = place /\ Left(n, place).lost = FALSE
      BY <2>1, LeftTyped
    <2> QED  BY <2>1, <2>2 DEF Follows
  <1>8. ASSUME Failing(n) \/ Crash(n) PROVE Follows(n)'
    BY <1>7, <1>8 DEF Failing, Fail, Crash, Go
  <1>9. ASSUME BeginCalendar(n) \/ FetchPage(n) \/ WritePage(n) PROVE Follows(n)'
    BY <1>0, <1>9, BeginFollows, FetchFollows, WriteFollows
  <1>10. CASE UNCHANGED calendarVars
    BY <1>0, <1>10, FollowsKept DEF calendarVars
  <1> QED  BY <1>1, <1>2, <1>3, <1>4, <1>5, <1>6, <1>8, <1>9, <1>10, StepCases

LEMMA Following == Spec => []Readings
  <1>1. Init => Readings
    BY ReadingsInit
  <1>2. Shapes /\ Shapes' /\ Control /\ Whole /\ Readings /\ [Next]_calendarVars => Readings'
    BY ReadingsStep
  <1> QED  BY <1>1, <1>2, Placement, Wholeness, PTL DEF Spec

-----------------------------------------------------------------------------
(* A run that succeeds mirrors the calendar.                               *)

LEMMA SucceedsSeals ==
    ASSUME Shapes, Control, [Next]_calendarVars, NEW n \in Refreshes, NEW i, Succeeds(n, i)
    PROVE  Seal(n)
  <1>1. /\ req[n].at = "seal" /\ req[n].at \in Working /\ req[n].at \in Inside
        /\ runs'[n][Reading(n)].status = "succeeded"
    BY DEF Succeeds, Step, Working, Places, Inside
  <1>2. Reading(n) \in Calendars /\ Reading(n) \in ToSet(req[n].todo) /\ Open(n)
    BY <1>1, ReadingTyped
  <1>3. runs[n][Reading(n)].status = "running"
    BY <1>1, <1>2 DEF Open
  <1>4. runs'[n] # runs[n]
    BY <1>1, <1>3
  <1>5. CASE Configure
    BY <1>4, <1>5, ConfigureAppends DEF AppendRevision
  <1>6. ASSUME NEW c \in Calendars, NEW o \in Occurrences,
               \/ AddEvent(c, o) \/ RemoveEvent(c, o)
               \/ \E content \in Contents : EditEvent(c, o, content)
        PROVE  FALSE
    BY <1>4, <1>6 DEF AddEvent, RemoveEvent, EditEvent, Change
  <1>7. ASSUME NEW m \in Refreshes \ {n},
               \/ \E v \in 1 .. MaxRevision : Claim(m, v)
               \/ BeginCalendar(m) \/ WritePage(m) \/ Seal(m) \/ Failing(m)
        PROVE  FALSE
    BY <1>4, <1>7 DEF Claim, BeginCalendar, WritePage, Seal, Sealed, Failing, Fail, Shapes
  <1>8. ASSUME NEW m \in Refreshes, Authorize(m) \/ FetchPage(m) \/ Crash(m)
        PROVE  FALSE
    BY <1>4, <1>8 DEF Authorize, FetchPage, Crash, Go
  <1>9. ASSUME \/ \E v \in 1 .. MaxRevision : Claim(n, v)
               \/ BeginCalendar(n) \/ WritePage(n)
        PROVE  FALSE
    BY <1>1, <1>9 DEF Claim, BeginCalendar, WritePage, Step
  <1>10. ASSUME Failing(n)
         PROVE  FALSE
    <2>1. PICK status \in {"incomplete", "failed"} : Fail(n, status)
      BY <1>10 DEF Failing
    <2>2. \/ UNCHANGED runs
          \/ runs'[n][Reading(n)] = [runs[n][Reading(n)] EXCEPT !.status = status, !.evidence = FALSE]
      BY <1>2, <2>1 DEF Fail, Shapes
    <2>3. PICK row \in RunRows : row = runs[n][Reading(n)]
      BY <1>2 DEF Shapes
    <2>4. runs'[n][Reading(n)] = [row EXCEPT !.status = status, !.evidence = FALSE]
      BY <1>4, <2>2, <2>3
    <2>5. runs'[n][Reading(n)].status = status
      BY <2>3, <2>4 DEF RunRows
    <2> QED  BY <1>1, <2>5
  <1>11. CASE UNCHANGED calendarVars
    BY <1>4, <1>11 DEF calendarVars
  <1> QED  BY <1>5, <1>6, <1>7, <1>8, <1>9, <1>10, <1>11, StepCases

\* The run that succeeds is the newest evidence of its identity.
LEMMA NewestEvidence ==
    ASSUME Shapes, Control, Whole, NEW n \in Refreshes, NEW c \in Calendars, NEW i \in Identities,
           Seal(n), c = Reading(n), i = <<req[n].rev, c>>
    PROVE  \E k \in Nat : /\ ended'[k] = <<n, c>> /\ k \in Evidence(i)' /\ Evidence(i)' \subseteq 1 .. k
                          /\ UNCHANGED <<google, events, seen>>
  <1>5. PICK k \in Nat : k = Len(ended) + 1
    BY LenProperties DEF Shapes
  <1>6. /\ runs' = [runs EXCEPT ![n][c] = [runs[n][c] EXCEPT !.status = "succeeded", !.evidence = TRUE]]
        /\ ended' = Append(ended, <<n, c>>) /\ UNCHANGED <<google, events, seen>>
    BY DEF Seal, Sealed
  <1>7. PICK row \in RunRows : row = runs[n][c]
    BY DEF Shapes
  <1>8. runs'[n][c] = [row EXCEPT !.status = "succeeded", !.evidence = TRUE]
    BY <1>6, <1>7 DEF Shapes
  <1>9. runs'[n][c].status = "succeeded" /\ runs'[n][c].evidence = TRUE /\ runs'[n][c].items = runs[n][c].items
    BY <1>7, <1>8 DEF RunRows
  <1>10. Cardinality(DOMAIN seen'[n][c]) = runs'[n][c].items
    BY <1>6, <1>9 DEF Whole, Sound, Counted
  <1>11. DOMAIN ended' = 1 .. k /\ ended'[k] = <<n, c>>
    BY <1>5, <1>6, AppendProperties, LenProperties DEF Shapes
  <1>12. req'[n].rev = req[n].rev
    <2>1. PICK rest, place, v : req'[n] = [Fresh EXCEPT !.rev = v, !.todo = rest, !.at = place] /\ v = req[n].rev
      BY DEF Seal, Sealed, Shapes
    <2> QED  BY <2>1 DEF Fresh
  <1>13. k \in DOMAIN ended'
    BY <1>5, <1>11
  <1>14. k \in Evidence(i)'
    BY <1>9, <1>10, <1>11, <1>12, <1>13 DEF Evidence, Eligible, Counted
  <1>15. Evidence(i)' \subseteq 1 .. k
    BY <1>11 DEF Evidence
  <1> QED  BY <1>6, <1>11, <1>14, <1>15

\* What the newest evidence shows of the events it observed, and of the others.
LEMMA ShownNewest ==
    ASSUME Shapes', Control', Whole', NEW i \in Identities, NEW o \in Occurrences,
           NEW n \in Refreshes, NEW c \in Calendars, NEW k \in Evidence(i)', k \in Nat,
           Evidence(i)' \subseteq 1 .. k, ended'[k] = <<n, c>>
    PROVE  /\ o \in DOMAIN seen'[n][c] => Shown(i, o)' = <<"current", events'[i][o][seen'[n][c][o]]>>
           /\ o \notin DOMAIN seen'[n][c] /\ Shown(i, o)'[1] = "current" =>
                  Shown(i, o)'[2] \in Floating \cup (Contents \ Window[n])
  <1>0. PICK es : es = Evidence(i)'
    OBVIOUS
  <1>1. k \in es /\ es \subseteq 1 .. k /\ es \in SUBSET Nat /\ \A j \in es : j <= k
    BY <1>0
  <1>2. Observed(k, o)' <=> o \in DOMAIN seen'[n][c]
    BY DEF Observed
  <1>3. Sightings(i, o)' \subseteq es /\ \A j \in es : j \in Sightings(i, o)' <=> Observed(j, o)'
    BY <1>0 DEF Sightings
  <1>4. PICK p : p = Projection(i, o)'
    OBVIOUS
  <1>5. PICK deciding : deciding = {j \in es : Observed(j, o)' \/ Covered(j, p)'}
    OBVIOUS
  <1>6. EffectiveState(i, o)' = IF Observed(Max(deciding), o)' THEN "current" ELSE "stale"
    BY <1>0, <1>4, <1>5 DEF EffectiveState
  <1>7. ASSUME o \in DOMAIN seen'[n][c]
        PROVE  Shown(i, o)' = <<"current", events'[i][o][seen'[n][c][o]]>>
    <2>1. k \in Sightings(i, o)' /\ \A j \in Sightings(i, o)' : j <= k
      BY <1>1, <1>2, <1>3, <1>7
    <2>2. Max(Sightings(i, o)') = k
      BY <1>1, <1>3, <2>1, MaxIs
    <2>3. p = events'[i][o][seen'[n][c][o]]
      BY <1>4, <2>2 DEF Projection
    <2>4. k \in deciding /\ deciding \in SUBSET Nat /\ \A j \in deciding : j <= k
      BY <1>1, <1>2, <1>5, <1>7
    <2>5. Max(deciding) = k
      BY <2>4, MaxIs
    <2>6. EffectiveState(i, o)' = "current"
      BY <1>2, <1>6, <1>7, <2>5
    <2>7. Sightings(i, o)' # {}
      BY <2>1
    <2> QED  BY <1>4, <2>3, <2>6, <2>7 DEF Shown
  <1>8. ASSUME o \notin DOMAIN seen'[n][c], Shown(i, o)'[1] = "current"
        PROVE  Shown(i, o)'[2] \in Floating \cup (Contents \ Window[n])
    <2>1. Sightings(i, o)' # {}
      BY <1>8 DEF Shown
    <2>2. Shown(i, o)' = <<EffectiveState(i, o)', p>> /\ EffectiveState(i, o)' = "current"
      BY <1>4, <1>8, <2>1 DEF Shown
    <2>3. ~Covered(k, p)'
      <3>1. ASSUME Covered(k, p)' PROVE FALSE
        <4>1. k \in deciding /\ deciding \in SUBSET Nat /\ \A j \in deciding : j <= k
          BY <1>1, <1>5, <3>1
        <4>2. Max(deciding) = k
          BY <4>1, MaxIs
        <4> QED  BY <1>2, <1>6, <1>8, <2>2, <4>2
      <3> QED  BY <3>1
    <2>4. p \notin Window[n] \/ p \in Floating
      BY <2>3 DEF Covered
    <2>5. p \in Contents
      <3>1. PICK h : h = Max(Sightings(i, o)')
        OBVIOUS
      <3>2. h \in Sightings(i, o)'
        BY <1>1, <1>3, <2>1, <3>1, MaxExists
      <3>3. h \in es /\ Observed(h, o)'
        BY <1>3, <3>2
      <3>4. PICK m, d : m = ended'[h][1] /\ d = ended'[h][2]
        OBVIOUS
      <3>5. o \in DOMAIN seen'[m][d] /\ p = events'[i][o][seen'[m][d][o]]
        BY <1>4, <3>1, <3>3, <3>4 DEF Observed, Projection
      <3>6. seen'[m][d][o] \in DOMAIN events'[i][o]
        <4>1. h \in DOMAIN ended' /\ i = <<req'[m].rev, d>>
          BY <1>0, <3>3, <3>4 DEF Evidence
        <4>2. m \in Refreshes /\ d \in Calendars
          BY <3>4, <4>1, ElementOfSeq, LenProperties DEF Shapes
        <4> QED  BY <3>5, <4>1, <4>2 DEF Whole, Sound
      <3>7. events'[i][o] \in Seq(Contents)
        BY DEF Shapes
      <3> QED  BY <3>5, <3>6, <3>7, ElementOfSeq, LenProperties
    <2> QED  BY <2>2, <2>4, <2>5
  <1> QED  BY <1>7, <1>8

\* The step of MirrorsCalendar.
LEMMA MirrorStep ==
    ASSUME Shapes, Control, Whole, Readings, Shapes', Control', Whole', [Next]_calendarVars,
           NEW n \in Refreshes, NEW i \in Identities, NEW o \in Occurrences, Succeeds(n, i)
    PROVE  /\ ~req[n].lost /\ Shown(i, o)[1] = "current" /\ Shown(i, o)'[1] = "stale" =>
                 o \notin req[n].base
           /\ ~req[n].changed =>
                 IF o \in req[n].base THEN Shown(i, o)' = <<"current", google[i[2]].content[o]>>
                 ELSE Shown(i, o)'[1] = "current" =>
                         Shown(i, o)'[2] \in Floating \cup (Contents \ Window[n])
  <1>1. Seal(n) /\ req[n].at = "seal" /\ i = <<req[n].rev, Reading(n)>>
    BY SucceedsSeals DEF Succeeds, Step
  <1>2. PICK c \in Calendars : c = Reading(n)
    <2>1. req[n].at \in Working
      BY <1>1 DEF Working, Places
    <2> QED  BY <2>1, ReadingTyped
  <1>3. i = <<req[n].rev, c>>
    BY <1>1, <1>2
  <1>4. PICK k \in Nat : /\ ended'[k] = <<n, c>> /\ k \in Evidence(i)' /\ Evidence(i)' \subseteq 1 .. k
                         /\ UNCHANGED <<google, events, seen>>
    BY <1>1, <1>2, <1>3, NewestEvidence
  <1>5. /\ o \in DOMAIN seen[n][c] => Shown(i, o)' = <<"current", events[i][o][seen[n][c][o]]>>
        /\ o \notin DOMAIN seen[n][c] /\ Shown(i, o)'[1] = "current" =>
               Shown(i, o)'[2] \in Floating \cup (Contents \ Window[n])
    BY <1>4, ShownNewest
  <1>6. Ahead(n) /\ Faithful(n) /\ (req[n].lost => req[n].changed)
    BY <1>1 DEF Readings, Follows
  <1>7. ~req[n].lost => \A e \in req[n].base : e \in DOMAIN seen[n][c]
    BY <1>1, <1>2, <1>6 DEF Ahead
  <1>8. ~req[n].changed =>
            /\ \A e \in req[n].base : e \in DOMAIN seen[n][c]
            /\ o \in DOMAIN seen[n][c] => o \in req[n].base /\ events[i][o][seen[n][c][o]] = google[c].content[o]
    BY <1>2, <1>3, <1>6, <1>7 DEF Faithful
  <1>9. i[2] = c
    BY <1>3
  <1>10. ~req[n].lost /\ Shown(i, o)'[1] = "stale" => o \notin req[n].base
    BY <1>5, <1>7
  <1>11. ~req[n].changed /\ o \in req[n].base => Shown(i, o)' = <<"current", google[i[2]].content[o]>>
    BY <1>5, <1>8, <1>9
  <1>12. ~req[n].changed /\ o \notin req[n].base /\ Shown(i, o)'[1] = "current" =>
             Shown(i, o)'[2] \in Floating \cup (Contents \ Window[n])
    BY <1>5, <1>8
  <1> QED  BY <1>10, <1>11, <1>12

\* A run that succeeds mirrors the calendar it read: an event turns stale only if it was not
\* listed when the reading began, unless Google lost or edited one meanwhile, and an
\* unchanged calendar is shown as it is (refresh, effective_evidence).
THEOREM CalendarMirrored == Spec => MirrorsCalendar
  <1>1. Shapes /\ Control /\ Whole /\ Readings /\ Shapes' /\ Control' /\ Whole' /\ [Next]_calendarVars =>
            [\A n \in Refreshes, i \in Identities, o \in Occurrences : Succeeds(n, i) =>
                /\ ~req[n].lost /\ Shown(i, o)[1] = "current" /\ Shown(i, o)'[1] = "stale" =>
                      o \notin req[n].base
                /\ ~req[n].changed =>
                      IF o \in req[n].base THEN Shown(i, o)' = <<"current", google[i[2]].content[o]>>
                      ELSE Shown(i, o)'[1] = "current" =>
                              Shown(i, o)'[2] \in Floating \cup (Contents \ Window[n])]_calendarVars
    BY MirrorStep
  <1> QED  BY <1>1, Placement, Wholeness, Following, PTL DEF Spec, MirrorsCalendar

=============================================================================
