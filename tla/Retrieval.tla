----------------------------- MODULE Retrieval -----------------------------
(***************************************************************************)
(* What a search answers with, as pure operators: hybrid rank fusion of    *)
(* the lexical and the semantic channel inside a bounded window            *)
(* (app/repositories/memories), and the keyset cursor of the Capture Inbox *)
(* (app/repositories/capture_items, app/captures/tokens).                  *)
(*                                                                         *)
(* A channel is the sequence of the Memories it matched, best first.       *)
(* Memories are numbers, the newest the smallest, so that ties are broken  *)
(* by "<".  Scores are fractions: [num, den] stands for num / den.         *)
(***************************************************************************)
EXTENDS Integers, Sequences, FiniteSets

CONSTANTS
    MaxFound,     \* bound: Memories or Captures a search finds
    MaxRequested  \* bound: limit plus offset of a request

ASSUME RetrievalAssumption == MaxFound \in Nat /\ MaxRequested \in Nat

RRF_K == 60

Least(a, b)    == IF a < b THEN a ELSE b
Greatest(a, b) == IF a < b THEN b ELSE a

\* _hybrid_candidate_limit: how many of each channel are candidates.
Window(limit, offset) == Least(1000, Greatest(100, (limit + offset) * 5))

-----------------------------------------------------------------------------
(* Fusion.                                                                 *)

Found == 1 .. MaxFound

Channels == {channel \in UNION {[1 .. n -> Found] : n \in 0 .. MaxFound} :
                 \A i, j \in DOMAIN channel : i # j => channel[i] # channel[j]}

MatchedBy(channel) == {channel[i] : i \in DOMAIN channel}

Rank(channel, m) == CHOOSE i \in DOMAIN channel : channel[i] = m

\* Faulty variant: no coalesce, and a missing score sorts before all others.
ContributionOrNull(channel, m) ==
    IF m \in MatchedBy(channel) THEN [num |-> 1, den |-> RRF_K + Rank(channel, m)]
    ELSE [num |-> 2, den |-> 1]

Contribution(channel, m) ==
    IF m \in MatchedBy(channel) THEN [num |-> 1, den |-> RRF_K + Rank(channel, m)]
    ELSE [num |-> 0, den |-> 1]

Plus(x, y) == [num |-> x.num * y.den + y.num * x.den, den |-> x.den * y.den]
Above(x, y) == x.num * y.den > y.num * x.den

Fused(lexical, semantic, m) == Plus(Contribution(lexical, m), Contribution(semantic, m))

First(channel, n) == SubSeq(channel, 1, Least(n, Len(channel)))

\* fused_rrf_score descending, then created_at descending, then id.
Before(lexical, semantic, x, y) ==
    \/ Above(Fused(lexical, semantic, x), Fused(lexical, semantic, y))
    \/ ~Above(Fused(lexical, semantic, y), Fused(lexical, semantic, x)) /\ x < y

\* search_memories_hybrid before its offset and limit.
Fusion(lexical, semantic) ==
    LET candidates == MatchedBy(lexical) \cup MatchedBy(semantic)
    IN  [i \in 1 .. Cardinality(candidates) |->
            CHOOSE m \in candidates :
                Cardinality({x \in candidates : x # m /\ Before(lexical, semantic, x, m)}) = i - 1]

\* One page: the window is cut before the fusion, the page after it.
Page(lexical, semantic, limit, offset) ==
    LET ranked == Fusion(First(lexical, Window(limit, offset)),
                         First(semantic, Window(limit, offset)))
    IN  SubSeq(ranked, offset + 1, Least(offset + limit, Len(ranked)))

\* search_memories_explained: the same page with the place of each result.
ExplainedPage(lexical, semantic, limit, offset) ==
    LET page == Page(lexical, semantic, limit, offset)
    IN  [i \in DOMAIN page |-> [rank |-> offset + i, memory |-> page[i]]]

\* The active Memories of a channel, in its order.
Kept(channel, active) ==
    LET places == {i \in DOMAIN channel : channel[i] \in active}
    IN  [k \in 1 .. Cardinality(places) |->
            channel[CHOOSE i \in places : Cardinality({j \in places : j < i}) = k - 1]]

\* search_answer_evidence: one page of the active Memories of a Project or of all.
Evidence(lexical, semantic, active, limit) ==
    Page(Kept(lexical, active), Kept(semantic, active), limit, 0)

-----------------------------------------------------------------------------
(* Cursors.                                                                *)

\* Captures of one listing: rank of the query, time of creation, id.
Keys == [rank : 1 .. 2, created : 1 .. 2, id : 1 .. MaxFound]

\* query_captures with a position: rank, created_at and id, all descending.
After(row, position) ==
    \/ row.rank < position.rank
    \/ /\ row.rank = position.rank
       /\ \/ row.created < position.created
          \/ row.created = position.created /\ row.id < position.id

\* The order the rows are listed in, by the same three keys.
Listing(rows) ==
    [i \in 1 .. Cardinality(rows) |->
        CHOOSE row \in rows :
            Cardinality({x \in rows :
                \/ x.rank > row.rank
                \/ x.rank = row.rank /\ x.created > row.created
                \/ x.rank = row.rank /\ x.created = row.created /\ x.id > row.id}) = i - 1]

\* The page after a position, and whether a cursor to a next one is issued.
CursorPage(rows, position, size) ==
    LET rest == Listing({row \in rows : After(row, position)})
    IN  [items |-> First(rest, size), more |-> Len(rest) > size]

-----------------------------------------------------------------------------
(* Properties.                                                             *)

\* The window is wide enough: a Memory beyond it in both channels scores less than
\* whatever stands at or before the requested place in either, so that no bounded
\* search hides a better Memory than the last it answers with.
WindowSuffices ==
    \A limit \in 1 .. 100, offset \in 0 .. MaxRequested - 1 :
        limit + offset <= MaxRequested =>
            LET beyond == RRF_K + Window(limit, offset) + 1
            IN  Above([num |-> 1, den |-> RRF_K + limit + offset],
                      Plus([num |-> 1, den |-> beyond], [num |-> 1, den |-> beyond]))

\* Whatever Memories are active when a search or an answer is asked for, two channels
\* that agree are followed, a Memory that only one of them matched included.
ChannelsFollowed(active) ==
    \A lexical, semantic \in Channels :
        LET ranked == Evidence(lexical, semantic, active, 2 * MaxFound)
        IN  \A i, j \in DOMAIN ranked :
                (\A channel \in {lexical, semantic} :
                     ranked[j] \in MatchedBy(channel) =>
                         /\ ranked[i] \in MatchedBy(channel)
                         /\ Rank(channel, ranked[i]) < Rank(channel, ranked[j]))
                    => i < j

\* Pages of any size put one after the other are the whole order, each Memory at its one rank.
PagesJoin ==
    \A lexical, semantic \in Channels, limit \in 1 .. MaxFound :
        ExplainedPage(lexical, semantic, limit, 0)
            \o ExplainedPage(lexical, semantic, 2 * MaxFound, limit)
                = ExplainedPage(lexical, semantic, 2 * MaxFound, 0)

FusionAgreesOn(n) ==
    PagesJoin /\ \A active \in SUBSET Found : Cardinality(active) = n => ChannelsFollowed(active)

\* A cursor points between two Captures of the listing: the page behind it starts with
\* the very next one, also among Captures of one rank or one instant, and nothing is
\* listed twice or left out.
CursorComplete ==
    \A rows \in SUBSET Keys :
        /\ Cardinality(rows) <= MaxFound
        /\ \A x, y \in rows : x.id = y.id => x = y
        => LET listing == Listing(rows)
           IN  \A i \in DOMAIN listing, size \in 1 .. MaxFound :
                   LET page == CursorPage(rows, listing[i], size)
                   IN  /\ page.items = SubSeq(listing, i + 1, Least(i + size, Len(listing)))
                       /\ page.more = (i + size < Len(listing))
=============================================================================
