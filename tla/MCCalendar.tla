----------------------------- MODULE MCCalendar -----------------------------
(* A small instance of Calendar for TLC. *)
EXTENDS Calendar, TLC

CONSTANTS c1, c2, o1, o2, x, y, unassigned

MCCalendars == {c1}
TwoCalendars == {c1, c2}
MCOccurrences == {o1, o2}
MCContents == {x, y}
MCFloating == {y}
MCWindow == <<{x, y}, {x, y}, {y}>>
OneWindow == <<{x, y}>>
MCScopes == {unassigned}
MCSymmetry == Permutations(MCOccurrences)

=============================================================================
