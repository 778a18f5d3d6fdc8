----------------------------- MODULE MCMemories -----------------------------
(* Small instances of Memories for TLC. *)
EXTENDS Search, TLC

CONSTANTS p1, unassigned

MCScopes == {p1, unassigned}

\* Active in a Project, and active elsewhere and due to expire.
MCBirths ==
    {[status |-> "active", scope |-> p1, expires |-> "never"],
     [status |-> "active", scope |-> unassigned, expires |-> "given"]}

OneBirth == {[status |-> "active", scope |-> p1, expires |-> "never"]}

MCSymmetry == Permutations(Memories) \cup Permutations(Requests)
                  \cup Permutations(Identities)

ASSUME WindowAssumption == WindowSuffices
ASSUME CursorAssumption == CursorComplete
=============================================================================
