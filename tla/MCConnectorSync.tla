-------------------------- MODULE MCConnectorSync --------------------------
(* A small instance of ConnectorSync for TLC. *)
EXTENDS ConnectorSync, TLC

CONSTANTS a1, p1, i1, i2, i3, project, unassigned

MCAccounts == {a1}
MCRepos == {p1}
MCItems == {i1, i2, i3}
MCSymmetry == Permutations(MCItems)
MCScopes == {project, unassigned}

=============================================================================
