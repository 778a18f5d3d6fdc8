------------------------ MODULE MCConnectorSchedule ------------------------
(* A small instance of ConnectorSchedule for TLC. *)
EXTENDS ConnectorSchedule, TLC

CONSTANTS a1, t1, t2, p1, unassigned

MCAccounts == {a1}
MCTicks == {t1, t2}
MCSymmetry == Permutations(MCTicks)
MCRepos == {p1}
MCScopes == {unassigned}
MCSchedules == {[kind |-> "daily", every |-> 1], [kind |-> "one_time", at |-> 2]}

=============================================================================
