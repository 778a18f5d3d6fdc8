------------------------ MODULE MCAutomationScheduler ------------------------
(* Small instances of AutomationScheduler for TLC. *)
EXTENDS AutomationScheduler, TLC

EveryInstant == {[kind |-> "daily", interval |-> 1]}
Once         == {[kind |-> "one_time", at |-> 1]}
NoRetry      == {1}
TwoRetries   == {2}
ThreeRetries == {3}

TickSymmetry == Permutations(Ticks)
AutomationSymmetry == Permutations(Automations)
=============================================================================
