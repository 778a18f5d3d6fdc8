------------------------------ MODULE MCIntake ------------------------------
(* Small instances of Intake for TLC. *)
EXTENDS Intake, TLC

MCSymmetry == Permutations(Sources) \cup Permutations(Captures)
                  \cup Permutations(Scopes) \cup Permutations(Texts)
                  \cup Permutations(Workers)
=============================================================================
