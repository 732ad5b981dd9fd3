------------------------------- MODULE MCAnswers -------------------------------
(***************************************************************************)
(* Answers with an interface that has two configurations, different in     *)
(* both their parts; the names of profiles are interchangeable.            *)
(***************************************************************************)
EXTENDS Answers, TLC

CONSTANTS a1, a2

MCConfigs    == {[ip |-> a1, prefix |-> 24], [ip |-> a2, prefix |-> 16]}
MCCategories == {{}, {"media", "other"}, {"other"}}

Symmetry == Permutations(Tokens)

=============================================================================
