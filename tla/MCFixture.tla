----------------------------- MODULE MCFixture -----------------------------
(* Instances of FixturePrompts for TLC. *)
EXTENDS FixturePrompts, TLC

CONSTANTS c1, s0, s1, q1, q2

\* The fixture's session can be branched, its branch cannot.
OneBranch == (s0 :> s1) @@ (s1 :> None)
=============================================================================
