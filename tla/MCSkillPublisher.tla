-------------------------- MODULE MCSkillPublisher --------------------------
(* SkillPublisher for TLC, with a sentence of its documentation stated without *)
(* any of the windows.                                                         *)
EXTENDS SkillPublisher, CompilerCases

\* publisher.py:496-497: "The current tree is itself moved to a new snapshot so the
\* rollback is reversible by another rollback call": no completed tree is ever lost.
CompletedNeverLost ==
    released \subseteq {slot} \cup {snap[n] : n \in Ops} \cup displaced
=============================================================================
