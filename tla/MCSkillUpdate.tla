---------------------------- MODULE MCSkillUpdate ----------------------------
(* SkillUpdate for TLC, with the sentences its documentation makes without any *)
(* of the windows.                                                             *)
EXTENDS SkillUpdate

\* "Reconcile incomplete Update journals before accepting new work": with nothing
\* left to reconcile a built Skill is there.
BuiltSkillStays == Accepting /\ done # {} => slot # NoTree

\* "Rollback a journaled publication or mark it unrecoverable": once a journal is
\* rolled back, its publication is not the Skill in the slot.
PublicationWithdrawn == upc = "b_remove" => slot # upd.n
=============================================================================
