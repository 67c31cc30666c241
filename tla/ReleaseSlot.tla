----------------------------- MODULE ReleaseSlot -----------------------------
(***************************************************************************)
(* What the Publisher promises about one Skill, whatever happens to the    *)
(* process: one tree is current, it changes in one step, an earlier tree   *)
(* can come back, only an unconfirmed tree can disappear, and the slot is  *)
(* emptied only when nothing else was ever published.  The promise is      *)
(* withdrawn once `intact` is false.                                       *)
(***************************************************************************)
CONSTANTS Trees, NoTree

VARIABLES
    current,     \* the tree readers of the slot get, or NoTree
    archive,     \* trees kept for a later rollback
    confirmed,   \* trees whose publication was completed
    intact       \* no failure has put the promise out of reach

rvars == <<current, archive, confirmed, intact>>

Kept == archive \cup ({current} \ {NoTree})

RInit ==
    /\ current = NoTree
    /\ archive = {}
    /\ confirmed = {}
    /\ intact = TRUE

\* A new tree becomes current; the tree it replaces is archived.
Install ==
    \E t \in Trees \ {NoTree} :
        /\ t \notin Kept \cup confirmed
        /\ current' = t
        /\ archive' = Kept
        /\ UNCHANGED confirmed

Confirm ==
    /\ current # NoTree
    /\ confirmed' = confirmed \cup {current}
    /\ UNCHANGED <<current, archive>>

\* An unconfirmed tree is discarded for an archived one, if there is one.
Withdraw ==
    /\ current \notin confirmed
    /\ \/ current' \in archive
       \/ archive = {} /\ current' = NoTree
    /\ archive' = archive \ {current'}
    /\ UNCHANGED confirmed

\* An archived tree becomes current and the current one is archived.
Revert ==
    \E t \in archive :
        /\ current' = t
        /\ archive' = Kept \ {t}
        /\ UNCHANGED confirmed

Promised == intact /\ intact' /\ (Install \/ Confirm \/ Withdraw \/ Revert)

Withdrawn == ~intact'

RNext == Promised \/ Withdrawn

RSpec == RInit /\ [][RNext]_rvars

-----------------------------------------------------------------------------
\* Nothing whose publication was completed is ever lost, and once something
\* was published the slot is never empty.
NothingLost ==
    intact =>
        /\ confirmed \subseteq Kept
        /\ confirmed # {} => current # NoTree
=============================================================================
