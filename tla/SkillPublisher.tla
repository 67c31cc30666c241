--------------------------- MODULE SkillPublisher ---------------------------
(***************************************************************************)
(* The Publisher of application/publisher.py for one Skill: the directory  *)
(* swap that publishes a compiled tree, its compensation, rollback_latest, *)
(* the crash journals and the recovery the constructor runs.               *)
(*                                                                         *)
(* A call is a sequence of steps, one per file system effect.  The process *)
(* may die before any step, and the effect of any step may raise instead   *)
(* of happening.  Every call takes a fresh number from `clock`, which      *)
(* stands for the timestamp and the uuid of the call: it names the tree it *)
(* compiles, its staging directory, its snapshot directory and its         *)
(* journal.                                                                *)
(*                                                                         *)
(* Some of what the Publisher promises does not survive a crash or an      *)
(* exception at certain steps.  These windows are written down below, and  *)
(* the history variable `lost` collects what the failures so far may have  *)
(* cost; a property that depends on it holds as long as nothing hit its    *)
(* window.                                                                 *)
(***************************************************************************)
EXTENDS Naturals, Sequences

CONSTANT
    MaxOps         \* bound on the number of publish and rollback calls

ASSUME MaxOpsAssumption == MaxOps \in Nat

VARIABLES
    \* Directories of the data home.
    slot,          \* tree in the published slot, NoTree when the path is absent
    snap,          \* snap[n]: tree in snapshots/<skill>/<n>
    staging,       \* staging directories that exist
    displaced,     \* trees in <slot>.failed siblings
    \* Records of the data home.
    journal,       \* .transactions/publish/<n>.json
    pointer,       \* tree whose transaction .active/<skill>.json names
    hist,          \* net history: the log's successes less the compensated one
    index,         \* entry wiki/index.md shows for the Skill
    \* The process.
    clock,         \* number of calls made so far
    pc,            \* next step of the call in progress
    call,          \* locals of the call in progress
    outcome,       \* what the last call reported
    \* History variables.
    released,      \* trees whose publication the publisher has completed
    lost           \* guarantees that failures in their windows may have cost

dirs    == <<slot, snap, staging, displaced>>
records == <<journal, pointer, hist, index>>
history == <<released, lost>>
vars    == <<slot, snap, staging, displaced, journal, pointer, hist, index,
             clock, pc, call, outcome, released, lost>>

Ops    == 1..MaxOps
NoTree == 0
Trees  == 0..MaxOps

Journals  == {"none", "prepared", "named", "snapshotted", "swapped",
              "committed", "rollback_required"}
Kinds     == {"none", "publish", "rollback", "recover"}
Entries   == [kind : Kinds, op : Trees, tree : Trees]
Calls     == [op : Kinds, id : Trees, latest : Trees, moved : Trees,
              before : Trees, swapped : BOOLEAN]
Outcomes  == {"none", "published", "rejected", "restored", "rolled_back",
              "rollback_failed", "error", "crashed", "blocked"}

NoEntry   == [kind |-> "none", op |-> 0, tree |-> NoTree]
NoCall    == [op |-> "none", id |-> 0, latest |-> 0, moved |-> NoTree,
              before |-> NoTree, swapped |-> FALSE]

PublishSteps  == {"compile", "begin", "name", "snapshot", "mark_snapshotted",
                  "swap", "mark_swapped", "point", "log", "index", "commit",
                  "forget"}
RestoreSteps  == {"displace", "reinstate", "putback", "discard"}
UndoSteps     == {"abort", "unpublish", "forget_failed", "repoint",
                  "log_failed", "index_failed"}
RollbackSteps == {"r_snapshot", "r_restore", "r_point", "r_log", "r_index"}
RecoverySteps == {"recover", "rec_mark", "rec_point", "rec_verify", "rec_log",
                  "rec_index", "rec_unpoint", "rec_forget", "rec_block"}
Steps == {"idle", "down"} \cup PublishSteps \cup RestoreSteps \cup UndoSteps
           \cup RollbackSteps \cup RecoverySteps

\* A point of the code: which call, and the step it is about to take.
Here == <<call.op, pc>>

Costs == {"slot", "tree", "pointer", "service"}

\* Where a crash may cost the slot its tree (NeverLeftEmpty), the archive a
\* completed tree (ReleasedKept), the pointer its agreement with the slot
\* (PointerAgrees), the process its next start (NeverBlocked).
CrashWindow ==
    [slot    |-> {"rollback"} \X {"r_restore", "displace", "reinstate", "putback"},
     tree    |-> {},
     pointer |-> ({"publish"} \X {"mark_swapped", "abort", "displace", "reinstate",
                                   "discard", "forget_failed", "repoint"})
                   \cup ({"rollback"} \X {"r_restore", "r_point", "displace",
                                           "reinstate"})
                   \cup {<<"recover", "rec_mark">>},
     service |-> ({"publish"} \X {"discard", "forget_failed"})
                   \cup ({"recover"} \X {"rec_unpoint", "rec_forget"})]

\* Where an exception may cost them.
FaultWindow ==
    [slot    |-> ({"rollback"} \X {"r_point", "displace", "reinstate"})
                   \cup {<<"publish", "forget">>},
     tree    |-> {<<"rollback", "r_point">>},
     pointer |-> ({"publish"} \X {"displace", "reinstate", "forget_failed",
                                   "repoint"})
                   \cup ({"rollback"} \X {"displace", "reinstate"})
                   \cup {<<"recover", "rec_mark">>},
     service |-> ({"publish", "rollback"} \X (RestoreSteps \cup UndoSteps))
                   \cup ({"recover"} \X RecoverySteps)]

Lose(window) == lost' = lost \cup {c \in Costs : Here \in window[c]}

LastEntry(h) == IF h = <<>> THEN NoEntry ELSE h[Len(h)]

PublishEntry(n) == [kind |-> "publish", op |-> n, tree |-> n]

Snapshots == {n \in Ops : snap[n] # NoTree}

\* Names sort by time: the newest snapshot is the greatest name.
IsLatest(n) == n \in Snapshots /\ \A m \in Snapshots : m <= n

\* Last step of a call: control goes back to the caller.
Report(result) == pc' = "idle" /\ outcome' = result

Goto(step) == pc' = step /\ UNCHANGED outcome

SetJournal(n, state) == journal' = [journal EXCEPT ![n] = state]

-----------------------------------------------------------------------------
(* Changed forms of actions below, none of them part of the specification:   *)
(* each is a slip the code could have, and breaks a property.                *)

\* The snapshot lands on one fixed name.
TakeSnapshotFixed ==
    /\ pc = "snapshot"
    /\ snap' = [snap EXCEPT ![1] = slot]
    /\ slot' = NoTree
    /\ Goto("mark_snapshotted")
    /\ UNCHANGED <<staging, displaced, records, clock, call, history>>

\* The old tree is not moved aside before the swap.
BeginJournalNoSnapshot ==
    /\ pc = "begin"
    /\ SetJournal(call.id, "prepared")
    /\ Goto("swap")
    /\ UNCHANGED <<dirs, pointer, hist, index, clock, call, history>>

\* The index is not regenerated.
UpdateIndexSkipped ==
    /\ pc = "index"
    /\ Goto("commit")
    /\ UNCHANGED <<dirs, records, clock, call, history>>

\* Only the swap counts as the commit point: a tree moved aside is forgotten.
AbortUnlessSwapped ==
    /\ pc = "abort"
    /\ staging' = staging \ {call.id}
    /\ \/ call.swapped /\ snap[call.id] # NoTree /\ Goto("displace")
       \/ call.swapped /\ snap[call.id] = NoTree /\ Goto("unpublish")
       \/ ~call.swapped /\ Report("rejected")
    /\ UNCHANGED <<slot, snap, displaced, records, clock, call, history>>

\* A swapped tree is deleted although a snapshot could come back.
AbortDeletes ==
    /\ pc = "abort"
    /\ staging' = staging \ {call.id}
    /\ \/ call.swapped /\ Goto("unpublish")
       \/ ~call.swapped /\ snap[call.id] # NoTree /\ Goto("displace")
       \/ ~call.swapped /\ snap[call.id] = NoTree /\ Report("rejected")
    /\ UNCHANGED <<slot, snap, displaced, records, clock, call, history>>

\* A sibling is recorded even when there was no tree to move.
DisplaceNothing ==
    /\ pc = "displace"
    /\ displaced' = displaced \cup {slot}
    /\ call' = [call EXCEPT !.moved = slot]
    /\ slot' = NoTree
    /\ Goto("reinstate")
    /\ UNCHANGED <<snap, staging, records, clock, history>>

\* The journal outlives the compensation.
ForgetFailedKeeps ==
    /\ pc = "forget_failed"
    /\ Goto("repoint")
    /\ UNCHANGED <<dirs, records, clock, call, history>>

\* The pointer keeps naming the withdrawn publication.
RepointSkipped ==
    /\ pc = "repoint"
    /\ Goto("log_failed")
    /\ UNCHANGED <<dirs, records, clock, call, history>>

\* The tree rolled back from is deleted.
RollbackSnapshotDeletes ==
    /\ pc = "r_snapshot"
    /\ slot' = NoTree
    /\ Goto("r_restore")
    /\ UNCHANGED <<snap, staging, displaced, records, clock, call, history>>

\* A journal still "prepared" is taken for one whose slot was not touched.
InGapSnapshotted(n) ==
    /\ journal[n] \in {"snapshotted", "swapped"}
    /\ snap[n] # NoTree
    /\ slot = NoTree

\* The abandoned intent stays in the journal directory.
RecoverAbandonKeeps(n) ==
    /\ pc = "recover"
    /\ journal[n] \in {"prepared", "named", "snapshotted"}
    /\ slot # NoTree \/ snap[n] = NoTree
    /\ staging' = staging \ {n}
    /\ call' = [call EXCEPT !.id = n]
    /\ UNCHANGED <<slot, snap, displaced, records, clock, pc, outcome, history>>

-----------------------------------------------------------------------------
(* Init: an empty data home and no process. *)
Init ==
    /\ slot = NoTree
    /\ snap = [n \in Ops |-> NoTree]
    /\ staging = {}
    /\ displaced = {}
    /\ journal = [n \in Ops |-> "none"]
    /\ pointer = NoTree
    /\ hist = <<>>
    /\ index = NoEntry
    /\ clock = 0
    /\ pc = "down"
    /\ call = NoCall
    /\ outcome = "none"
    /\ released = {}
    /\ lost = {}

-----------------------------------------------------------------------------
(* publish() *)

PublishStart ==
    /\ pc = "idle"
    /\ clock < MaxOps
    /\ clock' = clock + 1
    /\ call' = [NoCall EXCEPT !.op = "publish", !.id = clock + 1,
                              !.before = slot]
    /\ pc' = "compile"
    /\ outcome' = "none"
    /\ UNCHANGED <<dirs, records, history>>

\* Compile, validate and write every artefact of the tree into staging.
Compile ==
    /\ pc = "compile"
    /\ staging' = staging \cup {call.id}
    /\ Goto("begin")
    /\ UNCHANGED <<slot, snap, displaced, records, clock, call, history>>

BeginJournal ==
    /\ pc = "begin"
    /\ SetJournal(call.id, "prepared")
    /\ Goto(IF slot # NoTree THEN "name" ELSE "swap")
    /\ UNCHANGED <<dirs, pointer, hist, index, clock, call, history>>

\* The journal learns the snapshot path before the slot is moved there.
NameSnapshot ==
    /\ pc = "name"
    /\ SetJournal(call.id, "named")
    /\ Goto("snapshot")
    /\ UNCHANGED <<dirs, pointer, hist, index, clock, call, history>>

TakeSnapshot ==
    /\ pc = "snapshot"
    /\ snap' = [snap EXCEPT ![call.id] = slot]
    /\ slot' = NoTree
    /\ Goto("mark_snapshotted")
    /\ UNCHANGED <<staging, displaced, records, clock, call, history>>

MarkSnapshotted ==
    /\ pc = "mark_snapshotted"
    /\ SetJournal(call.id, "snapshotted")
    /\ Goto("swap")
    /\ UNCHANGED <<dirs, pointer, hist, index, clock, call, history>>

Swap ==
    /\ pc = "swap"
    /\ slot' = call.id
    /\ staging' = staging \ {call.id}
    /\ call' = [call EXCEPT !.swapped = TRUE]
    /\ Goto("mark_swapped")
    /\ UNCHANGED <<snap, displaced, records, clock, history>>

MarkSwapped ==
    /\ pc = "mark_swapped"
    /\ SetJournal(call.id, "swapped")
    /\ Goto("point")
    /\ UNCHANGED <<dirs, pointer, hist, index, clock, call, history>>

WritePointer ==
    /\ pc = "point"
    /\ pointer' = call.id
    /\ Goto("log")
    /\ UNCHANGED <<dirs, journal, hist, index, clock, call, history>>

LogSuccess ==
    /\ pc = "log"
    /\ hist' = Append(hist, PublishEntry(call.id))
    /\ Goto("index")
    /\ UNCHANGED <<dirs, journal, pointer, index, clock, call, history>>

UpdateIndex ==
    /\ pc = "index"
    /\ index' = LastEntry(hist)
    /\ Goto("commit")
    /\ UNCHANGED <<dirs, journal, pointer, hist, clock, call, history>>

CommitJournal ==
    /\ pc = "commit"
    /\ SetJournal(call.id, "committed")
    /\ Goto("forget")
    /\ UNCHANGED <<dirs, pointer, hist, index, clock, call, history>>

ForgetJournal ==
    /\ pc = "forget"
    /\ SetJournal(call.id, "none")
    /\ released' = released \cup {call.id}
    /\ Report("published")
    /\ UNCHANGED <<dirs, pointer, hist, index, clock, call, lost>>

\* Any step of publish() may raise: control goes to the except clause.
PublishFault ==
    /\ pc \in PublishSteps
    /\ Goto("abort")
    /\ Lose(FaultWindow)
    /\ UNCHANGED <<dirs, records, clock, call, released>>

-----------------------------------------------------------------------------
(* The except clause of publish(), and _restore_on_failure.                *)

\* Clean the staging tree, then choose: the snapshot holds the prior tree, or
\* a first publication reached the slot, or the slot was never touched.
Abort ==
    /\ pc = "abort"
    /\ staging' = staging \ {call.id}
    /\ \/ snap[call.id] # NoTree /\ Goto("displace")
       \/ snap[call.id] = NoTree /\ call.swapped /\ Goto("unpublish")
       \/ snap[call.id] = NoTree /\ ~call.swapped /\ Report("rejected")
    /\ UNCHANGED <<slot, snap, displaced, records, clock, call, history>>

\* The slot, when occupied, is moved to a .failed sibling.
Displace ==
    /\ pc = "displace"
    /\ displaced' = displaced \cup ({slot} \ {NoTree})
    /\ call' = [call EXCEPT !.moved = slot]
    /\ slot' = NoTree
    /\ Goto("reinstate")
    /\ UNCHANGED <<snap, staging, records, clock, history>>

Reinstate ==
    /\ pc = "reinstate"
    /\ slot' = snap[call.id]
    /\ snap' = [snap EXCEPT ![call.id] = NoTree]
    /\ Goto("discard")
    /\ UNCHANGED <<staging, displaced, records, clock, call, history>>

\* The .failed sibling is deleted; rollback_latest re-raises after that.
Discard ==
    /\ pc = "discard"
    /\ displaced' = displaced \ {call.moved}
    /\ \/ call.op = "publish" /\ Goto("forget_failed")
       \/ call.op = "rollback" /\ Report("rollback_failed")
    /\ UNCHANGED <<slot, snap, staging, records, clock, call, history>>

\* Reinstating failed: the displaced tree goes back, and the restore failed.
PutBack ==
    /\ pc = "putback"
    /\ slot' = call.moved
    /\ displaced' = displaced \ {call.moved}
    /\ Report("rollback_failed")
    /\ UNCHANGED <<snap, staging, records, clock, call, history>>

\* _remove_first_publish: no prior tree to restore, the slot is emptied.
Unpublish ==
    /\ pc = "unpublish"
    /\ slot' = NoTree
    /\ Goto("forget_failed")
    /\ UNCHANGED <<snap, staging, displaced, records, clock, call, history>>

ForgetFailed ==
    /\ pc = "forget_failed"
    /\ SetJournal(call.id, "none")
    /\ Goto("repoint")
    /\ UNCHANGED <<dirs, pointer, hist, index, clock, call, history>>

\* The restored tree's transaction, or no pointer after a first publication.
Repoint ==
    /\ pc = "repoint"
    /\ pointer' = slot
    /\ Goto("log_failed")
    /\ UNCHANGED <<dirs, journal, hist, index, clock, call, history>>

\* A failure entry cancels the success entry of the same attempt.
LogFailure ==
    /\ pc = "log_failed"
    /\ hist' = IF LastEntry(hist) = PublishEntry(call.id)
               THEN SubSeq(hist, 1, Len(hist) - 1) ELSE hist
    /\ Goto("index_failed")
    /\ UNCHANGED <<dirs, journal, pointer, index, clock, call, history>>

IndexFailure ==
    /\ pc = "index_failed"
    /\ index' = LastEntry(hist)
    /\ Report("restored")
    /\ UNCHANGED <<dirs, journal, pointer, hist, clock, call, history>>

\* A step of the compensation may itself raise: the restore gives up (or puts
\* the displaced tree back), an unlink or pointer write escapes as it is, and
\* the failure log is best effort.
UndoFault ==
    /\ \/ pc \in {"displace", "putback", "unpublish"} /\ Report("rollback_failed")
       \/ pc = "reinstate" /\ call.moved # NoTree /\ Goto("putback")
       \/ pc = "reinstate" /\ call.moved = NoTree /\ Report("rollback_failed")
       \/ pc \in {"forget_failed", "repoint"} /\ Report("error")
       \/ pc \in {"log_failed", "index_failed"} /\ Report("restored")
    /\ Lose(FaultWindow)
    /\ UNCHANGED <<dirs, records, clock, call, released>>

-----------------------------------------------------------------------------
(* rollback_latest(): no journal is written for it. *)

RollbackStart ==
    /\ pc = "idle"
    /\ clock < MaxOps
    /\ clock' = clock + 1
    /\ \E n \in Ops :
          /\ IsLatest(n)
          /\ call' = [NoCall EXCEPT !.op = "rollback", !.id = clock + 1,
                                    !.latest = n, !.before = slot]
    /\ pc' = IF slot # NoTree THEN "r_snapshot" ELSE "r_restore"
    /\ outcome' = "none"
    /\ UNCHANGED <<dirs, records, history>>

RollbackSnapshot ==
    /\ pc = "r_snapshot"
    /\ snap' = [snap EXCEPT ![call.id] = slot]
    /\ slot' = NoTree
    /\ Goto("r_restore")
    /\ UNCHANGED <<staging, displaced, records, clock, call, history>>

RollbackRestore ==
    /\ pc = "r_restore"
    /\ slot' = snap[call.latest]
    /\ snap' = [snap EXCEPT ![call.latest] = NoTree]
    /\ Goto("r_point")
    /\ UNCHANGED <<staging, displaced, records, clock, call, history>>

RollbackPoint ==
    /\ pc = "r_point"
    /\ pointer' = slot
    /\ Goto("r_log")
    /\ UNCHANGED <<dirs, journal, hist, index, clock, call, history>>

RollbackLog ==
    /\ pc = "r_log"
    /\ hist' = Append(hist, [kind |-> "rollback", op |-> call.id, tree |-> slot])
    /\ Goto("r_index")
    /\ UNCHANGED <<dirs, journal, pointer, index, clock, call, history>>

RollbackIndex ==
    /\ pc = "r_index"
    /\ index' = LastEntry(hist)
    /\ Report("rolled_back")
    /\ UNCHANGED <<dirs, journal, pointer, hist, clock, call, history>>

\* A failed rename or pointer write restores the snapshot just taken; the log
\* and the index are written outside the try block.
RollbackFault ==
    /\ \/ /\ pc \in {"r_snapshot", "r_restore", "r_point"}
          /\ \/ snap[call.id] # NoTree /\ Goto("displace")
             \/ snap[call.id] = NoTree /\ Report("rollback_failed")
       \/ pc \in {"r_log", "r_index"} /\ Report("error")
    /\ Lose(FaultWindow)
    /\ UNCHANGED <<dirs, records, clock, call, released>>

-----------------------------------------------------------------------------
(* Process death, and _recover_publish_transactions in the constructor.    *)

Crash ==
    /\ pc \notin {"idle", "down"}
    /\ pc' = "down"
    /\ call' = NoCall
    /\ outcome' = "crashed"
    /\ Lose(CrashWindow)
    /\ UNCHANGED <<dirs, records, clock, released>>

\* The process ends between calls, as every command of the CLI does.
Exit ==
    /\ pc = "idle"
    /\ pc' = "down"
    /\ call' = NoCall
    /\ outcome' = "none"
    /\ UNCHANGED <<dirs, records, clock, history>>

Start ==
    /\ pc = "down"
    /\ call' = [NoCall EXCEPT !.op = "recover"]
    /\ pc' = "recover"
    /\ outcome' = "none"
    /\ UNCHANGED <<dirs, records, clock, history>>

Pick(n, step) ==
    /\ pc = "recover"
    /\ call' = [call EXCEPT !.id = n]
    /\ Goto(step)

\* The swap of journal n stopped with the old tree aside and the slot empty.
InGap(n) ==
    /\ journal[n] \in {"named", "snapshotted", "swapped"}
    /\ snap[n] # NoTree
    /\ slot = NoTree

RecoverCommitted(n) ==
    /\ journal[n] = "committed"
    /\ SetJournal(n, "none")
    /\ Pick(n, "recover")
    /\ UNCHANGED <<dirs, pointer, hist, index, clock, history>>

\* The staged tree is there: roll forward.
RecoverForward(n) ==
    /\ journal[n] # "swapped"
    /\ InGap(n)
    /\ n \in staging
    /\ slot' = n
    /\ staging' = staging \ {n}
    /\ Pick(n, "rec_mark")
    /\ UNCHANGED <<snap, displaced, records, clock, history>>

\* No staged tree, or it was swapped in and is gone: the snapshot goes back.
RecoverBack(n) ==
    /\ InGap(n)
    /\ n \notin staging \/ journal[n] = "swapped"
    /\ slot' = snap[n]
    /\ snap' = [snap EXCEPT ![n] = NoTree]
    /\ Pick(n, "rec_unpoint")
    /\ UNCHANGED <<staging, displaced, records, clock, history>>

\* Not in the gap: the intent is dropped with its staging tree.
RecoverAbandon(n) ==
    /\ journal[n] \in {"prepared", "named", "snapshotted"}
    /\ ~InGap(n)
    /\ staging' = staging \ {n}
    /\ Pick(n, "rec_forget")
    /\ UNCHANGED <<slot, snap, displaced, records, clock, history>>

RecoverSwapped(n) ==
    /\ journal[n] = "swapped"
    /\ slot # NoTree
    /\ Pick(n, "rec_point")
    /\ UNCHANGED <<dirs, records, clock, history>>

\* "neither active nor snapshot tree exists"
RecoverLost(n) ==
    /\ journal[n] = "swapped"
    /\ slot = NoTree
    /\ snap[n] = NoTree
    /\ Pick(n, "rec_block")
    /\ UNCHANGED <<dirs, records, clock, history>>

\* A journal that needs manual work makes the constructor raise.
RecoverRefuse(n) ==
    /\ pc = "recover"
    /\ journal[n] = "rollback_required"
    /\ pc' = "down"
    /\ call' = NoCall
    /\ outcome' = "blocked"
    /\ UNCHANGED <<dirs, records, clock, history>>

RecoverJournal ==
    \E n \in Ops : \/ RecoverCommitted(n)
                   \/ RecoverForward(n)
                   \/ RecoverBack(n)
                   \/ RecoverAbandon(n)
                   \/ RecoverSwapped(n)
                   \/ RecoverLost(n)
                   \/ RecoverRefuse(n)

RecoverMark ==
    /\ pc = "rec_mark"
    /\ SetJournal(call.id, "swapped")
    /\ Goto("rec_point")
    /\ UNCHANGED <<dirs, pointer, hist, index, clock, call, history>>

RecoverPoint ==
    /\ pc = "rec_point"
    /\ pointer' = call.id
    /\ Goto("rec_verify")
    /\ UNCHANGED <<dirs, journal, hist, index, clock, call, history>>

\* The slot must hold the artifact the journal names.
RecoverVerify ==
    /\ pc = "rec_verify"
    /\ Goto(IF slot = call.id THEN "rec_log" ELSE "rec_block")
    /\ UNCHANGED <<dirs, records, clock, call, history>>

RecoverLog ==
    /\ pc = "rec_log"
    /\ hist' = IF \E i \in 1..Len(hist) : hist[i] = PublishEntry(call.id)
               THEN hist ELSE Append(hist, PublishEntry(call.id))
    /\ Goto("rec_index")
    /\ UNCHANGED <<dirs, journal, pointer, index, clock, call, history>>

RecoverIndex ==
    /\ pc = "rec_index"
    /\ index' = LastEntry(hist)
    /\ released' = released \cup {call.id}
    /\ Goto("rec_forget")
    /\ UNCHANGED <<dirs, journal, pointer, hist, clock, call, lost>>

RecoverUnpoint ==
    /\ pc = "rec_unpoint"
    /\ pointer' = NoTree
    /\ Goto("rec_forget")
    /\ UNCHANGED <<dirs, journal, hist, index, clock, call, history>>

RecoverForget ==
    /\ pc = "rec_forget"
    /\ SetJournal(call.id, "none")
    /\ Goto("recover")
    /\ UNCHANGED <<dirs, pointer, hist, index, clock, call, history>>

\* The mark is best effort; the constructor raises either way.
RecoverBlock ==
    /\ pc = "rec_block"
    /\ SetJournal(call.id, "rollback_required")
    /\ pc' = "down"
    /\ call' = NoCall
    /\ outcome' = "blocked"
    /\ UNCHANGED <<dirs, pointer, hist, index, clock, history>>

MarkFault ==
    /\ pc = "rec_block"
    /\ pc' = "down"
    /\ call' = NoCall
    /\ outcome' = "blocked"
    /\ Lose(FaultWindow)
    /\ UNCHANGED <<dirs, records, clock, released>>

\* An exception while recovering a journal; also when the rename fails.
RecoverFault ==
    /\ \/ /\ pc \in RecoverySteps \ {"recover", "rec_block"}
          /\ UNCHANGED call
       \/ /\ pc = "recover"
          /\ \E n \in Ops : /\ journal[n] \notin {"none", "rollback_required"}
                            /\ call' = [call EXCEPT !.id = n]
    /\ Goto("rec_block")
    /\ Lose(FaultWindow)
    /\ UNCHANGED <<dirs, records, clock, released>>

RecoverDone ==
    /\ pc = "recover"
    /\ \A n \in Ops : journal[n] = "none"
    /\ Report("none")
    /\ call' = NoCall
    /\ UNCHANGED <<dirs, records, clock, history>>

-----------------------------------------------------------------------------
Publish ==
    \/ Compile \/ BeginJournal \/ NameSnapshot \/ TakeSnapshot
    \/ MarkSnapshotted \/ Swap \/ MarkSwapped \/ WritePointer \/ LogSuccess
    \/ UpdateIndex \/ CommitJournal \/ ForgetJournal

Compensate ==
    \/ Abort \/ Displace \/ Reinstate \/ Discard \/ PutBack \/ Unpublish
    \/ ForgetFailed \/ Repoint \/ LogFailure \/ IndexFailure

Rollback ==
    \/ RollbackSnapshot \/ RollbackRestore \/ RollbackPoint \/ RollbackLog
    \/ RollbackIndex

Recover ==
    \/ RecoverJournal \/ RecoverMark \/ RecoverPoint \/ RecoverVerify
    \/ RecoverLog \/ RecoverIndex \/ RecoverUnpoint \/ RecoverForget
    \/ RecoverBlock \/ RecoverDone

Work == Publish \/ Compensate \/ Rollback \/ Recover

Failure == PublishFault \/ UndoFault \/ RollbackFault \/ RecoverFault \/ MarkFault

\* The steps of a call in progress: sequential code that runs to its end.
Progress == Work \/ Failure

\* What the user and the machine do to the process.
Environment == PublishStart \/ RollbackStart \/ Crash \/ Exit \/ Start

Next == Progress \/ Environment

Spec == Init /\ [][Next]_vars

FairSpec == Spec /\ WF_vars(Progress) /\ WF_vars(Start)

-----------------------------------------------------------------------------
(* Properties. *)

TypeOK ==
    /\ slot \in Trees
    /\ snap \in [Ops -> Trees]
    /\ staging \subseteq Ops
    /\ displaced \subseteq Ops
    /\ journal \in [Ops -> Journals]
    /\ pointer \in Trees
    /\ hist \in Seq(Entries)
    /\ index \in Entries
    /\ clock \in 0..MaxOps
    /\ pc \in Steps
    /\ call \in Calls
    /\ outcome \in Outcomes
    /\ released \subseteq Ops
    /\ lost \subseteq Costs

\* A tree whose publication was completed (publish() returned, or recovery
\* finished it) stays in the slot, in a snapshot or in a .failed sibling,
\* whatever later calls, exceptions, crashes and recoveries do, but for the one
\* in its window, the pointer write of rollback_latest.
ReleasedKept ==
    "tree" \notin lost =>
        released \subseteq {slot} \cup {snap[n] : n \in Ops} \cup displaced

\* "The swap target is always absent at swap time": no rename of a directory
\* ever lands on an existing tree, neither in the slot nor in a snapshot.
RenameTargetAbsent ==
    /\ pc \in {"swap", "r_restore", "reinstate", "putback"} => slot = NoTree
    /\ pc \in {"snapshot", "r_snapshot"} => snap[call.id] = NoTree

\* When publish() returns, its tree is in the slot and the pointer, the log and
\* the index all name it; the tree it replaced is the snapshot the record names.
PublishedVisible ==
    outcome = "published" =>
        /\ slot = call.id
        /\ pointer = call.id
        /\ LastEntry(hist) = PublishEntry(call.id)
        /\ index = PublishEntry(call.id)
        /\ snap[call.id] = call.before

\* When publish() raises and says the prior state was restored, or raises
\* before the commit point, the slot is as the call found it, and in the first
\* case the pointer names that tree and no journal of the call is left.
FailureRestores ==
    /\ outcome \in {"restored", "rejected"} => slot = call.before
    /\ outcome = "restored" => pointer = slot /\ journal[call.id] = "none"

\* rollback_latest keeps the tree it replaces as the newest snapshot, so that
\* another rollback brings it back; pointer and index name the restored tree.
RollbackReversible ==
    outcome = "rolled_back" =>
        /\ slot # NoTree
        /\ pointer = slot
        /\ index.tree = slot
        /\ call.before # NoTree => IsLatest(call.id) /\ snap[call.id] = call.before

\* No call in progress and nothing left for recovery to do.
Quiet == pc = "idle" /\ \A n \in Ops : journal[n] = "none"

\* Between calls the slot of a published Skill is never left empty, unless a
\* failure hit the slot's window.
NeverLeftEmpty ==
    Quiet /\ released # {} /\ "slot" \notin lost => slot # NoTree

\* Between calls the active pointer names the tree in the slot, or is absent,
\* unless a failure hit the pointer's window.
PointerAgrees == Quiet /\ "pointer" \notin lost => pointer \in {slot, NoTree}

\* Recovery finishes or safely undoes what a crash left: it gives up and asks
\* for manual work only after a failure in the window of the service.
NeverBlocked == outcome = "blocked" => "service" \in lost

\* Once crashes stop, every start of the process ends in a working publisher
\* or in a refusal that asks for manual recovery: recovery does not loop.
ServiceResumes ==
    <>[][~Crash]_vars => []<>(pc = "idle" \/ outcome = "blocked")

-----------------------------------------------------------------------------
(* The refinement of ReleaseSlot.  While the slot is empty because the old   *)
(* tree was set aside, the tree set aside is the current one.                *)

SetAside ==
    {n \in Ops : /\ slot = NoTree
                /\ snap[n] # NoTree
                /\ \/ journal[n] \in {"named", "snapshotted", "swapped",
                                       "rollback_required"}
                   \/ n = call.id}

CurrentTree ==
    IF SetAside = {} THEN slot
    ELSE snap[CHOOSE n \in SetAside : \A m \in SetAside : m <= n]

Archive == {snap[n] : n \in Ops} \ {NoTree, CurrentTree}

Release == INSTANCE ReleaseSlot WITH current <- CurrentTree,
                                     archive <- Archive,
                                     confirmed <- released,
                                     intact <- ("slot" \notin lost)

ImplementsReleaseSlot == Release!RSpec
=============================================================================
