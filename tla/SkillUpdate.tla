----------------------------- MODULE SkillUpdate -----------------------------
(***************************************************************************)
(* UpdateUseCase of application/update.py on top of the Publisher: one     *)
(* confirmed update publishes the Skill tree and then appends its records  *)
(* to the Schema layer, under a journal of application/                    *)
(* update_transaction.py; the constructor reconciles the journals a crash  *)
(* left.  Every process serves one command, as the command line does:      *)
(* construct the Publisher, then the use case, then update or roll back.   *)
(*                                                                         *)
(* An update takes the number of the publication it makes.  A batch of     *)
(* records is the number of the update that appends it.  As in the         *)
(* Publisher, any step may crash or raise, and windows say where that may  *)
(* cost a guarantee; `cost` collects it.                                   *)
(***************************************************************************)
EXTENDS SkillPublisher

VARIABLES
    tx,        \* .transactions/update/<n>.json
    schema,    \* batches in schema/<collection>/units.jsonl
    saved,     \* saved[n]: the batches in <n>.schema.jsonl
    upc,       \* next step of the command in progress
    upd,       \* locals of the command in progress
    result,    \* what the last command reported
    \* History variables.
    done,      \* updates reported or recovered as committed
    cost       \* what failures and rollbacks by hand may have cost

journals == <<tx, schema, saved>>
uhistory == <<done, cost>>
uvars    == <<tx, schema, saved, upc, upd, result, done, cost>>
allvars  == <<vars, uvars>>

TxStates == {"none", "prepared", "publishing", "skill_published",
             "schema_committed", "committed", "rollback_required"}

\* TRANSACTION_TRANSITIONS
Transitions ==
    [prepared          |-> {"prepared", "publishing", "rollback_required"},
     publishing        |-> {"publishing", "skill_published", "committed",
                            "rollback_required"},
     skill_published   |-> {"skill_published", "schema_committed", "committed",
                            "rollback_required"},
     schema_committed  |-> {"schema_committed", "committed",
                            "rollback_required"},
     committed         |-> {"committed"},
     rollback_required |-> {"rollback_required"}]

\* A journal: its state, whether it names a snapshot, and the pointer, the index
\* and the Schema it has hashes of.
Txs  == [state : TxStates, snapshot : BOOLEAN, pointer : Trees, index : Entries,
         schema : SUBSET Ops]
NoTx == [state |-> "none", snapshot |-> FALSE, pointer |-> NoTree,
         index |-> NoEntry, schema |-> {}]

ExecuteSteps == {"u_save", "u_begin", "u_publishing", "u_publish", "u_wait",
                 "u_schema", "u_mark_schema", "u_commit", "u_remove", "u_drop"}
UndoTxSteps  == {"b_schema", "b_slot", "b_wait", "b_remove", "b_block"}
ResumeSteps  == {"u_recover", "v_commit", "v_remove"}
UpdateSteps  == {"down", "start", "ready", "m_wait", "done"}
                  \cup ExecuteSteps \cup UndoTxSteps \cup ResumeSteps

Modes   == {"none", "execute", "recover"}
Upds    == [n : Trees, mode : Modes, before : Trees]
NoUpd   == [n |-> 0, mode |-> "none", before |-> NoTree]
Results == {"none", "built", "updated", "declined", "failed", "compensated",
            "rolled_back", "error", "crashed", "blocked"}

\* The publisher is between calls, so the use case has control.
HasControl == pc = "idle"

UpdateCosts == {"backed", "stays"}

\* Where a crash may cost the Skill its records (SkillBacked) or the slot its
\* Skill (SkillStays): the step of the command, and that of the publisher in it.
UpdateCrashWindow ==
    [backed |-> ({"b_wait"} \X {"r_restore", "r_point", "r_log", "r_index", "displace",
                               "reinstate", "idle"})
                  \cup {<<"b_remove", "idle">>},
     stays  |-> ({"u_wait"} \X {"mark_snapshotted", "swap", "mark_swapped", "point",
                               "log", "index", "commit", "forget", "abort",
                               "displace", "idle"})
                  \cup ({"m_wait"} \X {"r_restore", "displace", "reinstate"})]

\* Where an exception may.
UpdateFaultWindow ==
    [backed |-> ({"u_wait", "b_wait"} \X {"displace", "reinstate"})
                  \cup ({"b_wait"} \X {"r_log", "r_index"})
                  \cup {<<"u_wait", "unpublish">>, <<"b_remove", "idle">>},
     stays  |-> ({"u_wait", "m_wait"} \X {"displace", "reinstate"})
                  \cup ({"u_wait"} \X {"idle", "forget"})]

Spend(window) ==
    cost' = cost \cup {c \in UpdateCosts : <<upc, pc>> \in window[c]}

\* rollback_latest brings the newest snapshot back.  Once an update was withdrawn
\* that may be the withdrawn tree, unless the snapshot is the one the journal names.
TakeNewest(own) ==
    cost' = cost \cup {c \in {"backed"} : "withdrawn" \in cost /\ ~own}

SetState(n, state) == tx' = [tx EXCEPT ![n].state = state]

CanTransition(n, state) == state \in Transitions[tx[n].state]

Step(from, to) ==
    /\ HasControl
    /\ upc = from
    /\ upc' = to
    /\ UNCHANGED result

\* The command returns or raises, and the process that ran it ends.
Conclude(from, report) ==
    /\ HasControl
    /\ upc = from
    /\ upc' = "done"
    /\ result' = report

\* The constructor raises.
Refuse(from, report) ==
    /\ HasControl
    /\ upc = from
    /\ upc' = "down"
    /\ result' = report
    /\ pc' = "down"
    /\ call' = NoCall
    /\ outcome' = "none"
    /\ UNCHANGED <<dirs, records, clock, history>>

-----------------------------------------------------------------------------
(* Changed forms of definitions below, not part of the specification: each   *)
(* is a slip the code could have, and breaks a property.                     *)

\* The journal does not learn the snapshot path.
MarkPublishedNoSnapshot ==
    /\ Step("u_wait", "u_schema")
    /\ outcome = "published"
    /\ tx' = [tx EXCEPT ![upd.n].state = "skill_published",
                        ![upd.n].pointer = pointer,
                        ![upd.n].index = index]
    /\ UNCHANGED <<vars, schema, saved, upd, uhistory>>

\* The Schema is left as the crash left it.
RestoreSchemaSkipped ==
    /\ Step("b_schema", "b_slot")
    /\ UNCHANGED <<vars, journals, upd, uhistory>>

\* The Schema file is removed instead of restored.
RestoreSchemaUnlinks ==
    /\ Step("b_schema", "b_slot")
    /\ schema' = {}
    /\ UNCHANGED <<vars, tx, saved, upd, uhistory>>

\* A rollback that failed is taken for one that succeeded.
RollbackReturnedIgnored ==
    /\ Step("b_wait", "b_remove")
    /\ cost' = cost \cup {"withdrawn"}
    /\ UNCHANGED <<vars, journals, upd, done>>

\* A published Skill counts as committed whatever the Schema holds.
SchemaCommitVisibleSkill(n) ==
    tx[n].state \in {"skill_published", "schema_committed"} =>
        pointer = tx[n].pointer /\ index = tx[n].index /\ slot = n

\* The journal just dealt with stays in the directory.
RemoveRecoveredKeeps ==
    /\ Step("v_remove", "u_recover")
    /\ UNCHANGED <<vars, journals, upd, uhistory>>

-----------------------------------------------------------------------------
UInit ==
    /\ Init
    /\ tx = [n \in Ops |-> NoTx]
    /\ schema = {}
    /\ saved = [n \in Ops |-> {}]
    /\ upc = "down"
    /\ upd = NoUpd
    /\ result = "none"
    /\ done = {}
    /\ cost = {}

\* `book2skill build`, external to this module: a Skill directory with its
\* metadata and the first batch of records.
Build ==
    /\ Step("ready", "ready")
    /\ clock = 0
    /\ MaxOps > 0
    /\ clock' = 1
    /\ slot' = 1
    /\ schema' = {1}
    /\ done' = {1}
    /\ UNCHANGED <<snap, staging, displaced, records, pc, call, outcome,
                   history, tx, saved, upd, cost>>

-----------------------------------------------------------------------------
(* execute(confirm=True) *)

\* The plan is read off the Schema; two numbers are left for the publication and
\* for the rollback that may compensate it.
UpdateStart ==
    /\ Step("ready", "u_save")
    /\ schema # {}
    /\ clock + 1 < MaxOps
    /\ upd' = [n |-> clock + 1, mode |-> "execute", before |-> slot]
    /\ UNCHANGED <<vars, journals, uhistory>>

\* Dry runs, updates without changes and updates that review items, conflicts or
\* provenance block end before anything is written.
UpdateDecline ==
    /\ Conclude("ready", "declined")
    /\ UNCHANGED <<vars, journals, upd, uhistory>>

\* begin() copies the Schema next to the journal, then writes the journal.
SaveSchema ==
    /\ Step("u_save", "u_begin")
    /\ saved' = [saved EXCEPT ![upd.n] = schema]
    /\ UNCHANGED <<vars, tx, schema, upd, uhistory>>

BeginTransaction ==
    /\ Step("u_begin", "u_publishing")
    /\ SetState(upd.n, "prepared")
    /\ UNCHANGED <<vars, schema, saved, upd, uhistory>>

MarkPublishing ==
    /\ Step("u_publishing", "u_publish")
    /\ CanTransition(upd.n, "publishing")
    /\ SetState(upd.n, "publishing")
    /\ UNCHANGED <<vars, schema, saved, upd, uhistory>>

CallPublish ==
    /\ upc = "u_publish"
    /\ PublishStart
    /\ upc' = "u_wait"
    /\ UNCHANGED <<journals, upd, result, uhistory>>

\* publish() returned: the journal learns the snapshot and the hashes.
MarkPublished ==
    /\ Step("u_wait", "u_schema")
    /\ outcome = "published"
    /\ CanTransition(upd.n, "skill_published")
    /\ tx' = [tx EXCEPT ![upd.n].state = "skill_published",
                        ![upd.n].snapshot = (call.before # NoTree),
                        ![upd.n].pointer = pointer,
                        ![upd.n].index = index]
    /\ UNCHANGED <<vars, schema, saved, upd, uhistory>>

\* publish() raised after compensating: the journal is dropped.
PublishRaised ==
    /\ Step("u_wait", "u_drop")
    /\ outcome # "published"
    /\ UNCHANGED <<vars, journals, upd, uhistory>>

DropTransaction ==
    /\ Conclude("u_drop", "failed")
    /\ SetState(upd.n, "none")
    /\ UNCHANGED <<vars, schema, saved, upd, uhistory>>

SaveUnits ==
    /\ Step("u_schema", "u_mark_schema")
    /\ schema' = schema \cup {upd.n}
    /\ UNCHANGED <<vars, tx, saved, upd, uhistory>>

MarkSchema ==
    /\ Step("u_mark_schema", "u_commit")
    /\ CanTransition(upd.n, "schema_committed")
    /\ tx' = [tx EXCEPT ![upd.n].state = "schema_committed",
                        ![upd.n].schema = schema]
    /\ UNCHANGED <<vars, schema, saved, upd, uhistory>>

MarkCommitted ==
    /\ Step("u_commit", "u_remove")
    /\ CanTransition(upd.n, "committed")
    /\ SetState(upd.n, "committed")
    /\ UNCHANGED <<vars, schema, saved, upd, uhistory>>

RemoveTransaction ==
    /\ Conclude("u_remove", "updated")
    /\ tx' = [tx EXCEPT ![upd.n] = NoTx]
    /\ done' = done \cup {upd.n}
    /\ UNCHANGED <<vars, schema, saved, upd, cost>>

\* A write of execute() raises: before the publication the journal is dropped, a
\* Schema write is compensated, and any other exception escapes as it is.
ExecuteFault ==
    /\ \/ upc \in {"u_save", "u_begin", "u_drop"} /\ Conclude(upc, "failed")
       \/ Step("u_publishing", "u_drop")
       \/ outcome = "published" /\ Conclude("u_wait", "error")
       \/ Step("u_schema", "b_schema")
       \/ upc \in {"u_mark_schema", "u_commit", "u_remove"}
            /\ Conclude(upc, "error")
    /\ Spend(UpdateFaultWindow)
    /\ UNCHANGED <<vars, journals, upd, done>>

-----------------------------------------------------------------------------
(* _rollback_transaction(), called by execute() and by recovery. *)

RestoreSchema ==
    /\ Step("b_schema", "b_slot")
    /\ schema' = saved[upd.n]
    /\ UNCHANGED <<vars, tx, saved, upd, uhistory>>

\* A journal that names a snapshot rolls the latest one back: another one, when a
\* rollback before it lost the tree at its pointer write.
CallRollback ==
    /\ upc = "b_slot"
    /\ tx[upd.n].snapshot
    /\ RollbackStart
    /\ upc' = "b_wait"
    /\ TakeNewest(snap[upd.n] # NoTree)
    /\ UNCHANGED <<journals, upd, result, done>>

\* The tree withdrawn is now the newest snapshot.
RollbackReturned ==
    /\ \/ outcome = "rolled_back" /\ Step("b_wait", "b_remove")
                                   /\ cost' = cost \cup {"withdrawn"}
       \/ outcome # "rolled_back" /\ Step("b_wait", "b_block") /\ UNCHANGED cost
    /\ UNCHANGED <<vars, journals, upd, done>>

\* No snapshot to roll back to.
NothingToRollBack ==
    /\ Step("b_slot", "b_block")
    /\ tx[upd.n].snapshot
    /\ Snapshots = {}
    /\ UNCHANGED <<vars, journals, upd, uhistory>>

\* A journal without a snapshot removes the Skill, if it is its own.
RemoveSkill ==
    /\ Step("b_slot", "b_remove")
    /\ ~tx[upd.n].snapshot
    /\ slot = upd.n
    /\ slot' = NoTree
    /\ UNCHANGED <<snap, staging, displaced, records, clock, pc, call, outcome,
                   history, journals, upd, uhistory>>

ForeignSkill ==
    /\ Step("b_slot", "b_block")
    /\ ~tx[upd.n].snapshot
    /\ slot # upd.n
    /\ UNCHANGED <<vars, journals, upd, uhistory>>

FinishRollback ==
    /\ \/ upd.mode = "execute" /\ Conclude("b_remove", "compensated")
       \/ upd.mode = "recover" /\ Step("b_remove", "u_recover")
    /\ tx' = [tx EXCEPT ![upd.n] = NoTx]
    /\ UNCHANGED <<vars, schema, saved, upd, uhistory>>

UndoTxFault ==
    /\ \/ Step("b_schema", "b_block")
       \/ Step("b_slot", "b_block") /\ ~tx[upd.n].snapshot
       \/ Step("b_remove", "b_block")
    /\ Spend(UpdateFaultWindow)
    /\ UNCHANGED <<vars, journals, upd, done>>

\* execute() and the constructor raise once the journal is marked; the mark itself
\* is best effort, and is lost only while a number is left to roll back again.
BlockTransaction ==
    /\ \/ upd.mode = "execute" /\ Conclude("b_block", "blocked") /\ UNCHANGED vars
       \/ upd.mode = "recover" /\ Refuse("b_block", "blocked")
    /\ \/ SetState(upd.n, "rollback_required") /\ UNCHANGED cost
       \/ clock < MaxOps /\ UNCHANGED tx /\ Spend(UpdateFaultWindow)
    /\ UNCHANGED <<schema, saved, upd, done>>

-----------------------------------------------------------------------------
(* _recover_pending_transactions() *)

TransactionVisible(n) == slot = n

SchemaCommitVisible(n) ==
    /\ n \in schema
    /\ tx[n].state = "schema_committed" => schema = tx[n].schema
    /\ tx[n].state \in {"skill_published", "schema_committed"} =>
           pointer = tx[n].pointer /\ index = tx[n].index /\ slot = n

\* The Publisher's own recovery is over.
ResumeStart ==
    /\ Step("start", "u_recover")
    /\ UNCHANGED <<vars, journals, upd, uhistory>>

Resume(n, step) ==
    /\ tx[n].state # "none"
    /\ Step("u_recover", step)
    /\ upd' = [n |-> n, mode |-> "recover", before |-> slot]
    /\ UNCHANGED <<vars, journals, uhistory>>

\* Committed, never started, or never visible: the journal is removed.
ResumeDrop(n) ==
    /\ \/ tx[n].state \in {"committed", "prepared"}
       \/ tx[n].state = "publishing" /\ ~TransactionVisible(n)
    /\ Resume(n, "v_remove")

Unfinished(n) ==
    \/ tx[n].state \in {"skill_published", "schema_committed"}
    \/ tx[n].state = "publishing" /\ TransactionVisible(n)

ResumeCommit(n) ==
    /\ Unfinished(n)
    /\ SchemaCommitVisible(n)
    /\ Resume(n, "v_commit")

ResumeRollback(n) ==
    /\ Unfinished(n)
    /\ ~SchemaCommitVisible(n)
    /\ Resume(n, "b_schema")

ResumeRefuse(n) ==
    /\ tx[n].state = "rollback_required"
    /\ Refuse("u_recover", "blocked")
    /\ UNCHANGED <<journals, upd, uhistory>>

CommitRecovered ==
    /\ Step("v_commit", "v_remove")
    /\ CanTransition(upd.n, "committed")
    /\ SetState(upd.n, "committed")
    /\ UNCHANGED <<vars, schema, saved, upd, uhistory>>

RemoveRecovered ==
    /\ Step("v_remove", "u_recover")
    /\ tx' = [tx EXCEPT ![upd.n] = NoTx]
    /\ done' = IF tx[upd.n].state = "committed" THEN done \cup {upd.n} ELSE done
    /\ UNCHANGED <<vars, schema, saved, upd, cost>>

ResumeFault ==
    /\ upc \in {"v_commit", "v_remove"}
    /\ Refuse(upc, "error")
    /\ Spend(UpdateFaultWindow)
    /\ UNCHANGED <<journals, upd, done>>

ResumeDone ==
    /\ \A n \in Ops : tx[n].state = "none"
    /\ Step("u_recover", "ready")
    /\ upd' = NoUpd
    /\ UNCHANGED <<vars, journals, uhistory>>

ResumeTransaction ==
    \E n \in Ops : \/ ResumeDrop(n)
                   \/ ResumeCommit(n)
                   \/ ResumeRollback(n)
                   \/ ResumeRefuse(n)

-----------------------------------------------------------------------------
(* rollback(): `book2skill update --rollback` *)

RollbackCommand ==
    /\ upc = "ready"
    /\ RollbackStart
    /\ upc' = "m_wait"
    /\ TakeNewest(FALSE)
    /\ UNCHANGED <<journals, upd, result, done>>

RollbackReported ==
    /\ Conclude("m_wait", IF outcome = "rolled_back" THEN "rolled_back"
                          ELSE "error")
    /\ UNCHANGED <<vars, journals, upd, uhistory>>

-----------------------------------------------------------------------------
(* The process. *)

\* A step of the publisher; when its constructor raises, so does the use case's.
PublisherStep ==
    /\ \/ Work /\ UNCHANGED cost
       \/ Failure /\ Spend(UpdateFaultWindow)
    /\ upc' = IF pc' = "down" THEN "down" ELSE upc
    /\ result' = IF pc' = "down" THEN "blocked" ELSE result
    /\ UNCHANGED <<journals, upd, done>>

UpdateProcessStart ==
    /\ upc = "down"
    /\ Start
    /\ upc' = "start"
    /\ upd' = NoUpd
    /\ result' = "none"
    /\ UNCHANGED <<journals, uhistory>>

\* A crash is taken only while a number is left for the recovery's rollback.
UpdateCrash ==
    /\ clock < MaxOps
    /\ \/ Crash
       \/ /\ HasControl
          /\ upc \notin {"ready", "done"}
          /\ pc' = "down"
          /\ call' = NoCall
          /\ outcome' = "crashed"
          /\ UNCHANGED <<dirs, records, clock, history>>
    /\ upc' = "down"
    /\ upd' = NoUpd
    /\ result' = "crashed"
    /\ Spend(UpdateCrashWindow)
    /\ UNCHANGED <<journals, done>>

\* Between processes the wiki is edited by hand: the index loses the entry.
EditIndex ==
    /\ upc = "down"
    /\ clock < MaxOps
    /\ index # NoEntry
    /\ index' = NoEntry
    /\ UNCHANGED <<dirs, journal, pointer, hist, clock, pc, call, outcome,
                   history, uvars>>

UpdateExit ==
    /\ upc \in {"ready", "done"}
    /\ Exit
    /\ upc' = "down"
    /\ upd' = NoUpd
    /\ result' = "none"
    /\ UNCHANGED <<journals, uhistory>>

-----------------------------------------------------------------------------
Execute ==
    \/ SaveSchema \/ BeginTransaction \/ MarkPublishing \/ CallPublish
    \/ MarkPublished \/ PublishRaised \/ DropTransaction \/ SaveUnits
    \/ MarkSchema \/ MarkCommitted \/ RemoveTransaction \/ ExecuteFault

UndoTransaction ==
    \/ RestoreSchema \/ CallRollback \/ RollbackReturned \/ NothingToRollBack
    \/ RemoveSkill \/ ForeignSkill \/ FinishRollback \/ UndoTxFault
    \/ BlockTransaction

ResumePending ==
    \/ ResumeStart \/ ResumeTransaction \/ CommitRecovered \/ RemoveRecovered
    \/ ResumeFault \/ ResumeDone

\* The steps of a command or a constructor in progress.
UpdateProgress ==
    PublisherStep \/ Execute \/ UndoTransaction \/ ResumePending
      \/ RollbackReported

Commands == Build \/ UpdateStart \/ UpdateDecline \/ RollbackCommand

UNext ==
    \/ UpdateProgress \/ Commands
    \/ UpdateProcessStart \/ UpdateCrash \/ UpdateExit \/ EditIndex

USpec == UInit /\ [][UNext]_allvars

FairUSpec == USpec /\ WF_allvars(UpdateProgress) /\ WF_allvars(UpdateProcessStart)

-----------------------------------------------------------------------------
(* Properties. *)

UTypeOK ==
    /\ TypeOK
    /\ tx \in [Ops -> Txs]
    /\ schema \subseteq Ops
    /\ saved \in [Ops -> SUBSET Ops]
    /\ upc \in UpdateSteps
    /\ upd \in Upds
    /\ result \in Results
    /\ done \subseteq Ops
    /\ cost \subseteq UpdateCosts \cup {"withdrawn"}

\* The use case accepts commands: nothing is left to recover.
Accepting == upc = "ready"

\* The Schema holds the batches of the updates that were committed, no others:
\* an update either took place in full or left no record behind.
SchemaMatchesCommits == Accepting => schema = done

\* The Skill in the slot is backed by the Schema: its own records are there,
\* unless a failure hit its window or a withdrawn Skill was rolled back to by hand.
SkillBacked ==
    Accepting /\ slot # NoTree /\ "backed" \notin cost => slot \in schema

\* A Skill that was built stays in place across updates, unless a failure hit its
\* window.
SkillStays == Accepting /\ done # {} /\ "stays" \notin cost => slot # NoTree

\* "Schema commit failed; the prior Skill was restored."
CompensationRestores ==
    result = "compensated" =>
        slot = upd.before /\ schema = saved[upd.n] /\ tx[upd.n].state = "none"

\* A committed update's records are never removed again.
CommittedKept ==
    [][done \subseteq schema => done \subseteq schema']_allvars

\* Once crashes stop, every process ends up accepting commands or refusing them
\* for manual work.
UpdateResolves ==
    <>[][~UpdateCrash]_allvars =>
        []<>(upc \in {"ready", "done"} \/ result \in {"blocked", "error"})
=============================================================================
