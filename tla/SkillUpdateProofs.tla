------------------------- MODULE SkillUpdateProofs -------------------------
(***************************************************************************)
(* What an update promises, for every MaxOps, over every interleaving of   *)
(* its steps with the Publisher it calls: the Schema holds the units of    *)
(* the committed updates and no others, a compensation that is reported    *)
(* left the Skill and the Schema as the update found them, no step takes   *)
(* back the units of a committed update, and, but for the failures the     *)
(* windows name, a Skill that was built stays and has its records.         *)
(*                                                                         *)
(* UInv is the inductive invariant of the first three.  Its first part is  *)
(* IInv, the invariant of SkillPublisherProofs, which the steps of the use *)
(* case leave alone or, where they remove the Skill or kill the process,   *)
(* keep by a lemma of their own.  The rest says who has control, which     *)
(* number an update has, how far its journal has come, what the Schema     *)
(* holds at that point, and where the tree is that the update found.  That *)
(* last part follows the tree through the call: PublicationProceeds and    *)
(* RollbackProceeds say what one step of the Publisher does to it.         *)
(*                                                                         *)
(* SkillInv is that of the last two.  Before adds to UInv where the trees  *)
(* and the publisher's journals are; StaysInv says who will fill an empty  *)
(* slot, as long as no failure hit its window; BackedInv says which trees  *)
(* have their records, or a journal that will bring or refuse them.        *)
(***************************************************************************)
EXTENDS SkillUpdate, SkillPublisherProofs, TLAPS

-----------------------------------------------------------------------------
(* The inductive invariant. *)

\* The steps at which the publisher has control, or no process runs.
Away == {"down", "start", "u_wait", "b_wait", "m_wait"}

\* Who has control: outside its calls the publisher is idle, and a command that
\* is over, or a process that is not there, has no step of the publisher left.
Control ==
    /\ upc \notin Away => pc = "idle"
    /\ upc = "down" <=> pc = "down"
    /\ upc \in ExecuteSteps => upd.mode = "execute"
    /\ upc \in ResumeSteps \ {"u_recover"} => upd.mode = "recover"
    /\ upc \in UndoTxSteps => upd.mode \in {"execute", "recover"}
    /\ upc \in ExecuteSteps \cup UndoTxSteps \cup {"v_commit", "v_remove"} => upd.n \in Ops
    /\ upc = "u_wait" => call.op = "publish" /\ call.id = upd.n
    /\ upc \in {"b_wait", "m_wait"} => call.op = "rollback"

\* An update's number is taken once: by the publication it asks for.
Numbers ==
    /\ \A n \in done : n <= clock
    /\ \A n \in Ops : tx[n].state # "none" => n \notin done
    /\ \A n \in Ops :
          tx[n].state \in {"skill_published", "schema_committed", "committed"} => n <= clock
    /\ upc \in {"u_save", "u_begin", "u_publishing", "u_publish"} => upd.n = clock + 1
    /\ upc = "u_wait" => upd.n = clock

\* The journals a step of the command may find.
NoJournal == \A n \in Ops : tx[n].state = "none"

StateFollowsStep ==
    /\ \A m, n \in Ops : tx[m].state # "none" /\ tx[n].state # "none" => m = n
    /\ upc \in {"ready", "m_wait", "u_save", "u_begin"} => NoJournal
    /\ upc = "u_publishing" => tx[upd.n].state = "prepared"
    /\ upc \in {"u_publish", "u_wait"} => tx[upd.n].state = "publishing"
    /\ upc = "u_drop" => tx[upd.n].state \in {"prepared", "publishing"}
    /\ upc \in {"u_schema", "u_mark_schema"} => tx[upd.n].state = "skill_published"
    /\ upc = "u_commit" => tx[upd.n].state = "schema_committed"
    /\ upc = "u_remove" => tx[upd.n].state = "committed"
    /\ upc \in UndoTxSteps =>
           tx[upd.n].state \in {"publishing", "skill_published", "schema_committed"}
    /\ upc = "v_commit" => tx[upd.n].state \in {"skill_published", "schema_committed"}
    /\ upc = "v_remove" => tx[upd.n].state \in {"committed", "prepared", "publishing"}

\* What the Schema holds beyond the committed batches, by the journal of the
\* update under way and by the step that last wrote it.
SchemaFollowsJournal ==
    /\ NoJournal => schema = done
    /\ \A n \in Ops :
         /\ tx[n].state # "none" => saved[n] = done
         /\ tx[n].state \in {"prepared", "publishing"} => schema = done
         /\ tx[n].state \in {"skill_published", "schema_committed", "rollback_required"} =>
                schema \in {done, done \cup {n}}
         /\ tx[n].state = "committed" => schema = done \cup {n}
    /\ upc = "u_begin" => saved[upd.n] = done
    /\ upc \in {"u_schema", "b_slot", "b_wait", "b_remove"} => schema = done
    /\ upc \in {"u_mark_schema", "u_commit", "v_commit"} => schema = done \cup {upd.n}

\* The tree an update found is not lost from sight: it is in the slot, then in
\* the snapshot the publication took, then in the slot again.
BeforeFollowsStep ==
    /\ upc \in {"u_save", "u_begin", "u_publishing", "u_publish"} => slot = upd.before
    /\ upc = "u_wait" =>
         /\ call.before = upd.before
         /\ pc \in {"compile", "begin", "name", "snapshot"} => slot = upd.before
         /\ pc \in {"mark_snapshotted", "swap", "mark_swapped", "point", "log", "index",
                    "commit", "forget"} => snap[upd.n] = upd.before
         /\ pc = "idle" /\ outcome = "published" => snap[upd.n] = upd.before
    /\ upd.mode = "execute" /\ upc \in {"u_schema", "b_schema", "b_slot"} =>
         /\ clock = upd.n
         /\ snap[upd.n] = upd.before
         /\ tx[upd.n].snapshot = (upd.before # NoTree)
    /\ upd.mode = "execute" /\ upc = "b_wait" =>
         /\ pc \in {"r_snapshot", "r_restore"} =>
                call.latest = upd.n /\ call.id # upd.n /\ snap[upd.n] = upd.before
         /\ pc \in {"r_point", "r_log", "r_index"} => slot = upd.before
         /\ pc = "idle" /\ outcome = "rolled_back" => slot = upd.before
    /\ upd.mode = "execute" /\ upc = "b_remove" => slot = upd.before

\* A compensation is reported when it is over.
Compensated ==
    result = "compensated" =>
        upc = "done" /\ slot = upd.before /\ schema = saved[upd.n] /\ tx[upd.n].state = "none"

\* The inductive invariant.
UInv ==
    /\ UTypeOK /\ IInv
    /\ Control /\ Numbers /\ StateFollowsStep /\ SchemaFollowsJournal
    /\ BeforeFollowsStep /\ Compensated

-----------------------------------------------------------------------------
(* Lemmas. *)

\* Writing the state of one journal leaves its snapshot and the others alone.
LEMMA StateWritten ==
    ASSUME tx \in [Ops -> Txs], NEW n \in Ops, NEW s \in TxStates, SetState(n, s)
    PROVE  /\ tx' \in [Ops -> Txs]
           /\ tx'[n].state = s
           /\ tx'[n].snapshot = tx[n].snapshot
           /\ \A m \in Ops : m # n => tx'[m] = tx[m]
  BY DEF SetState, Txs

\* Removing one journal leaves the others alone.
LEMMA JournalRemoved ==
    ASSUME tx \in [Ops -> Txs], NEW n \in Ops, tx' = [tx EXCEPT ![n] = NoTx]
    PROVE  /\ tx' \in [Ops -> Txs]
           /\ tx'[n].state = "none"
           /\ \A m \in Ops : m # n => tx'[m] = tx[m]
  <1>1. NoTx \in Txs /\ NoTx.state = "none"
    BY MaxOpsAssumption DEF NoTx, Txs, TxStates, Entries, Kinds, NoEntry, NoTree, Trees
  <1>2. QED
    BY <1>1

\* The locals of a command are numbers, a mode and a tree.
LEMMA UpdFields ==
    ASSUME upd \in Upds
    PROVE  upd.n \in Trees /\ upd.mode \in Modes /\ upd.before \in Trees
  BY DEF Upds

\* A command starts with such locals.
LEMMA NewUpd ==
    ASSUME NEW n \in Trees, NEW mode \in Modes, NEW before \in Trees
    PROVE  [n |-> n, mode |-> mode, before |-> before] \in Upds
  BY DEF Upds

\* So does a process without a command.
LEMMA NoUpdType == NoUpd \in Upds
  BY MaxOpsAssumption DEF NoUpd, Upds, Modes, Trees, NoTree

\* Publishing writes a journal and leaves the others alone.
LEMMA PublicationWritten ==
    ASSUME tx \in [Ops -> Txs], upd.n \in Ops, pointer \in Trees, index \in Entries,
           MarkPublished
    PROVE  /\ tx' \in [Ops -> Txs]
           /\ tx'[upd.n].state = "skill_published"
           /\ tx'[upd.n].snapshot = (call.before # NoTree)
           /\ \A m \in Ops : m # upd.n => tx'[m] = tx[m]
  <1> DEFINE old == tx[upd.n]
             new == [state |-> "skill_published", snapshot |-> (call.before # NoTree),
                     pointer |-> pointer, index |-> index, schema |-> old.schema]
  <1>1. new \in Txs
    BY DEF Txs, TxStates
  <1>2. old = [state |-> old.state, snapshot |-> old.snapshot, pointer |-> old.pointer,
               index |-> old.index, schema |-> old.schema]
    BY DEF Txs
  <1>3. tx'[upd.n] = new
    BY <1>2 DEF MarkPublished
  <1>4. DOMAIN tx' = Ops /\ \A m \in Ops : m # upd.n => tx'[m] = tx[m]
    BY DEF MarkPublished
  <1>5. tx' = [m \in Ops |-> tx'[m]]
    BY DEF MarkPublished
  <1>6. QED
    BY <1>1, <1>3, <1>4, <1>5

\* A window that is hit is one of the windows named.
LEMMA CostSpent ==
    ASSUME cost \subseteq UpdateCosts \cup {"withdrawn"}, NEW w, Spend(w)
    PROVE  cost' \subseteq UpdateCosts \cup {"withdrawn"}
  BY DEF Spend

\* UpdateStart keeps the invariant.
LEMMA UpdateStartPreserves ==
    ASSUME UInv, UpdateStart
    PROVE  UInv'
  <1>1. /\ pc = "idle"
        /\ upc = "ready"
        /\ upc' = "u_save"
        /\ result' = result
        /\ upd' = [n |-> clock + 1, mode |-> "execute", before |-> slot]
        /\ clock + 1 < MaxOps
        /\ UNCHANGED <<vars, tx, schema, saved, done, cost>>
    BY DEF UInv, UTypeOK, UpdateStart, Step, HasControl, journals, uhistory
  <1>2. IInv'
    BY <1>1, StutterIInv DEF UInv
  <1>3. UTypeOK'
    <2>1. upd' \in Upds
      BY <1>1, NewUpd, MaxOpsAssumption DEF UInv, UTypeOK, TypeOK, Modes, Ops, Trees
      <2>2. QED
        BY <2>1, <1>1, <1>2, UpdFields, MaxOpsAssumption
           DEF UInv, UTypeOK, IInv, TypeOK, Control, Numbers, Away, ExecuteSteps, UndoTxSteps,
               ResumeSteps, UpdateSteps, Modes, Results, Ops, Trees, NoTree
  <1>4. Control'
    BY <1>1, <1>2, UpdFields, MaxOpsAssumption
       DEF UInv, UTypeOK, IInv, TypeOK, Control, HasControl, NoJournal, StateFollowsStep,
           Numbers, SchemaFollowsJournal, Away, ExecuteSteps, UndoTxSteps, ResumeSteps, Ops,
           NoTree, NoUpd, vars
  <1>5. Numbers'
    BY <1>1, <1>2, UpdFields, MaxOpsAssumption
       DEF UInv, UTypeOK, IInv, TypeOK, Control, Numbers, NoJournal, StateFollowsStep,
           SchemaFollowsJournal, Away, ExecuteSteps, UndoTxSteps, ResumeSteps, Ops, NoTree,
           NoUpd, vars
  <1>6. StateFollowsStep'
    BY <1>1, <1>2, UpdFields, MaxOpsAssumption
       DEF UInv, UTypeOK, IInv, TypeOK, Control, StateFollowsStep, NoJournal, Numbers,
           SchemaFollowsJournal, Away, ExecuteSteps, UndoTxSteps, ResumeSteps, Ops, NoTree,
           NoUpd, vars
  <1>7. SchemaFollowsJournal'
    BY <1>1, <1>2, UpdFields, MaxOpsAssumption
       DEF UInv, UTypeOK, IInv, TypeOK, Control, SchemaFollowsJournal, NoJournal,
           StateFollowsStep, Numbers, Away, ExecuteSteps, UndoTxSteps, ResumeSteps, Ops,
           NoTree, NoUpd, vars
  <1>8. BeforeFollowsStep'
    BY <1>1, <1>2, UpdFields, MaxOpsAssumption
       DEF UInv, UTypeOK, IInv, TypeOK, Control, BeforeFollowsStep, NoJournal,
           StateFollowsStep, Numbers, SchemaFollowsJournal, Away, ExecuteSteps, UndoTxSteps,
           ResumeSteps, Ops, NoTree, NoUpd, vars
  <1>9. Compensated'
    BY <1>1, <1>2, UpdFields, MaxOpsAssumption
       DEF UInv, UTypeOK, IInv, TypeOK, Control, Compensated, NoJournal, StateFollowsStep,
           Numbers, SchemaFollowsJournal, Away, ExecuteSteps, UndoTxSteps, ResumeSteps, Ops,
           NoTree, NoUpd, vars
  <1>10. QED
    BY <1>2, <1>3, <1>4, <1>5, <1>6, <1>7, <1>8, <1>9 DEF UInv

\* UpdateDecline keeps the invariant.
LEMMA UpdateDeclinePreserves ==
    ASSUME UInv, UpdateDecline
    PROVE  UInv'
  <1>1. /\ pc = "idle"
        /\ upc = "ready"
        /\ upc' = "done"
        /\ result' = "declined"
        /\ UNCHANGED <<vars, tx, schema, saved, upd, done, cost>>
    BY DEF UInv, UTypeOK, UpdateDecline, Conclude, HasControl, journals, uhistory
  <1>2. IInv'
    BY <1>1, StutterIInv DEF UInv
  <1>3. UTypeOK'
    BY <1>1, <1>2, UpdFields, MaxOpsAssumption
       DEF UInv, UTypeOK, IInv, TypeOK, Control, Numbers, Away, ExecuteSteps, UndoTxSteps,
           ResumeSteps, UpdateSteps, Upds, Modes, Results, Ops, Trees, NoTree
  <1>4. Control'
    BY <1>1, <1>2, UpdFields, MaxOpsAssumption
       DEF UInv, UTypeOK, IInv, TypeOK, Control, HasControl, NoJournal, StateFollowsStep,
           Numbers, SchemaFollowsJournal, Away, ExecuteSteps, UndoTxSteps, ResumeSteps, Ops,
           NoTree, NoUpd, vars
  <1>5. Numbers'
    BY <1>1, <1>2, UpdFields, MaxOpsAssumption
       DEF UInv, UTypeOK, IInv, TypeOK, Control, Numbers, NoJournal, StateFollowsStep,
           SchemaFollowsJournal, Away, ExecuteSteps, UndoTxSteps, ResumeSteps, Ops, NoTree,
           NoUpd, vars
  <1>6. StateFollowsStep'
    BY <1>1, <1>2, UpdFields, MaxOpsAssumption
       DEF UInv, UTypeOK, IInv, TypeOK, Control, StateFollowsStep, NoJournal, Numbers,
           SchemaFollowsJournal, Away, ExecuteSteps, UndoTxSteps, ResumeSteps, Ops, NoTree,
           NoUpd, vars
  <1>7. SchemaFollowsJournal'
    BY <1>1, <1>2, UpdFields, MaxOpsAssumption
       DEF UInv, UTypeOK, IInv, TypeOK, Control, SchemaFollowsJournal, NoJournal,
           StateFollowsStep, Numbers, Away, ExecuteSteps, UndoTxSteps, ResumeSteps, Ops,
           NoTree, NoUpd, vars
  <1>8. BeforeFollowsStep'
    BY <1>1, <1>2, UpdFields, MaxOpsAssumption
       DEF UInv, UTypeOK, IInv, TypeOK, Control, BeforeFollowsStep, NoJournal,
           StateFollowsStep, Numbers, SchemaFollowsJournal, Away, ExecuteSteps, UndoTxSteps,
           ResumeSteps, Ops, NoTree, NoUpd, vars
  <1>9. Compensated'
    BY <1>1, <1>2, UpdFields, MaxOpsAssumption
       DEF UInv, UTypeOK, IInv, TypeOK, Control, Compensated, NoJournal, StateFollowsStep,
           Numbers, SchemaFollowsJournal, Away, ExecuteSteps, UndoTxSteps, ResumeSteps, Ops,
           NoTree, NoUpd, vars
  <1>10. QED
    BY <1>2, <1>3, <1>4, <1>5, <1>6, <1>7, <1>8, <1>9 DEF UInv

\* SaveSchema keeps the invariant.
LEMMA SaveSchemaPreserves ==
    ASSUME UInv, SaveSchema
    PROVE  UInv'
  <1>1. /\ pc = "idle"
        /\ upc = "u_save"
        /\ upc' = "u_begin"
        /\ result' = result
        /\ saved' \in [Ops -> SUBSET Ops]
        /\ saved'[upd.n] = schema
        /\ UNCHANGED <<vars, tx, schema, upd, done, cost>>
    BY DEF UInv, UTypeOK, SaveSchema, Step, HasControl, uhistory, Control, ExecuteSteps,
           UndoTxSteps
  <1>2. IInv'
    BY <1>1, StutterIInv DEF UInv
  <1>3. UTypeOK'
    BY <1>1, <1>2, UpdFields, MaxOpsAssumption
       DEF UInv, UTypeOK, IInv, TypeOK, Control, Numbers, Away, ExecuteSteps, UndoTxSteps,
           ResumeSteps, UpdateSteps, Upds, Modes, Results, Ops, Trees, NoTree
  <1>4. Control'
    BY <1>1, <1>2, UpdFields, MaxOpsAssumption
       DEF UInv, UTypeOK, IInv, TypeOK, Control, HasControl, NoJournal, StateFollowsStep,
           Numbers, SchemaFollowsJournal, Away, ExecuteSteps, UndoTxSteps, ResumeSteps, Ops,
           NoTree, NoUpd, vars
  <1>5. Numbers'
    BY <1>1, <1>2, UpdFields, MaxOpsAssumption
       DEF UInv, UTypeOK, IInv, TypeOK, Control, Numbers, NoJournal, StateFollowsStep,
           SchemaFollowsJournal, Away, ExecuteSteps, UndoTxSteps, ResumeSteps, Ops, NoTree,
           NoUpd, vars
  <1>6. StateFollowsStep'
    BY <1>1, <1>2, UpdFields, MaxOpsAssumption
       DEF UInv, UTypeOK, IInv, TypeOK, Control, StateFollowsStep, NoJournal, Numbers,
           SchemaFollowsJournal, Away, ExecuteSteps, UndoTxSteps, ResumeSteps, Ops, NoTree,
           NoUpd, vars
  <1>7. SchemaFollowsJournal'
    BY <1>1, <1>2, UpdFields, MaxOpsAssumption
       DEF UInv, UTypeOK, IInv, TypeOK, Control, SchemaFollowsJournal, NoJournal,
           StateFollowsStep, Numbers, Away, ExecuteSteps, UndoTxSteps, ResumeSteps, Ops,
           NoTree, NoUpd, vars
  <1>8. BeforeFollowsStep'
    BY <1>1, <1>2, UpdFields, MaxOpsAssumption
       DEF UInv, UTypeOK, IInv, TypeOK, Control, BeforeFollowsStep, NoJournal,
           StateFollowsStep, Numbers, SchemaFollowsJournal, Away, ExecuteSteps, UndoTxSteps,
           ResumeSteps, Ops, NoTree, NoUpd, vars
  <1>9. Compensated'
    BY <1>1, <1>2, UpdFields, MaxOpsAssumption
       DEF UInv, UTypeOK, IInv, TypeOK, Control, Compensated, NoJournal, StateFollowsStep,
           Numbers, SchemaFollowsJournal, Away, ExecuteSteps, UndoTxSteps, ResumeSteps, Ops,
           NoTree, NoUpd, vars
  <1>10. QED
    BY <1>2, <1>3, <1>4, <1>5, <1>6, <1>7, <1>8, <1>9 DEF UInv

\* BeginTransaction keeps the invariant.
LEMMA BeginTransactionPreserves ==
    ASSUME UInv, BeginTransaction
    PROVE  UInv'
  <1>1. /\ pc = "idle"
        /\ upc = "u_begin"
        /\ upc' = "u_publishing"
        /\ result' = result
        /\ tx'[upd.n].state = "prepared"
        /\ tx'[upd.n].snapshot = tx[upd.n].snapshot
        /\ \A m \in Ops : m # upd.n => tx'[m] = tx[m]
        /\ tx' \in [Ops -> Txs]
        /\ UNCHANGED <<vars, schema, saved, upd, done, cost>>
    BY StateWritten
       DEF UInv, UTypeOK, BeginTransaction, Step, HasControl, CanTransition, uhistory,
           Control, ExecuteSteps, UndoTxSteps, TxStates
  <1>2. IInv'
    BY <1>1, StutterIInv DEF UInv
  <1>3. UTypeOK'
    BY <1>1, <1>2, UpdFields, MaxOpsAssumption
       DEF UInv, UTypeOK, IInv, TypeOK, Control, Numbers, Away, ExecuteSteps, UndoTxSteps,
           ResumeSteps, UpdateSteps, Upds, Modes, Results, Ops, Trees, NoTree
  <1>4. Control'
    BY <1>1, <1>2, UpdFields, MaxOpsAssumption
       DEF UInv, UTypeOK, IInv, TypeOK, Control, HasControl, NoJournal, StateFollowsStep,
           Numbers, SchemaFollowsJournal, Away, ExecuteSteps, UndoTxSteps, ResumeSteps, Ops,
           NoTree, NoUpd, vars
  <1>5. Numbers'
    <2>1. upd.n \notin done /\ NoJournal
      BY <1>1, MaxOpsAssumption DEF UInv, Numbers, StateFollowsStep, TypeOK, UTypeOK
    <2>2. \A n \in Ops : n # upd.n => tx'[n].state = "none"
      BY <1>1, <2>1 DEF NoJournal
    <2>3. QED
      BY <1>1, <2>1, <2>2 DEF UInv, Numbers, vars
  <1>6. StateFollowsStep'
    <2>1. NoJournal
      BY <1>1 DEF UInv, StateFollowsStep
    <2>2. \A n \in Ops : n # upd.n => tx'[n].state = "none"
      BY <1>1, <2>1 DEF NoJournal
    <2>3. QED
      BY <1>1, <2>1, <2>2 DEF UInv, StateFollowsStep, UndoTxSteps
  <1>7. SchemaFollowsJournal'
    BY <1>1, <1>2, UpdFields, MaxOpsAssumption
       DEF UInv, UTypeOK, IInv, TypeOK, Control, SchemaFollowsJournal, NoJournal,
           StateFollowsStep, Numbers, Away, ExecuteSteps, UndoTxSteps, ResumeSteps, Ops,
           NoTree, NoUpd, vars
  <1>8. BeforeFollowsStep'
    BY <1>1, <1>2, UpdFields, MaxOpsAssumption
       DEF UInv, UTypeOK, IInv, TypeOK, Control, BeforeFollowsStep, NoJournal,
           StateFollowsStep, Numbers, SchemaFollowsJournal, Away, ExecuteSteps, UndoTxSteps,
           ResumeSteps, Ops, NoTree, NoUpd, vars
  <1>9. Compensated'
    BY <1>1, <1>2, UpdFields, MaxOpsAssumption
       DEF UInv, UTypeOK, IInv, TypeOK, Control, Compensated, NoJournal, StateFollowsStep,
           Numbers, SchemaFollowsJournal, Away, ExecuteSteps, UndoTxSteps, ResumeSteps, Ops,
           NoTree, NoUpd, vars
  <1>10. QED
    BY <1>2, <1>3, <1>4, <1>5, <1>6, <1>7, <1>8, <1>9 DEF UInv

\* MarkPublishing keeps the invariant.
LEMMA MarkPublishingPreserves ==
    ASSUME UInv, MarkPublishing
    PROVE  UInv'
  <1>1. /\ pc = "idle"
        /\ upc = "u_publishing"
        /\ upc' = "u_publish"
        /\ result' = result
        /\ tx'[upd.n].state = "publishing"
        /\ tx'[upd.n].snapshot = tx[upd.n].snapshot
        /\ \A m \in Ops : m # upd.n => tx'[m] = tx[m]
        /\ tx' \in [Ops -> Txs]
        /\ UNCHANGED <<vars, schema, saved, upd, done, cost>>
    BY StateWritten
       DEF UInv, UTypeOK, MarkPublishing, Step, HasControl, CanTransition, uhistory, Control,
           ExecuteSteps, UndoTxSteps, TxStates
  <1>2. IInv'
    BY <1>1, StutterIInv DEF UInv
  <1>3. UTypeOK'
    BY <1>1, <1>2, UpdFields, MaxOpsAssumption
       DEF UInv, UTypeOK, IInv, TypeOK, Control, Numbers, Away, ExecuteSteps, UndoTxSteps,
           ResumeSteps, UpdateSteps, Upds, Modes, Results, Ops, Trees, NoTree
  <1>4. Control'
    BY <1>1, <1>2, UpdFields, MaxOpsAssumption
       DEF UInv, UTypeOK, IInv, TypeOK, Control, HasControl, NoJournal, StateFollowsStep,
           Numbers, SchemaFollowsJournal, Away, ExecuteSteps, UndoTxSteps, ResumeSteps, Ops,
           NoTree, NoUpd, vars
  <1>5. Numbers'
    BY <1>1, <1>2, UpdFields, MaxOpsAssumption
       DEF UInv, UTypeOK, IInv, TypeOK, Control, Numbers, NoJournal, StateFollowsStep,
           SchemaFollowsJournal, Away, ExecuteSteps, UndoTxSteps, ResumeSteps, Ops, NoTree,
           NoUpd, vars
  <1>6. StateFollowsStep'
    BY <1>1, <1>2, UpdFields, MaxOpsAssumption
       DEF UInv, UTypeOK, IInv, TypeOK, Control, StateFollowsStep, NoJournal, Numbers,
           SchemaFollowsJournal, Away, ExecuteSteps, UndoTxSteps, ResumeSteps, Ops, NoTree,
           NoUpd, vars
  <1>7. SchemaFollowsJournal'
    BY <1>1, <1>2, UpdFields, MaxOpsAssumption
       DEF UInv, UTypeOK, IInv, TypeOK, Control, SchemaFollowsJournal, NoJournal,
           StateFollowsStep, Numbers, Away, ExecuteSteps, UndoTxSteps, ResumeSteps, Ops,
           NoTree, NoUpd, vars
  <1>8. BeforeFollowsStep'
    BY <1>1, <1>2, UpdFields, MaxOpsAssumption
       DEF UInv, UTypeOK, IInv, TypeOK, Control, BeforeFollowsStep, NoJournal,
           StateFollowsStep, Numbers, SchemaFollowsJournal, Away, ExecuteSteps, UndoTxSteps,
           ResumeSteps, Ops, NoTree, NoUpd, vars
  <1>9. Compensated'
    BY <1>1, <1>2, UpdFields, MaxOpsAssumption
       DEF UInv, UTypeOK, IInv, TypeOK, Control, Compensated, NoJournal, StateFollowsStep,
           Numbers, SchemaFollowsJournal, Away, ExecuteSteps, UndoTxSteps, ResumeSteps, Ops,
           NoTree, NoUpd, vars
  <1>10. QED
    BY <1>2, <1>3, <1>4, <1>5, <1>6, <1>7, <1>8, <1>9 DEF UInv

\* CallPublish keeps the invariant.
LEMMA CallPublishPreserves ==
    ASSUME UInv, CallPublish
    PROVE  UInv'
  <1>1. /\ pc = "idle"
        /\ upc = "u_publish"
        /\ upc' = "u_wait"
        /\ clock' = clock + 1
        /\ call'.op = "publish" /\ call'.id = clock + 1 /\ call'.before = slot
        /\ pc' = "compile"
        /\ UNCHANGED <<slot, snap, outcome>> \/ outcome' = "none"
        /\ UNCHANGED <<slot, snap, tx, schema, saved, upd, result, done, cost>>
    BY DEF UInv, UTypeOK, CallPublish, PublishStart, dirs, journals, uhistory, NoCall
  <1>2. IInv'
    BY EnvironmentIInv DEF UInv, CallPublish, Environment
  <1>3. UTypeOK'
    BY <1>1, <1>2, UpdFields, MaxOpsAssumption
       DEF UInv, UTypeOK, IInv, TypeOK, Control, Numbers, Away, ExecuteSteps, UndoTxSteps,
           ResumeSteps, UpdateSteps, Upds, Modes, Results, Ops, Trees, NoTree
  <1>4. Control'
    BY <1>1, <1>2, UpdFields, MaxOpsAssumption
       DEF UInv, UTypeOK, IInv, TypeOK, Control, HasControl, NoJournal, StateFollowsStep,
           Numbers, SchemaFollowsJournal, Away, ExecuteSteps, UndoTxSteps, ResumeSteps, Ops,
           NoTree, NoUpd, vars
  <1>5. Numbers'
    BY <1>1, <1>2, UpdFields, MaxOpsAssumption
       DEF UInv, UTypeOK, IInv, TypeOK, Control, Numbers, NoJournal, StateFollowsStep,
           SchemaFollowsJournal, Away, ExecuteSteps, UndoTxSteps, ResumeSteps, Ops, NoTree,
           NoUpd, vars
  <1>6. StateFollowsStep'
    BY <1>1, <1>2, UpdFields, MaxOpsAssumption
       DEF UInv, UTypeOK, IInv, TypeOK, Control, StateFollowsStep, NoJournal, Numbers,
           SchemaFollowsJournal, Away, ExecuteSteps, UndoTxSteps, ResumeSteps, Ops, NoTree,
           NoUpd, vars
  <1>7. SchemaFollowsJournal'
    BY <1>1, <1>2, UpdFields, MaxOpsAssumption
       DEF UInv, UTypeOK, IInv, TypeOK, Control, SchemaFollowsJournal, NoJournal,
           StateFollowsStep, Numbers, Away, ExecuteSteps, UndoTxSteps, ResumeSteps, Ops,
           NoTree, NoUpd, vars
  <1>8. BeforeFollowsStep'
    BY <1>1, <1>2, UpdFields, MaxOpsAssumption
       DEF UInv, UTypeOK, IInv, TypeOK, Control, BeforeFollowsStep, NoJournal,
           StateFollowsStep, Numbers, SchemaFollowsJournal, Away, ExecuteSteps, UndoTxSteps,
           ResumeSteps, Ops, NoTree, NoUpd, vars
  <1>9. Compensated'
    BY <1>1, <1>2, UpdFields, MaxOpsAssumption
       DEF UInv, UTypeOK, IInv, TypeOK, Control, Compensated, NoJournal, StateFollowsStep,
           Numbers, SchemaFollowsJournal, Away, ExecuteSteps, UndoTxSteps, ResumeSteps, Ops,
           NoTree, NoUpd, vars
  <1>10. QED
    BY <1>2, <1>3, <1>4, <1>5, <1>6, <1>7, <1>8, <1>9 DEF UInv

\* MarkPublished keeps the invariant.
LEMMA MarkPublishedPreserves ==
    ASSUME UInv, MarkPublished
    PROVE  UInv'
  <1>0. /\ upd.n \in Ops /\ tx \in [Ops -> Txs]
        /\ pointer \in Trees /\ index \in Entries
    BY DEF UInv, Control, ExecuteSteps, MarkPublished, Step, IInv, TypeOK, UTypeOK
  <1>1. /\ pc = "idle"
        /\ upc = "u_wait"
        /\ upc' = "u_schema"
        /\ result' = result
        /\ outcome = "published"
        /\ tx'[upd.n].state = "skill_published"
        /\ tx'[upd.n].snapshot = (call.before # NoTree)
        /\ \A m \in Ops : m # upd.n => tx'[m] = tx[m]
        /\ tx' \in [Ops -> Txs]
        /\ UNCHANGED <<vars, schema, saved, upd, done, cost>>
    BY <1>0, PublicationWritten DEF UInv, UTypeOK, MarkPublished, Step, HasControl, uhistory
  <1>2. IInv'
    BY <1>1, StutterIInv DEF UInv
  <1>3. UTypeOK'
    BY <1>1, <1>2, UpdFields, MaxOpsAssumption
       DEF UInv, UTypeOK, IInv, TypeOK, Control, Numbers, Away, ExecuteSteps, UndoTxSteps,
           ResumeSteps, UpdateSteps, Upds, Modes, Results, Ops, Trees, NoTree
  <1>4. Control'
    BY <1>1, <1>2, UpdFields, MaxOpsAssumption
       DEF UInv, UTypeOK, IInv, TypeOK, Control, HasControl, NoJournal, StateFollowsStep,
           Numbers, SchemaFollowsJournal, Away, ExecuteSteps, UndoTxSteps, ResumeSteps, Ops,
           NoTree, NoUpd, vars
  <1>5. Numbers'
    <2>1. upd.n \notin done /\ upd.n = clock
      BY <1>1 DEF UInv, Numbers, StateFollowsStep, Control, ExecuteSteps
    <2>2. QED
      BY <1>1, <2>1, MaxOpsAssumption DEF UInv, IInv, TypeOK, Numbers, vars
  <1>6. StateFollowsStep'
    BY <1>1, <1>2, UpdFields, MaxOpsAssumption
       DEF UInv, UTypeOK, IInv, TypeOK, Control, StateFollowsStep, NoJournal, Numbers,
           SchemaFollowsJournal, Away, ExecuteSteps, UndoTxSteps, ResumeSteps, Ops, NoTree,
           NoUpd, vars
  <1>7. SchemaFollowsJournal'
    BY <1>1, <1>2, UpdFields, MaxOpsAssumption
       DEF UInv, UTypeOK, IInv, TypeOK, Control, SchemaFollowsJournal, NoJournal,
           StateFollowsStep, Numbers, Away, ExecuteSteps, UndoTxSteps, ResumeSteps, Ops,
           NoTree, NoUpd, vars
  <1>8. BeforeFollowsStep'
    BY <1>1, <1>2, UpdFields, MaxOpsAssumption
       DEF UInv, UTypeOK, IInv, TypeOK, Control, BeforeFollowsStep, NoJournal,
           StateFollowsStep, Numbers, SchemaFollowsJournal, Away, ExecuteSteps, UndoTxSteps,
           ResumeSteps, Ops, NoTree, NoUpd, vars
  <1>9. Compensated'
    BY <1>1, <1>2, UpdFields, MaxOpsAssumption
       DEF UInv, UTypeOK, IInv, TypeOK, Control, Compensated, NoJournal, StateFollowsStep,
           Numbers, SchemaFollowsJournal, Away, ExecuteSteps, UndoTxSteps, ResumeSteps, Ops,
           NoTree, NoUpd, vars
  <1>10. QED
    BY <1>2, <1>3, <1>4, <1>5, <1>6, <1>7, <1>8, <1>9 DEF UInv

\* PublishRaised keeps the invariant.
LEMMA PublishRaisedPreserves ==
    ASSUME UInv, PublishRaised
    PROVE  UInv'
  <1>1. /\ pc = "idle"
        /\ upc = "u_wait"
        /\ upc' = "u_drop"
        /\ result' = result
        /\ UNCHANGED <<vars, tx, schema, saved, upd, done, cost>>
    BY DEF UInv, UTypeOK, PublishRaised, Step, HasControl, journals, uhistory
  <1>2. IInv'
    BY <1>1, StutterIInv DEF UInv
  <1>3. UTypeOK'
    BY <1>1, <1>2, UpdFields, MaxOpsAssumption
       DEF UInv, UTypeOK, IInv, TypeOK, Control, Numbers, Away, ExecuteSteps, UndoTxSteps,
           ResumeSteps, UpdateSteps, Upds, Modes, Results, Ops, Trees, NoTree
  <1>4. Control'
    BY <1>1, <1>2, UpdFields, MaxOpsAssumption
       DEF UInv, UTypeOK, IInv, TypeOK, Control, HasControl, NoJournal, StateFollowsStep,
           Numbers, SchemaFollowsJournal, Away, ExecuteSteps, UndoTxSteps, ResumeSteps, Ops,
           NoTree, NoUpd, vars
  <1>5. Numbers'
    BY <1>1, <1>2, UpdFields, MaxOpsAssumption
       DEF UInv, UTypeOK, IInv, TypeOK, Control, Numbers, NoJournal, StateFollowsStep,
           SchemaFollowsJournal, Away, ExecuteSteps, UndoTxSteps, ResumeSteps, Ops, NoTree,
           NoUpd, vars
  <1>6. StateFollowsStep'
    BY <1>1, <1>2, UpdFields, MaxOpsAssumption
       DEF UInv, UTypeOK, IInv, TypeOK, Control, StateFollowsStep, NoJournal, Numbers,
           SchemaFollowsJournal, Away, ExecuteSteps, UndoTxSteps, ResumeSteps, Ops, NoTree,
           NoUpd, vars
  <1>7. SchemaFollowsJournal'
    BY <1>1, <1>2, UpdFields, MaxOpsAssumption
       DEF UInv, UTypeOK, IInv, TypeOK, Control, SchemaFollowsJournal, NoJournal,
           StateFollowsStep, Numbers, Away, ExecuteSteps, UndoTxSteps, ResumeSteps, Ops,
           NoTree, NoUpd, vars
  <1>8. BeforeFollowsStep'
    BY <1>1, <1>2, UpdFields, MaxOpsAssumption
       DEF UInv, UTypeOK, IInv, TypeOK, Control, BeforeFollowsStep, NoJournal,
           StateFollowsStep, Numbers, SchemaFollowsJournal, Away, ExecuteSteps, UndoTxSteps,
           ResumeSteps, Ops, NoTree, NoUpd, vars
  <1>9. Compensated'
    BY <1>1, <1>2, UpdFields, MaxOpsAssumption
       DEF UInv, UTypeOK, IInv, TypeOK, Control, Compensated, NoJournal, StateFollowsStep,
           Numbers, SchemaFollowsJournal, Away, ExecuteSteps, UndoTxSteps, ResumeSteps, Ops,
           NoTree, NoUpd, vars
  <1>10. QED
    BY <1>2, <1>3, <1>4, <1>5, <1>6, <1>7, <1>8, <1>9 DEF UInv

\* DropTransaction keeps the invariant.
LEMMA DropTransactionPreserves ==
    ASSUME UInv, DropTransaction
    PROVE  UInv'
  <1>1. /\ pc = "idle"
        /\ upc = "u_drop"
        /\ upc' = "done"
        /\ result' = "failed"
        /\ tx'[upd.n].state = "none"
        /\ tx'[upd.n].snapshot = tx[upd.n].snapshot
        /\ \A m \in Ops : m # upd.n => tx'[m] = tx[m]
        /\ tx' \in [Ops -> Txs]
        /\ UNCHANGED <<vars, schema, saved, upd, done, cost>>
    BY StateWritten
       DEF UInv, UTypeOK, DropTransaction, Conclude, HasControl, uhistory, Control,
           ExecuteSteps, UndoTxSteps, TxStates
  <1>2. IInv'
    BY <1>1, StutterIInv DEF UInv
  <1>3. UTypeOK'
    BY <1>1, <1>2, UpdFields, MaxOpsAssumption
       DEF UInv, UTypeOK, IInv, TypeOK, Control, Numbers, Away, ExecuteSteps, UndoTxSteps,
           ResumeSteps, UpdateSteps, Upds, Modes, Results, Ops, Trees, NoTree
  <1>4. Control'
    BY <1>1, <1>2, UpdFields, MaxOpsAssumption
       DEF UInv, UTypeOK, IInv, TypeOK, Control, HasControl, NoJournal, StateFollowsStep,
           Numbers, SchemaFollowsJournal, Away, ExecuteSteps, UndoTxSteps, ResumeSteps, Ops,
           NoTree, NoUpd, vars
  <1>5. Numbers'
    BY <1>1, <1>2, UpdFields, MaxOpsAssumption
       DEF UInv, UTypeOK, IInv, TypeOK, Control, Numbers, NoJournal, StateFollowsStep,
           SchemaFollowsJournal, Away, ExecuteSteps, UndoTxSteps, ResumeSteps, Ops, NoTree,
           NoUpd, vars
  <1>6. StateFollowsStep'
    BY <1>1, <1>2, UpdFields, MaxOpsAssumption
       DEF UInv, UTypeOK, IInv, TypeOK, Control, StateFollowsStep, NoJournal, Numbers,
           SchemaFollowsJournal, Away, ExecuteSteps, UndoTxSteps, ResumeSteps, Ops, NoTree,
           NoUpd, vars
  <1>7. SchemaFollowsJournal'
    BY <1>1, <1>2, UpdFields, MaxOpsAssumption
       DEF UInv, UTypeOK, IInv, TypeOK, Control, SchemaFollowsJournal, NoJournal,
           StateFollowsStep, Numbers, Away, ExecuteSteps, UndoTxSteps, ResumeSteps, Ops,
           NoTree, NoUpd, vars
  <1>8. BeforeFollowsStep'
    BY <1>1, <1>2, UpdFields, MaxOpsAssumption
       DEF UInv, UTypeOK, IInv, TypeOK, Control, BeforeFollowsStep, NoJournal,
           StateFollowsStep, Numbers, SchemaFollowsJournal, Away, ExecuteSteps, UndoTxSteps,
           ResumeSteps, Ops, NoTree, NoUpd, vars
  <1>9. Compensated'
    BY <1>1, <1>2, UpdFields, MaxOpsAssumption
       DEF UInv, UTypeOK, IInv, TypeOK, Control, Compensated, NoJournal, StateFollowsStep,
           Numbers, SchemaFollowsJournal, Away, ExecuteSteps, UndoTxSteps, ResumeSteps, Ops,
           NoTree, NoUpd, vars
  <1>10. QED
    BY <1>2, <1>3, <1>4, <1>5, <1>6, <1>7, <1>8, <1>9 DEF UInv

\* SaveUnits keeps the invariant.
LEMMA SaveUnitsPreserves ==
    ASSUME UInv, SaveUnits
    PROVE  UInv'
  <1>1. /\ pc = "idle"
        /\ upc = "u_schema"
        /\ upc' = "u_mark_schema"
        /\ result' = result
        /\ schema' = schema \cup {upd.n}
        /\ UNCHANGED <<vars, tx, saved, upd, done, cost>>
    BY DEF UInv, UTypeOK, SaveUnits, Step, HasControl, uhistory
  <1>2. IInv'
    BY <1>1, StutterIInv DEF UInv
  <1>3. UTypeOK'
    BY <1>1, <1>2, UpdFields, MaxOpsAssumption
       DEF UInv, UTypeOK, IInv, TypeOK, Control, Numbers, Away, ExecuteSteps, UndoTxSteps,
           ResumeSteps, UpdateSteps, Upds, Modes, Results, Ops, Trees, NoTree
  <1>4. Control'
    BY <1>1, <1>2, UpdFields, MaxOpsAssumption
       DEF UInv, UTypeOK, IInv, TypeOK, Control, HasControl, NoJournal, StateFollowsStep,
           Numbers, SchemaFollowsJournal, Away, ExecuteSteps, UndoTxSteps, ResumeSteps, Ops,
           NoTree, NoUpd, vars
  <1>5. Numbers'
    BY <1>1, <1>2, UpdFields, MaxOpsAssumption
       DEF UInv, UTypeOK, IInv, TypeOK, Control, Numbers, NoJournal, StateFollowsStep,
           SchemaFollowsJournal, Away, ExecuteSteps, UndoTxSteps, ResumeSteps, Ops, NoTree,
           NoUpd, vars
  <1>6. StateFollowsStep'
    BY <1>1, <1>2, UpdFields, MaxOpsAssumption
       DEF UInv, UTypeOK, IInv, TypeOK, Control, StateFollowsStep, NoJournal, Numbers,
           SchemaFollowsJournal, Away, ExecuteSteps, UndoTxSteps, ResumeSteps, Ops, NoTree,
           NoUpd, vars
  <1>7. SchemaFollowsJournal'
    BY <1>1, <1>2, UpdFields, MaxOpsAssumption
       DEF UInv, UTypeOK, IInv, TypeOK, Control, SchemaFollowsJournal, NoJournal,
           StateFollowsStep, Numbers, Away, ExecuteSteps, UndoTxSteps, ResumeSteps, Ops,
           NoTree, NoUpd, vars
  <1>8. BeforeFollowsStep'
    BY <1>1, <1>2, UpdFields, MaxOpsAssumption
       DEF UInv, UTypeOK, IInv, TypeOK, Control, BeforeFollowsStep, NoJournal,
           StateFollowsStep, Numbers, SchemaFollowsJournal, Away, ExecuteSteps, UndoTxSteps,
           ResumeSteps, Ops, NoTree, NoUpd, vars
  <1>9. Compensated'
    BY <1>1, <1>2, UpdFields, MaxOpsAssumption
       DEF UInv, UTypeOK, IInv, TypeOK, Control, Compensated, NoJournal, StateFollowsStep,
           Numbers, SchemaFollowsJournal, Away, ExecuteSteps, UndoTxSteps, ResumeSteps, Ops,
           NoTree, NoUpd, vars
  <1>10. QED
    BY <1>2, <1>3, <1>4, <1>5, <1>6, <1>7, <1>8, <1>9 DEF UInv

\* MarkSchema keeps the invariant.
LEMMA MarkSchemaPreserves ==
    ASSUME UInv, MarkSchema
    PROVE  UInv'
  <1>1. /\ pc = "idle"
        /\ upc = "u_mark_schema"
        /\ upc' = "u_commit"
        /\ result' = result
        /\ tx'[upd.n].state = "schema_committed"
        /\ tx'[upd.n].snapshot = tx[upd.n].snapshot
        /\ \A m \in Ops : m # upd.n => tx'[m] = tx[m]
        /\ tx' \in [Ops -> Txs]
        /\ UNCHANGED <<vars, schema, saved, upd, done, cost>>
    BY DEF UInv, UTypeOK, MarkSchema, Step, HasControl, uhistory, Control, ExecuteSteps,
           UndoTxSteps, TxStates, Txs
  <1>2. IInv'
    BY <1>1, StutterIInv DEF UInv
  <1>3. UTypeOK'
    BY <1>1, <1>2, UpdFields, MaxOpsAssumption
       DEF UInv, UTypeOK, IInv, TypeOK, Control, Numbers, Away, ExecuteSteps, UndoTxSteps,
           ResumeSteps, UpdateSteps, Upds, Modes, Results, Ops, Trees, NoTree
  <1>4. Control'
    BY <1>1, <1>2, UpdFields, MaxOpsAssumption
       DEF UInv, UTypeOK, IInv, TypeOK, Control, HasControl, NoJournal, StateFollowsStep,
           Numbers, SchemaFollowsJournal, Away, ExecuteSteps, UndoTxSteps, ResumeSteps, Ops,
           NoTree, NoUpd, vars
  <1>5. Numbers'
    BY <1>1, <1>2, UpdFields, MaxOpsAssumption
       DEF UInv, UTypeOK, IInv, TypeOK, Control, Numbers, NoJournal, StateFollowsStep,
           SchemaFollowsJournal, Away, ExecuteSteps, UndoTxSteps, ResumeSteps, Ops, NoTree,
           NoUpd, vars
  <1>6. StateFollowsStep'
    BY <1>1, <1>2, UpdFields, MaxOpsAssumption
       DEF UInv, UTypeOK, IInv, TypeOK, Control, StateFollowsStep, NoJournal, Numbers,
           SchemaFollowsJournal, Away, ExecuteSteps, UndoTxSteps, ResumeSteps, Ops, NoTree,
           NoUpd, vars
  <1>7. SchemaFollowsJournal'
    BY <1>1, <1>2, UpdFields, MaxOpsAssumption
       DEF UInv, UTypeOK, IInv, TypeOK, Control, SchemaFollowsJournal, NoJournal,
           StateFollowsStep, Numbers, Away, ExecuteSteps, UndoTxSteps, ResumeSteps, Ops,
           NoTree, NoUpd, vars
  <1>8. BeforeFollowsStep'
    BY <1>1, <1>2, UpdFields, MaxOpsAssumption
       DEF UInv, UTypeOK, IInv, TypeOK, Control, BeforeFollowsStep, NoJournal,
           StateFollowsStep, Numbers, SchemaFollowsJournal, Away, ExecuteSteps, UndoTxSteps,
           ResumeSteps, Ops, NoTree, NoUpd, vars
  <1>9. Compensated'
    BY <1>1, <1>2, UpdFields, MaxOpsAssumption
       DEF UInv, UTypeOK, IInv, TypeOK, Control, Compensated, NoJournal, StateFollowsStep,
           Numbers, SchemaFollowsJournal, Away, ExecuteSteps, UndoTxSteps, ResumeSteps, Ops,
           NoTree, NoUpd, vars
  <1>10. QED
    BY <1>2, <1>3, <1>4, <1>5, <1>6, <1>7, <1>8, <1>9 DEF UInv

\* MarkCommitted keeps the invariant.
LEMMA MarkCommittedPreserves ==
    ASSUME UInv, MarkCommitted
    PROVE  UInv'
  <1>1. /\ pc = "idle"
        /\ upc = "u_commit"
        /\ upc' = "u_remove"
        /\ result' = result
        /\ tx'[upd.n].state = "committed"
        /\ tx'[upd.n].snapshot = tx[upd.n].snapshot
        /\ \A m \in Ops : m # upd.n => tx'[m] = tx[m]
        /\ tx' \in [Ops -> Txs]
        /\ UNCHANGED <<vars, schema, saved, upd, done, cost>>
    BY StateWritten
       DEF UInv, UTypeOK, MarkCommitted, Step, HasControl, CanTransition, uhistory, Control,
           ExecuteSteps, UndoTxSteps, TxStates
  <1>2. IInv'
    BY <1>1, StutterIInv DEF UInv
  <1>3. UTypeOK'
    BY <1>1, <1>2, UpdFields, MaxOpsAssumption
       DEF UInv, UTypeOK, IInv, TypeOK, Control, Numbers, Away, ExecuteSteps, UndoTxSteps,
           ResumeSteps, UpdateSteps, Upds, Modes, Results, Ops, Trees, NoTree
  <1>4. Control'
    BY <1>1, <1>2, UpdFields, MaxOpsAssumption
       DEF UInv, UTypeOK, IInv, TypeOK, Control, HasControl, NoJournal, StateFollowsStep,
           Numbers, SchemaFollowsJournal, Away, ExecuteSteps, UndoTxSteps, ResumeSteps, Ops,
           NoTree, NoUpd, vars
  <1>5. Numbers'
    BY <1>1, <1>2, UpdFields, MaxOpsAssumption
       DEF UInv, UTypeOK, IInv, TypeOK, Control, Numbers, NoJournal, StateFollowsStep,
           SchemaFollowsJournal, Away, ExecuteSteps, UndoTxSteps, ResumeSteps, Ops, NoTree,
           NoUpd, vars
  <1>6. StateFollowsStep'
    BY <1>1, <1>2, UpdFields, MaxOpsAssumption
       DEF UInv, UTypeOK, IInv, TypeOK, Control, StateFollowsStep, NoJournal, Numbers,
           SchemaFollowsJournal, Away, ExecuteSteps, UndoTxSteps, ResumeSteps, Ops, NoTree,
           NoUpd, vars
  <1>7. SchemaFollowsJournal'
    BY <1>1, <1>2, UpdFields, MaxOpsAssumption
       DEF UInv, UTypeOK, IInv, TypeOK, Control, SchemaFollowsJournal, NoJournal,
           StateFollowsStep, Numbers, Away, ExecuteSteps, UndoTxSteps, ResumeSteps, Ops,
           NoTree, NoUpd, vars
  <1>8. BeforeFollowsStep'
    BY <1>1, <1>2, UpdFields, MaxOpsAssumption
       DEF UInv, UTypeOK, IInv, TypeOK, Control, BeforeFollowsStep, NoJournal,
           StateFollowsStep, Numbers, SchemaFollowsJournal, Away, ExecuteSteps, UndoTxSteps,
           ResumeSteps, Ops, NoTree, NoUpd, vars
  <1>9. Compensated'
    BY <1>1, <1>2, UpdFields, MaxOpsAssumption
       DEF UInv, UTypeOK, IInv, TypeOK, Control, Compensated, NoJournal, StateFollowsStep,
           Numbers, SchemaFollowsJournal, Away, ExecuteSteps, UndoTxSteps, ResumeSteps, Ops,
           NoTree, NoUpd, vars
  <1>10. QED
    BY <1>2, <1>3, <1>4, <1>5, <1>6, <1>7, <1>8, <1>9 DEF UInv

\* RemoveTransaction keeps the invariant.
LEMMA RemoveTransactionPreserves ==
    ASSUME UInv, RemoveTransaction
    PROVE  UInv'
  <1>1. /\ pc = "idle"
        /\ upc = "u_remove"
        /\ upc' = "done"
        /\ result' = "updated"
        /\ tx'[upd.n].state = "none"
        /\ \A m \in Ops : m # upd.n => tx'[m] = tx[m]
        /\ tx' \in [Ops -> Txs]
        /\ done' = done \cup {upd.n}
        /\ UNCHANGED <<vars, schema, saved, upd, cost>>
    BY JournalRemoved
       DEF UInv, UTypeOK, RemoveTransaction, Conclude, HasControl, Control, ExecuteSteps,
           UndoTxSteps
  <1>2. IInv'
    BY <1>1, StutterIInv DEF UInv
  <1>3. UTypeOK'
    BY <1>1, <1>2, UpdFields, MaxOpsAssumption
       DEF UInv, UTypeOK, IInv, TypeOK, Control, Numbers, Away, ExecuteSteps, UndoTxSteps,
           ResumeSteps, UpdateSteps, Upds, Modes, Results, Ops, Trees, NoTree
  <1>4. Control'
    BY <1>1, <1>2, UpdFields, MaxOpsAssumption
       DEF UInv, UTypeOK, IInv, TypeOK, Control, HasControl, NoJournal, StateFollowsStep,
           Numbers, SchemaFollowsJournal, Away, ExecuteSteps, UndoTxSteps, ResumeSteps, Ops,
           NoTree, NoUpd, vars
  <1>5. Numbers'
    BY <1>1, <1>2, UpdFields, MaxOpsAssumption
       DEF UInv, UTypeOK, IInv, TypeOK, Control, Numbers, NoJournal, StateFollowsStep,
           SchemaFollowsJournal, Away, ExecuteSteps, UndoTxSteps, ResumeSteps, Ops, NoTree,
           NoUpd, vars
  <1>6. StateFollowsStep'
    BY <1>1, <1>2, UpdFields, MaxOpsAssumption
       DEF UInv, UTypeOK, IInv, TypeOK, Control, StateFollowsStep, NoJournal, Numbers,
           SchemaFollowsJournal, Away, ExecuteSteps, UndoTxSteps, ResumeSteps, Ops, NoTree,
           NoUpd, vars
  <1>7. SchemaFollowsJournal'
    BY <1>1, <1>2, UpdFields, MaxOpsAssumption
       DEF UInv, UTypeOK, IInv, TypeOK, Control, SchemaFollowsJournal, NoJournal,
           StateFollowsStep, Numbers, Away, ExecuteSteps, UndoTxSteps, ResumeSteps, Ops,
           NoTree, NoUpd, vars
  <1>8. BeforeFollowsStep'
    BY <1>1, <1>2, UpdFields, MaxOpsAssumption
       DEF UInv, UTypeOK, IInv, TypeOK, Control, BeforeFollowsStep, NoJournal,
           StateFollowsStep, Numbers, SchemaFollowsJournal, Away, ExecuteSteps, UndoTxSteps,
           ResumeSteps, Ops, NoTree, NoUpd, vars
  <1>9. Compensated'
    BY <1>1, <1>2, UpdFields, MaxOpsAssumption
       DEF UInv, UTypeOK, IInv, TypeOK, Control, Compensated, NoJournal, StateFollowsStep,
           Numbers, SchemaFollowsJournal, Away, ExecuteSteps, UndoTxSteps, ResumeSteps, Ops,
           NoTree, NoUpd, vars
  <1>10. QED
    BY <1>2, <1>3, <1>4, <1>5, <1>6, <1>7, <1>8, <1>9 DEF UInv

\* RestoreSchema keeps the invariant.
LEMMA RestoreSchemaPreserves ==
    ASSUME UInv, RestoreSchema
    PROVE  UInv'
  <1>1. /\ pc = "idle"
        /\ upc = "b_schema"
        /\ upc' = "b_slot"
        /\ result' = result
        /\ schema' = saved[upd.n]
        /\ UNCHANGED <<vars, tx, saved, upd, done, cost>>
    BY DEF UInv, UTypeOK, RestoreSchema, Step, HasControl, uhistory
  <1>2. IInv'
    BY <1>1, StutterIInv DEF UInv
  <1>3. UTypeOK'
    BY <1>1, <1>2, UpdFields, MaxOpsAssumption
       DEF UInv, UTypeOK, IInv, TypeOK, Control, Numbers, Away, ExecuteSteps, UndoTxSteps,
           ResumeSteps, UpdateSteps, Upds, Modes, Results, Ops, Trees, NoTree
  <1>4. Control'
    BY <1>1, <1>2, UpdFields, MaxOpsAssumption
       DEF UInv, UTypeOK, IInv, TypeOK, Control, HasControl, NoJournal, StateFollowsStep,
           Numbers, SchemaFollowsJournal, Away, ExecuteSteps, UndoTxSteps, ResumeSteps, Ops,
           NoTree, NoUpd, vars
  <1>5. Numbers'
    BY <1>1, <1>2, UpdFields, MaxOpsAssumption
       DEF UInv, UTypeOK, IInv, TypeOK, Control, Numbers, NoJournal, StateFollowsStep,
           SchemaFollowsJournal, Away, ExecuteSteps, UndoTxSteps, ResumeSteps, Ops, NoTree,
           NoUpd, vars
  <1>6. StateFollowsStep'
    BY <1>1, <1>2, UpdFields, MaxOpsAssumption
       DEF UInv, UTypeOK, IInv, TypeOK, Control, StateFollowsStep, NoJournal, Numbers,
           SchemaFollowsJournal, Away, ExecuteSteps, UndoTxSteps, ResumeSteps, Ops, NoTree,
           NoUpd, vars
  <1>7. SchemaFollowsJournal'
    BY <1>1, <1>2, UpdFields, MaxOpsAssumption
       DEF UInv, UTypeOK, IInv, TypeOK, Control, SchemaFollowsJournal, NoJournal,
           StateFollowsStep, Numbers, Away, ExecuteSteps, UndoTxSteps, ResumeSteps, Ops,
           NoTree, NoUpd, vars
  <1>8. BeforeFollowsStep'
    BY <1>1, <1>2, UpdFields, MaxOpsAssumption
       DEF UInv, UTypeOK, IInv, TypeOK, Control, BeforeFollowsStep, NoJournal,
           StateFollowsStep, Numbers, SchemaFollowsJournal, Away, ExecuteSteps, UndoTxSteps,
           ResumeSteps, Ops, NoTree, NoUpd, vars
  <1>9. Compensated'
    BY <1>1, <1>2, UpdFields, MaxOpsAssumption
       DEF UInv, UTypeOK, IInv, TypeOK, Control, Compensated, NoJournal, StateFollowsStep,
           Numbers, SchemaFollowsJournal, Away, ExecuteSteps, UndoTxSteps, ResumeSteps, Ops,
           NoTree, NoUpd, vars
  <1>10. QED
    BY <1>2, <1>3, <1>4, <1>5, <1>6, <1>7, <1>8, <1>9 DEF UInv

\* NothingToRollBack keeps the invariant.
LEMMA NothingToRollBackPreserves ==
    ASSUME UInv, NothingToRollBack
    PROVE  UInv'
  <1>1. /\ pc = "idle"
        /\ upc = "b_slot"
        /\ upc' = "b_block"
        /\ result' = result
        /\ UNCHANGED <<vars, tx, schema, saved, upd, done, cost>>
    BY DEF UInv, UTypeOK, NothingToRollBack, Step, HasControl, journals, uhistory
  <1>2. IInv'
    BY <1>1, StutterIInv DEF UInv
  <1>3. UTypeOK'
    BY <1>1, <1>2, UpdFields, MaxOpsAssumption
       DEF UInv, UTypeOK, IInv, TypeOK, Control, Numbers, Away, ExecuteSteps, UndoTxSteps,
           ResumeSteps, UpdateSteps, Upds, Modes, Results, Ops, Trees, NoTree
  <1>4. Control'
    BY <1>1, <1>2, UpdFields, MaxOpsAssumption
       DEF UInv, UTypeOK, IInv, TypeOK, Control, HasControl, NoJournal, StateFollowsStep,
           Numbers, SchemaFollowsJournal, Away, ExecuteSteps, UndoTxSteps, ResumeSteps, Ops,
           NoTree, NoUpd, vars
  <1>5. Numbers'
    BY <1>1, <1>2, UpdFields, MaxOpsAssumption
       DEF UInv, UTypeOK, IInv, TypeOK, Control, Numbers, NoJournal, StateFollowsStep,
           SchemaFollowsJournal, Away, ExecuteSteps, UndoTxSteps, ResumeSteps, Ops, NoTree,
           NoUpd, vars
  <1>6. StateFollowsStep'
    BY <1>1, <1>2, UpdFields, MaxOpsAssumption
       DEF UInv, UTypeOK, IInv, TypeOK, Control, StateFollowsStep, NoJournal, Numbers,
           SchemaFollowsJournal, Away, ExecuteSteps, UndoTxSteps, ResumeSteps, Ops, NoTree,
           NoUpd, vars
  <1>7. SchemaFollowsJournal'
    BY <1>1, <1>2, UpdFields, MaxOpsAssumption
       DEF UInv, UTypeOK, IInv, TypeOK, Control, SchemaFollowsJournal, NoJournal,
           StateFollowsStep, Numbers, Away, ExecuteSteps, UndoTxSteps, ResumeSteps, Ops,
           NoTree, NoUpd, vars
  <1>8. BeforeFollowsStep'
    BY <1>1, <1>2, UpdFields, MaxOpsAssumption
       DEF UInv, UTypeOK, IInv, TypeOK, Control, BeforeFollowsStep, NoJournal,
           StateFollowsStep, Numbers, SchemaFollowsJournal, Away, ExecuteSteps, UndoTxSteps,
           ResumeSteps, Ops, NoTree, NoUpd, vars
  <1>9. Compensated'
    BY <1>1, <1>2, UpdFields, MaxOpsAssumption
       DEF UInv, UTypeOK, IInv, TypeOK, Control, Compensated, NoJournal, StateFollowsStep,
           Numbers, SchemaFollowsJournal, Away, ExecuteSteps, UndoTxSteps, ResumeSteps, Ops,
           NoTree, NoUpd, vars
  <1>10. QED
    BY <1>2, <1>3, <1>4, <1>5, <1>6, <1>7, <1>8, <1>9 DEF UInv

\* ForeignSkill keeps the invariant.
LEMMA ForeignSkillPreserves ==
    ASSUME UInv, ForeignSkill
    PROVE  UInv'
  <1>1. /\ pc = "idle"
        /\ upc = "b_slot"
        /\ upc' = "b_block"
        /\ result' = result
        /\ UNCHANGED <<vars, tx, schema, saved, upd, done, cost>>
    BY DEF UInv, UTypeOK, ForeignSkill, Step, HasControl, journals, uhistory
  <1>2. IInv'
    BY <1>1, StutterIInv DEF UInv
  <1>3. UTypeOK'
    BY <1>1, <1>2, UpdFields, MaxOpsAssumption
       DEF UInv, UTypeOK, IInv, TypeOK, Control, Numbers, Away, ExecuteSteps, UndoTxSteps,
           ResumeSteps, UpdateSteps, Upds, Modes, Results, Ops, Trees, NoTree
  <1>4. Control'
    BY <1>1, <1>2, UpdFields, MaxOpsAssumption
       DEF UInv, UTypeOK, IInv, TypeOK, Control, HasControl, NoJournal, StateFollowsStep,
           Numbers, SchemaFollowsJournal, Away, ExecuteSteps, UndoTxSteps, ResumeSteps, Ops,
           NoTree, NoUpd, vars
  <1>5. Numbers'
    BY <1>1, <1>2, UpdFields, MaxOpsAssumption
       DEF UInv, UTypeOK, IInv, TypeOK, Control, Numbers, NoJournal, StateFollowsStep,
           SchemaFollowsJournal, Away, ExecuteSteps, UndoTxSteps, ResumeSteps, Ops, NoTree,
           NoUpd, vars
  <1>6. StateFollowsStep'
    BY <1>1, <1>2, UpdFields, MaxOpsAssumption
       DEF UInv, UTypeOK, IInv, TypeOK, Control, StateFollowsStep, NoJournal, Numbers,
           SchemaFollowsJournal, Away, ExecuteSteps, UndoTxSteps, ResumeSteps, Ops, NoTree,
           NoUpd, vars
  <1>7. SchemaFollowsJournal'
    BY <1>1, <1>2, UpdFields, MaxOpsAssumption
       DEF UInv, UTypeOK, IInv, TypeOK, Control, SchemaFollowsJournal, NoJournal,
           StateFollowsStep, Numbers, Away, ExecuteSteps, UndoTxSteps, ResumeSteps, Ops,
           NoTree, NoUpd, vars
  <1>8. BeforeFollowsStep'
    BY <1>1, <1>2, UpdFields, MaxOpsAssumption
       DEF UInv, UTypeOK, IInv, TypeOK, Control, BeforeFollowsStep, NoJournal,
           StateFollowsStep, Numbers, SchemaFollowsJournal, Away, ExecuteSteps, UndoTxSteps,
           ResumeSteps, Ops, NoTree, NoUpd, vars
  <1>9. Compensated'
    BY <1>1, <1>2, UpdFields, MaxOpsAssumption
       DEF UInv, UTypeOK, IInv, TypeOK, Control, Compensated, NoJournal, StateFollowsStep,
           Numbers, SchemaFollowsJournal, Away, ExecuteSteps, UndoTxSteps, ResumeSteps, Ops,
           NoTree, NoUpd, vars
  <1>10. QED
    BY <1>2, <1>3, <1>4, <1>5, <1>6, <1>7, <1>8, <1>9 DEF UInv

\* ResumeStart keeps the invariant.
LEMMA ResumeStartPreserves ==
    ASSUME UInv, ResumeStart
    PROVE  UInv'
  <1>1. /\ pc = "idle"
        /\ upc = "start"
        /\ upc' = "u_recover"
        /\ result' = result
        /\ UNCHANGED <<vars, tx, schema, saved, upd, done, cost>>
    BY DEF UInv, UTypeOK, ResumeStart, Step, HasControl, journals, uhistory
  <1>2. IInv'
    BY <1>1, StutterIInv DEF UInv
  <1>3. UTypeOK'
    BY <1>1, <1>2, UpdFields, MaxOpsAssumption
       DEF UInv, UTypeOK, IInv, TypeOK, Control, Numbers, Away, ExecuteSteps, UndoTxSteps,
           ResumeSteps, UpdateSteps, Upds, Modes, Results, Ops, Trees, NoTree
  <1>4. Control'
    BY <1>1, <1>2, UpdFields, MaxOpsAssumption
       DEF UInv, UTypeOK, IInv, TypeOK, Control, HasControl, NoJournal, StateFollowsStep,
           Numbers, SchemaFollowsJournal, Away, ExecuteSteps, UndoTxSteps, ResumeSteps, Ops,
           NoTree, NoUpd, vars
  <1>5. Numbers'
    BY <1>1, <1>2, UpdFields, MaxOpsAssumption
       DEF UInv, UTypeOK, IInv, TypeOK, Control, Numbers, NoJournal, StateFollowsStep,
           SchemaFollowsJournal, Away, ExecuteSteps, UndoTxSteps, ResumeSteps, Ops, NoTree,
           NoUpd, vars
  <1>6. StateFollowsStep'
    BY <1>1, <1>2, UpdFields, MaxOpsAssumption
       DEF UInv, UTypeOK, IInv, TypeOK, Control, StateFollowsStep, NoJournal, Numbers,
           SchemaFollowsJournal, Away, ExecuteSteps, UndoTxSteps, ResumeSteps, Ops, NoTree,
           NoUpd, vars
  <1>7. SchemaFollowsJournal'
    BY <1>1, <1>2, UpdFields, MaxOpsAssumption
       DEF UInv, UTypeOK, IInv, TypeOK, Control, SchemaFollowsJournal, NoJournal,
           StateFollowsStep, Numbers, Away, ExecuteSteps, UndoTxSteps, ResumeSteps, Ops,
           NoTree, NoUpd, vars
  <1>8. BeforeFollowsStep'
    BY <1>1, <1>2, UpdFields, MaxOpsAssumption
       DEF UInv, UTypeOK, IInv, TypeOK, Control, BeforeFollowsStep, NoJournal,
           StateFollowsStep, Numbers, SchemaFollowsJournal, Away, ExecuteSteps, UndoTxSteps,
           ResumeSteps, Ops, NoTree, NoUpd, vars
  <1>9. Compensated'
    BY <1>1, <1>2, UpdFields, MaxOpsAssumption
       DEF UInv, UTypeOK, IInv, TypeOK, Control, Compensated, NoJournal, StateFollowsStep,
           Numbers, SchemaFollowsJournal, Away, ExecuteSteps, UndoTxSteps, ResumeSteps, Ops,
           NoTree, NoUpd, vars
  <1>10. QED
    BY <1>2, <1>3, <1>4, <1>5, <1>6, <1>7, <1>8, <1>9 DEF UInv

\* ResumeDrop keeps the invariant.
LEMMA ResumeDropPreserves ==
    ASSUME UInv, NEW n \in Ops, ResumeDrop(n)
    PROVE  UInv'
  <1>1. /\ pc = "idle"
        /\ upc = "u_recover"
        /\ upc' = "v_remove"
        /\ result' = result
        /\ tx[n].state \in {"committed", "prepared", "publishing"}
        /\ upd' = [n |-> n, mode |-> "recover", before |-> slot]
        /\ UNCHANGED <<vars, tx, schema, saved, done, cost>>
    BY DEF UInv, UTypeOK, ResumeDrop, Step, HasControl, Resume, journals, uhistory
  <1>2. IInv'
    BY <1>1, StutterIInv DEF UInv
  <1>3. UTypeOK'
    <2>1. upd' \in Upds
      BY <1>1, NewUpd, MaxOpsAssumption DEF UInv, UTypeOK, TypeOK, Modes, Ops, Trees
      <2>2. QED
        BY <2>1, <1>1, <1>2, UpdFields, MaxOpsAssumption
           DEF UInv, UTypeOK, IInv, TypeOK, Control, Numbers, Away, ExecuteSteps, UndoTxSteps,
               ResumeSteps, UpdateSteps, Modes, Results, Ops, Trees, NoTree
  <1>4. Control'
    BY <1>1, <1>2, UpdFields, MaxOpsAssumption
       DEF UInv, UTypeOK, IInv, TypeOK, Control, HasControl, NoJournal, StateFollowsStep,
           Numbers, SchemaFollowsJournal, Away, ExecuteSteps, UndoTxSteps, ResumeSteps, Ops,
           NoTree, NoUpd, vars
  <1>5. Numbers'
    BY <1>1, <1>2, UpdFields, MaxOpsAssumption
       DEF UInv, UTypeOK, IInv, TypeOK, Control, Numbers, NoJournal, StateFollowsStep,
           SchemaFollowsJournal, Away, ExecuteSteps, UndoTxSteps, ResumeSteps, Ops, NoTree,
           NoUpd, vars
  <1>6. StateFollowsStep'
    BY <1>1, <1>2, UpdFields, MaxOpsAssumption
       DEF UInv, UTypeOK, IInv, TypeOK, Control, StateFollowsStep, NoJournal, Numbers,
           SchemaFollowsJournal, Away, ExecuteSteps, UndoTxSteps, ResumeSteps, Ops, NoTree,
           NoUpd, vars
  <1>7. SchemaFollowsJournal'
    BY <1>1, <1>2, UpdFields, MaxOpsAssumption
       DEF UInv, UTypeOK, IInv, TypeOK, Control, SchemaFollowsJournal, NoJournal,
           StateFollowsStep, Numbers, Away, ExecuteSteps, UndoTxSteps, ResumeSteps, Ops,
           NoTree, NoUpd, vars
  <1>8. BeforeFollowsStep'
    BY <1>1, <1>2, UpdFields, MaxOpsAssumption
       DEF UInv, UTypeOK, IInv, TypeOK, Control, BeforeFollowsStep, NoJournal,
           StateFollowsStep, Numbers, SchemaFollowsJournal, Away, ExecuteSteps, UndoTxSteps,
           ResumeSteps, Ops, NoTree, NoUpd, vars
  <1>9. Compensated'
    BY <1>1, <1>2, UpdFields, MaxOpsAssumption
       DEF UInv, UTypeOK, IInv, TypeOK, Control, Compensated, NoJournal, StateFollowsStep,
           Numbers, SchemaFollowsJournal, Away, ExecuteSteps, UndoTxSteps, ResumeSteps, Ops,
           NoTree, NoUpd, vars
  <1>10. QED
    BY <1>2, <1>3, <1>4, <1>5, <1>6, <1>7, <1>8, <1>9 DEF UInv

\* ResumeCommit keeps the invariant.
LEMMA ResumeCommitPreserves ==
    ASSUME UInv, NEW n \in Ops, ResumeCommit(n)
    PROVE  UInv'
  <1>1. /\ pc = "idle"
        /\ upc = "u_recover"
        /\ upc' = "v_commit"
        /\ result' = result
        /\ tx[n].state \in {"skill_published", "schema_committed", "publishing"}
        /\ n \in schema
        /\ upd' = [n |-> n, mode |-> "recover", before |-> slot]
        /\ UNCHANGED <<vars, tx, schema, saved, done, cost>>
    BY DEF UInv, UTypeOK, ResumeCommit, Step, HasControl, Resume, Unfinished,
           SchemaCommitVisible, journals, uhistory
  <1>2. IInv'
    BY <1>1, StutterIInv DEF UInv
  <1>3. UTypeOK'
    <2>1. upd' \in Upds
      BY <1>1, NewUpd, MaxOpsAssumption DEF UInv, UTypeOK, TypeOK, Modes, Ops, Trees
      <2>2. QED
        BY <2>1, <1>1, <1>2, UpdFields, MaxOpsAssumption
           DEF UInv, UTypeOK, IInv, TypeOK, Control, Numbers, Away, ExecuteSteps, UndoTxSteps,
               ResumeSteps, UpdateSteps, Modes, Results, Ops, Trees, NoTree
  <1>4. Control'
    BY <1>1, <1>2, UpdFields, MaxOpsAssumption
       DEF UInv, UTypeOK, IInv, TypeOK, Control, HasControl, NoJournal, StateFollowsStep,
           Numbers, SchemaFollowsJournal, Away, ExecuteSteps, UndoTxSteps, ResumeSteps, Ops,
           NoTree, NoUpd, vars
  <1>5. Numbers'
    BY <1>1, <1>2, UpdFields, MaxOpsAssumption
       DEF UInv, UTypeOK, IInv, TypeOK, Control, Numbers, NoJournal, StateFollowsStep,
           SchemaFollowsJournal, Away, ExecuteSteps, UndoTxSteps, ResumeSteps, Ops, NoTree,
           NoUpd, vars
  <1>6. StateFollowsStep'
    BY <1>1, <1>2, UpdFields, MaxOpsAssumption
       DEF UInv, UTypeOK, IInv, TypeOK, Control, StateFollowsStep, NoJournal, Numbers,
           SchemaFollowsJournal, Away, ExecuteSteps, UndoTxSteps, ResumeSteps, Ops, NoTree,
           NoUpd, vars
  <1>7. SchemaFollowsJournal'
    BY <1>1, <1>2, UpdFields, MaxOpsAssumption
       DEF UInv, UTypeOK, IInv, TypeOK, Control, SchemaFollowsJournal, NoJournal,
           StateFollowsStep, Numbers, Away, ExecuteSteps, UndoTxSteps, ResumeSteps, Ops,
           NoTree, NoUpd, vars
  <1>8. BeforeFollowsStep'
    BY <1>1, <1>2, UpdFields, MaxOpsAssumption
       DEF UInv, UTypeOK, IInv, TypeOK, Control, BeforeFollowsStep, NoJournal,
           StateFollowsStep, Numbers, SchemaFollowsJournal, Away, ExecuteSteps, UndoTxSteps,
           ResumeSteps, Ops, NoTree, NoUpd, vars
  <1>9. Compensated'
    BY <1>1, <1>2, UpdFields, MaxOpsAssumption
       DEF UInv, UTypeOK, IInv, TypeOK, Control, Compensated, NoJournal, StateFollowsStep,
           Numbers, SchemaFollowsJournal, Away, ExecuteSteps, UndoTxSteps, ResumeSteps, Ops,
           NoTree, NoUpd, vars
  <1>10. QED
    BY <1>2, <1>3, <1>4, <1>5, <1>6, <1>7, <1>8, <1>9 DEF UInv

\* ResumeRollback keeps the invariant.
LEMMA ResumeRollbackPreserves ==
    ASSUME UInv, NEW n \in Ops, ResumeRollback(n)
    PROVE  UInv'
  <1>1. /\ pc = "idle"
        /\ upc = "u_recover"
        /\ upc' = "b_schema"
        /\ result' = result
        /\ tx[n].state \in {"skill_published", "schema_committed", "publishing"}
        /\ upd' = [n |-> n, mode |-> "recover", before |-> slot]
        /\ UNCHANGED <<vars, tx, schema, saved, done, cost>>
    BY DEF UInv, UTypeOK, ResumeRollback, Step, HasControl, Resume, Unfinished, journals,
           uhistory
  <1>2. IInv'
    BY <1>1, StutterIInv DEF UInv
  <1>3. UTypeOK'
    <2>1. upd' \in Upds
      BY <1>1, NewUpd, MaxOpsAssumption DEF UInv, UTypeOK, TypeOK, Modes, Ops, Trees
      <2>2. QED
        BY <2>1, <1>1, <1>2, UpdFields, MaxOpsAssumption
           DEF UInv, UTypeOK, IInv, TypeOK, Control, Numbers, Away, ExecuteSteps, UndoTxSteps,
               ResumeSteps, UpdateSteps, Modes, Results, Ops, Trees, NoTree
  <1>4. Control'
    BY <1>1, <1>2, UpdFields, MaxOpsAssumption
       DEF UInv, UTypeOK, IInv, TypeOK, Control, HasControl, NoJournal, StateFollowsStep,
           Numbers, SchemaFollowsJournal, Away, ExecuteSteps, UndoTxSteps, ResumeSteps, Ops,
           NoTree, NoUpd, vars
  <1>5. Numbers'
    BY <1>1, <1>2, UpdFields, MaxOpsAssumption
       DEF UInv, UTypeOK, IInv, TypeOK, Control, Numbers, NoJournal, StateFollowsStep,
           SchemaFollowsJournal, Away, ExecuteSteps, UndoTxSteps, ResumeSteps, Ops, NoTree,
           NoUpd, vars
  <1>6. StateFollowsStep'
    BY <1>1, <1>2, UpdFields, MaxOpsAssumption
       DEF UInv, UTypeOK, IInv, TypeOK, Control, StateFollowsStep, NoJournal, Numbers,
           SchemaFollowsJournal, Away, ExecuteSteps, UndoTxSteps, ResumeSteps, Ops, NoTree,
           NoUpd, vars
  <1>7. SchemaFollowsJournal'
    BY <1>1, <1>2, UpdFields, MaxOpsAssumption
       DEF UInv, UTypeOK, IInv, TypeOK, Control, SchemaFollowsJournal, NoJournal,
           StateFollowsStep, Numbers, Away, ExecuteSteps, UndoTxSteps, ResumeSteps, Ops,
           NoTree, NoUpd, vars
  <1>8. BeforeFollowsStep'
    BY <1>1, <1>2, UpdFields, MaxOpsAssumption
       DEF UInv, UTypeOK, IInv, TypeOK, Control, BeforeFollowsStep, NoJournal,
           StateFollowsStep, Numbers, SchemaFollowsJournal, Away, ExecuteSteps, UndoTxSteps,
           ResumeSteps, Ops, NoTree, NoUpd, vars
  <1>9. Compensated'
    BY <1>1, <1>2, UpdFields, MaxOpsAssumption
       DEF UInv, UTypeOK, IInv, TypeOK, Control, Compensated, NoJournal, StateFollowsStep,
           Numbers, SchemaFollowsJournal, Away, ExecuteSteps, UndoTxSteps, ResumeSteps, Ops,
           NoTree, NoUpd, vars
  <1>10. QED
    BY <1>2, <1>3, <1>4, <1>5, <1>6, <1>7, <1>8, <1>9 DEF UInv

\* CommitRecovered keeps the invariant.
LEMMA CommitRecoveredPreserves ==
    ASSUME UInv, CommitRecovered
    PROVE  UInv'
  <1>1. /\ pc = "idle"
        /\ upc = "v_commit"
        /\ upc' = "v_remove"
        /\ result' = result
        /\ tx'[upd.n].state = "committed"
        /\ tx'[upd.n].snapshot = tx[upd.n].snapshot
        /\ \A m \in Ops : m # upd.n => tx'[m] = tx[m]
        /\ tx' \in [Ops -> Txs]
        /\ UNCHANGED <<vars, schema, saved, upd, done, cost>>
    BY StateWritten
       DEF UInv, UTypeOK, CommitRecovered, Step, HasControl, CanTransition, uhistory, Control,
           ExecuteSteps, UndoTxSteps, TxStates
  <1>2. IInv'
    BY <1>1, StutterIInv DEF UInv
  <1>3. UTypeOK'
    BY <1>1, <1>2, UpdFields, MaxOpsAssumption
       DEF UInv, UTypeOK, IInv, TypeOK, Control, Numbers, Away, ExecuteSteps, UndoTxSteps,
           ResumeSteps, UpdateSteps, Upds, Modes, Results, Ops, Trees, NoTree
  <1>4. Control'
    BY <1>1, <1>2, UpdFields, MaxOpsAssumption
       DEF UInv, UTypeOK, IInv, TypeOK, Control, HasControl, NoJournal, StateFollowsStep,
           Numbers, SchemaFollowsJournal, Away, ExecuteSteps, UndoTxSteps, ResumeSteps, Ops,
           NoTree, NoUpd, vars
  <1>5. Numbers'
    BY <1>1, <1>2, UpdFields, MaxOpsAssumption
       DEF UInv, UTypeOK, IInv, TypeOK, Control, Numbers, NoJournal, StateFollowsStep,
           SchemaFollowsJournal, Away, ExecuteSteps, UndoTxSteps, ResumeSteps, Ops, NoTree,
           NoUpd, vars
  <1>6. StateFollowsStep'
    BY <1>1, <1>2, UpdFields, MaxOpsAssumption
       DEF UInv, UTypeOK, IInv, TypeOK, Control, StateFollowsStep, NoJournal, Numbers,
           SchemaFollowsJournal, Away, ExecuteSteps, UndoTxSteps, ResumeSteps, Ops, NoTree,
           NoUpd, vars
  <1>7. SchemaFollowsJournal'
    BY <1>1, <1>2, UpdFields, MaxOpsAssumption
       DEF UInv, UTypeOK, IInv, TypeOK, Control, SchemaFollowsJournal, NoJournal,
           StateFollowsStep, Numbers, Away, ExecuteSteps, UndoTxSteps, ResumeSteps, Ops,
           NoTree, NoUpd, vars
  <1>8. BeforeFollowsStep'
    BY <1>1, <1>2, UpdFields, MaxOpsAssumption
       DEF UInv, UTypeOK, IInv, TypeOK, Control, BeforeFollowsStep, NoJournal,
           StateFollowsStep, Numbers, SchemaFollowsJournal, Away, ExecuteSteps, UndoTxSteps,
           ResumeSteps, Ops, NoTree, NoUpd, vars
  <1>9. Compensated'
    BY <1>1, <1>2, UpdFields, MaxOpsAssumption
       DEF UInv, UTypeOK, IInv, TypeOK, Control, Compensated, NoJournal, StateFollowsStep,
           Numbers, SchemaFollowsJournal, Away, ExecuteSteps, UndoTxSteps, ResumeSteps, Ops,
           NoTree, NoUpd, vars
  <1>10. QED
    BY <1>2, <1>3, <1>4, <1>5, <1>6, <1>7, <1>8, <1>9 DEF UInv

\* RemoveRecovered keeps the invariant.
LEMMA RemoveRecoveredPreserves ==
    ASSUME UInv, RemoveRecovered
    PROVE  UInv'
  <1>0. upd.n \in Ops
    BY DEF UInv, Control, RemoveRecovered, Step
  <1>1. /\ pc = "idle"
        /\ upc = "v_remove"
        /\ upc' = "u_recover"
        /\ result' = result
        /\ tx'[upd.n].state = "none"
        /\ \A m \in Ops : m # upd.n => tx'[m] = tx[m]
        /\ tx' \in [Ops -> Txs]
        /\ tx[upd.n].state = "committed" => done' = done \cup {upd.n}
        /\ tx[upd.n].state # "committed" => done' = done
        /\ UNCHANGED <<vars, schema, saved, upd, cost>>
    BY <1>0, JournalRemoved DEF UInv, UTypeOK, RemoveRecovered, Step, HasControl
  <1>2. IInv'
    BY <1>1, StutterIInv DEF UInv
  <1>3. UTypeOK'
    BY <1>1, <1>2, UpdFields, MaxOpsAssumption
       DEF UInv, UTypeOK, IInv, TypeOK, Control, Numbers, Away, ExecuteSteps, UndoTxSteps,
           ResumeSteps, UpdateSteps, Upds, Modes, Results, Ops, Trees, NoTree
  <1>4. Control'
    BY <1>1, <1>2, UpdFields, MaxOpsAssumption
       DEF UInv, UTypeOK, IInv, TypeOK, Control, HasControl, NoJournal, StateFollowsStep,
           Numbers, SchemaFollowsJournal, Away, ExecuteSteps, UndoTxSteps, ResumeSteps, Ops,
           NoTree, NoUpd, vars
  <1>5. Numbers'
    BY <1>1, <1>2, UpdFields, MaxOpsAssumption
       DEF UInv, UTypeOK, IInv, TypeOK, Control, Numbers, NoJournal, StateFollowsStep,
           SchemaFollowsJournal, Away, ExecuteSteps, UndoTxSteps, ResumeSteps, Ops, NoTree,
           NoUpd, vars
  <1>6. StateFollowsStep'
    BY <1>1, <1>2, UpdFields, MaxOpsAssumption
       DEF UInv, UTypeOK, IInv, TypeOK, Control, StateFollowsStep, NoJournal, Numbers,
           SchemaFollowsJournal, Away, ExecuteSteps, UndoTxSteps, ResumeSteps, Ops, NoTree,
           NoUpd, vars
  <1>7. SchemaFollowsJournal'
    BY <1>1, <1>2, UpdFields, MaxOpsAssumption
       DEF UInv, UTypeOK, IInv, TypeOK, Control, SchemaFollowsJournal, NoJournal,
           StateFollowsStep, Numbers, Away, ExecuteSteps, UndoTxSteps, ResumeSteps, Ops,
           NoTree, NoUpd, vars
  <1>8. BeforeFollowsStep'
    BY <1>1, <1>2, UpdFields, MaxOpsAssumption
       DEF UInv, UTypeOK, IInv, TypeOK, Control, BeforeFollowsStep, NoJournal,
           StateFollowsStep, Numbers, SchemaFollowsJournal, Away, ExecuteSteps, UndoTxSteps,
           ResumeSteps, Ops, NoTree, NoUpd, vars
  <1>9. Compensated'
    BY <1>1, <1>2, UpdFields, MaxOpsAssumption
       DEF UInv, UTypeOK, IInv, TypeOK, Control, Compensated, NoJournal, StateFollowsStep,
           Numbers, SchemaFollowsJournal, Away, ExecuteSteps, UndoTxSteps, ResumeSteps, Ops,
           NoTree, NoUpd, vars
  <1>10. QED
    BY <1>2, <1>3, <1>4, <1>5, <1>6, <1>7, <1>8, <1>9 DEF UInv

\* ResumeDone keeps the invariant.
LEMMA ResumeDonePreserves ==
    ASSUME UInv, ResumeDone
    PROVE  UInv'
  <1>1. /\ pc = "idle"
        /\ upc = "u_recover"
        /\ upc' = "ready"
        /\ result' = result
        /\ NoJournal
        /\ upd' = NoUpd
        /\ UNCHANGED <<vars, tx, schema, saved, done, cost>>
    BY DEF UInv, UTypeOK, ResumeDone, Step, HasControl, NoJournal, journals, uhistory
  <1>2. IInv'
    BY <1>1, StutterIInv DEF UInv
  <1>3. UTypeOK'
    <2>1. upd' \in Upds
      BY <1>1, NoUpdType, MaxOpsAssumption DEF Ops, Trees
      <2>2. QED
        BY <2>1, <1>1, <1>2, UpdFields, MaxOpsAssumption
           DEF UInv, UTypeOK, IInv, TypeOK, Control, Numbers, Away, ExecuteSteps, UndoTxSteps,
               ResumeSteps, UpdateSteps, Modes, Results, Ops, Trees, NoTree
  <1>4. Control'
    BY <1>1, <1>2, UpdFields, MaxOpsAssumption
       DEF UInv, UTypeOK, IInv, TypeOK, Control, HasControl, NoJournal, StateFollowsStep,
           Numbers, SchemaFollowsJournal, Away, ExecuteSteps, UndoTxSteps, ResumeSteps, Ops,
           NoTree, NoUpd, vars
  <1>5. Numbers'
    BY <1>1, <1>2, UpdFields, MaxOpsAssumption
       DEF UInv, UTypeOK, IInv, TypeOK, Control, Numbers, NoJournal, StateFollowsStep,
           SchemaFollowsJournal, Away, ExecuteSteps, UndoTxSteps, ResumeSteps, Ops, NoTree,
           NoUpd, vars
  <1>6. StateFollowsStep'
    BY <1>1, <1>2, UpdFields, MaxOpsAssumption
       DEF UInv, UTypeOK, IInv, TypeOK, Control, StateFollowsStep, NoJournal, Numbers,
           SchemaFollowsJournal, Away, ExecuteSteps, UndoTxSteps, ResumeSteps, Ops, NoTree,
           NoUpd, vars
  <1>7. SchemaFollowsJournal'
    BY <1>1, <1>2, UpdFields, MaxOpsAssumption
       DEF UInv, UTypeOK, IInv, TypeOK, Control, SchemaFollowsJournal, NoJournal,
           StateFollowsStep, Numbers, Away, ExecuteSteps, UndoTxSteps, ResumeSteps, Ops,
           NoTree, NoUpd, vars
  <1>8. BeforeFollowsStep'
    BY <1>1, <1>2, UpdFields, MaxOpsAssumption
       DEF UInv, UTypeOK, IInv, TypeOK, Control, BeforeFollowsStep, NoJournal,
           StateFollowsStep, Numbers, SchemaFollowsJournal, Away, ExecuteSteps, UndoTxSteps,
           ResumeSteps, Ops, NoTree, NoUpd, vars
  <1>9. Compensated'
    BY <1>1, <1>2, UpdFields, MaxOpsAssumption
       DEF UInv, UTypeOK, IInv, TypeOK, Control, Compensated, NoJournal, StateFollowsStep,
           Numbers, SchemaFollowsJournal, Away, ExecuteSteps, UndoTxSteps, ResumeSteps, Ops,
           NoTree, NoUpd, vars
  <1>10. QED
    BY <1>2, <1>3, <1>4, <1>5, <1>6, <1>7, <1>8, <1>9 DEF UInv

\* RollbackReported keeps the invariant.
LEMMA RollbackReportedPreserves ==
    ASSUME UInv, RollbackReported
    PROVE  UInv'
  <1>1. /\ pc = "idle"
        /\ upc = "m_wait"
        /\ upc' = "done"
        /\ result' \in {"rolled_back", "error"}
        /\ UNCHANGED <<vars, tx, schema, saved, upd, done, cost>>
    BY DEF UInv, UTypeOK, RollbackReported, Conclude, HasControl, journals, uhistory
  <1>2. IInv'
    BY <1>1, StutterIInv DEF UInv
  <1>3. UTypeOK'
    BY <1>1, <1>2, UpdFields, MaxOpsAssumption
       DEF UInv, UTypeOK, IInv, TypeOK, Control, Numbers, Away, ExecuteSteps, UndoTxSteps,
           ResumeSteps, UpdateSteps, Upds, Modes, Results, Ops, Trees, NoTree
  <1>4. Control'
    BY <1>1, <1>2, UpdFields, MaxOpsAssumption
       DEF UInv, UTypeOK, IInv, TypeOK, Control, HasControl, NoJournal, StateFollowsStep,
           Numbers, SchemaFollowsJournal, Away, ExecuteSteps, UndoTxSteps, ResumeSteps, Ops,
           NoTree, NoUpd, vars
  <1>5. Numbers'
    BY <1>1, <1>2, UpdFields, MaxOpsAssumption
       DEF UInv, UTypeOK, IInv, TypeOK, Control, Numbers, NoJournal, StateFollowsStep,
           SchemaFollowsJournal, Away, ExecuteSteps, UndoTxSteps, ResumeSteps, Ops, NoTree,
           NoUpd, vars
  <1>6. StateFollowsStep'
    BY <1>1, <1>2, UpdFields, MaxOpsAssumption
       DEF UInv, UTypeOK, IInv, TypeOK, Control, StateFollowsStep, NoJournal, Numbers,
           SchemaFollowsJournal, Away, ExecuteSteps, UndoTxSteps, ResumeSteps, Ops, NoTree,
           NoUpd, vars
  <1>7. SchemaFollowsJournal'
    BY <1>1, <1>2, UpdFields, MaxOpsAssumption
       DEF UInv, UTypeOK, IInv, TypeOK, Control, SchemaFollowsJournal, NoJournal,
           StateFollowsStep, Numbers, Away, ExecuteSteps, UndoTxSteps, ResumeSteps, Ops,
           NoTree, NoUpd, vars
  <1>8. BeforeFollowsStep'
    BY <1>1, <1>2, UpdFields, MaxOpsAssumption
       DEF UInv, UTypeOK, IInv, TypeOK, Control, BeforeFollowsStep, NoJournal,
           StateFollowsStep, Numbers, SchemaFollowsJournal, Away, ExecuteSteps, UndoTxSteps,
           ResumeSteps, Ops, NoTree, NoUpd, vars
  <1>9. Compensated'
    BY <1>1, <1>2, UpdFields, MaxOpsAssumption
       DEF UInv, UTypeOK, IInv, TypeOK, Control, Compensated, NoJournal, StateFollowsStep,
           Numbers, SchemaFollowsJournal, Away, ExecuteSteps, UndoTxSteps, ResumeSteps, Ops,
           NoTree, NoUpd, vars
  <1>10. QED
    BY <1>2, <1>3, <1>4, <1>5, <1>6, <1>7, <1>8, <1>9 DEF UInv


-----------------------------------------------------------------------------
(* What the use case does to the publisher, and what the publisher does.     *)

\* A process that is gone, after its constructor raised or after a crash.
LEMMA DownIInv ==
    ASSUME IInv, pc' = "down", call' = NoCall, outcome' \in {"none", "crashed"},
           UNCHANGED <<dirs, records, clock, history>>
    PROVE  IInv'
  <1>1. TypeOK'
    BY NoCallType DEF IInv, TypeOK, Steps, Outcomes, dirs, records, history
  <1>2. CallMatchesStep'
    BY MaxOpsAssumption
       DEF IInv, TypeOK, CallMatchesStep, NoCall, PublishSteps, UndoSteps, RollbackSteps,
           RestoreSteps, RecoverySteps
  <1>3. NumbersAreFresh'
    BY DEF IInv, NumbersAreFresh, dirs, records, history
  <1>4. SlotFollowsStep'
    BY DEF SlotFollowsStep, NoCall
  <1>5. QED
    BY <1>1, <1>2, <1>3, <1>4 DEF IInv

\* What the use case does to the slot between two calls.
LEMMA SlotChangeIInv ==
    ASSUME IInv, pc = "idle", slot' \in Trees, clock' \in 0..MaxOps, clock <= clock',
           UNCHANGED <<snap, staging, displaced, records, pc, call, outcome, history>>
    PROVE  IInv'
  <1>1. TypeOK'
    BY DEF IInv, TypeOK, records, history
  <1>2. CallMatchesStep'
    BY MaxOpsAssumption
       DEF IInv, TypeOK, Calls, Trees, CallMatchesStep, PublishSteps, UndoSteps,
           RollbackSteps, RestoreSteps, RecoverySteps
  <1>3. NumbersAreFresh'
    BY MaxOpsAssumption DEF IInv, TypeOK, NumbersAreFresh, records, history, Ops
  <1>4. SlotFollowsStep'
    BY DEF IInv, SlotFollowsStep
  <1>5. QED
    BY <1>1, <1>2, <1>3, <1>4 DEF IInv

\* Between processes a person takes the index entry out; the invariant needs none.
LEMMA IndexLostIInv ==
    ASSUME IInv, EditIndex
    PROVE  IInv'
  <1>1. TypeOK'
    BY MaxOpsAssumption
       DEF IInv, TypeOK, EditIndex, dirs, history, NoEntry, Entries, Kinds, Trees, NoTree
  <1>2. CallMatchesStep' /\ NumbersAreFresh' /\ SlotFollowsStep'
    BY DEF IInv, CallMatchesStep, NumbersAreFresh, SlotFollowsStep, EditIndex, dirs, history
  <1>3. QED
    BY <1>1, <1>2 DEF IInv

\* A step of a call or of the recovery takes no number, and the publisher is at work.
LEMMA ClockStays ==
    ASSUME Work \/ Failure
    PROVE  clock' = clock /\ pc \notin {"idle", "down"}
  <1>1. ASSUME Publish PROVE clock' = clock /\ pc \notin {"idle", "down"}
    BY <1>1
       DEF Publish, Compile, BeginJournal, NameSnapshot, TakeSnapshot, MarkSnapshotted, Swap,
           MarkSwapped, WritePointer, LogSuccess, UpdateIndex, CommitJournal, ForgetJournal
  <1>2. ASSUME Compensate PROVE clock' = clock /\ pc \notin {"idle", "down"}
    BY <1>2
       DEF Compensate, Abort, Displace, Reinstate, Discard, PutBack, Unpublish, ForgetFailed,
           Repoint, LogFailure, IndexFailure
  <1>3. ASSUME Rollback PROVE clock' = clock /\ pc \notin {"idle", "down"}
    BY <1>3
       DEF Rollback, RollbackSnapshot, RollbackRestore, RollbackPoint, RollbackLog,
           RollbackIndex
  <1>4. ASSUME RecoverJournal PROVE clock' = clock /\ pc \notin {"idle", "down"}
    BY <1>4
       DEF RecoverJournal, RecoverCommitted, RecoverForward, RecoverBack, RecoverAbandon,
           RecoverSwapped, RecoverLost, RecoverRefuse, Pick
  <1>5. ASSUME Recover, ~RecoverJournal PROVE clock' = clock /\ pc \notin {"idle", "down"}
    BY <1>5
       DEF Recover, RecoverMark, RecoverPoint, RecoverVerify, RecoverLog, RecoverIndex,
           RecoverUnpoint, RecoverForget, RecoverBlock, RecoverDone
  <1>6. ASSUME Failure PROVE clock' = clock /\ pc \notin {"idle", "down"}
    BY <1>6
       DEF Failure, PublishFault, UndoFault, RollbackFault, RecoverFault, MarkFault,
           PublishSteps, RecoverySteps
  <1>7. QED
    BY <1>1, <1>2, <1>3, <1>4, <1>5, <1>6 DEF Work

\* The steps of a publication: it keeps its number and what it found, and sets
\* aside the tree it found before it swaps.
PublishesOn ==
    /\ call'.op = "publish" /\ call'.id = call.id /\ call'.before = call.before
    /\ pc' # "down"
    /\ pc' \in {"compile", "begin", "name", "snapshot"} =>
           pc \in {"compile", "begin", "name", "snapshot"} /\ slot' = slot
    /\ pc' = "mark_snapshotted" => pc = "snapshot" /\ snap'[call.id] = slot
    /\ pc' = "swap" =>
           /\ snap' = snap
           /\ \/ pc = "mark_snapshotted"
              \/ pc = "begin" /\ slot = NoTree /\ snap[call.id] = NoTree
    /\ pc' \in {"mark_swapped", "point", "log", "index", "commit", "forget"} =>
           /\ snap' = snap
           /\ pc \in {"swap", "mark_swapped", "point", "log", "index", "commit"}
    /\ pc' = "idle" /\ outcome' = "published" => pc = "forget" /\ snap' = snap

\* One step of the Publisher, in a publication.
LEMMA PublicationProceeds ==
    ASSUME IInv, call.op = "publish", Work \/ Failure
    PROVE  PublishesOn
  <1>1. /\ pc \notin RollbackSteps \cup RecoverySteps
        /\ call \in Calls /\ snap \in [Ops -> Trees]
        /\ pc \in PublishSteps \cup UndoSteps \cup RestoreSteps => call.id \in Ops
    BY DEF IInv, TypeOK, CallMatchesStep
  <1>2. pc = "begin" => snap[call.id] = NoTree
    BY DEF IInv, SlotFollowsStep
  <1>3. \A t : LET c == [call EXCEPT !.moved = t]
               IN  c.op = call.op /\ c.id = call.id /\ c.before = call.before
    BY <1>1
  <1>4. LET c == [call EXCEPT !.swapped = TRUE]
        IN  c.op = call.op /\ c.id = call.id /\ c.before = call.before
    BY <1>1
  <1>5. ASSUME Publish PROVE PublishesOn
    BY <1>1, <1>2, <1>4, <1>5
       DEF Publish, Compile, BeginJournal, NameSnapshot, TakeSnapshot, MarkSnapshotted, Swap,
           MarkSwapped, WritePointer, LogSuccess, UpdateIndex, CommitJournal, ForgetJournal,
           PublishesOn, Goto, Report, dirs, PublishSteps
  <1>6. ASSUME Compensate PROVE PublishesOn
    BY <1>1, <1>3, <1>6
       DEF Compensate, Abort, Displace, Reinstate, Discard, PutBack, Unpublish, ForgetFailed,
           Repoint, LogFailure, IndexFailure, PublishesOn, Goto, Report
  <1>7. ~Rollback
    BY <1>1
       DEF Rollback, RollbackSnapshot, RollbackRestore, RollbackPoint, RollbackLog,
           RollbackIndex, RollbackSteps
  <1>8. ~Recover
    BY <1>1
       DEF Recover, RecoverJournal, RecoverCommitted, RecoverForward, RecoverBack,
           RecoverAbandon, RecoverSwapped, RecoverLost, RecoverRefuse, Pick, RecoverMark,
           RecoverPoint, RecoverVerify, RecoverLog, RecoverIndex, RecoverUnpoint,
           RecoverForget, RecoverBlock, RecoverDone, RecoverySteps
  <1>9. ASSUME Failure PROVE PublishesOn
    <2>1. (pc' = "idle" /\ outcome' # "published") \/ pc' \in {"abort", "putback"}
      BY <1>1, <1>9
         DEF Failure, PublishFault, UndoFault, RollbackFault, RecoverFault, MarkFault,
             RollbackSteps, RecoverySteps, Goto, Report
    <2>2. UNCHANGED call
      BY <1>1, <1>9
         DEF Failure, PublishFault, UndoFault, RollbackFault, RecoverFault, MarkFault,
             RollbackSteps, RecoverySteps
    <2>3. QED
      BY <2>1, <2>2 DEF PublishesOn
  <1>10. QED
    BY <1>5, <1>6, <1>7, <1>8, <1>9 DEF Work

\* The steps of a rollback: it brings back the snapshot it chose.
RollsBackOn ==
    /\ call'.op = "rollback" /\ call'.id = call.id /\ call'.latest = call.latest
    /\ pc' # "down"
    /\ pc' # "r_snapshot"
    /\ pc' = "r_restore" => pc = "r_snapshot" /\ snap' = [snap EXCEPT ![call.id] = slot]
    /\ pc' = "r_point" => pc = "r_restore" /\ slot' = snap[call.latest]
    /\ pc' \in {"r_log", "r_index"} => pc \in {"r_point", "r_log"} /\ slot' = slot
    /\ pc' = "idle" /\ outcome' = "rolled_back" => pc = "r_index" /\ slot' = slot

\* One step of the Publisher, in a rollback.
LEMMA RollbackProceeds ==
    ASSUME IInv, call.op = "rollback", Work \/ Failure
    PROVE  RollsBackOn
  <1>1. /\ pc \notin PublishSteps \cup UndoSteps \cup RecoverySteps
        /\ call \in Calls
    BY DEF IInv, TypeOK, CallMatchesStep
  <1>2. \A t : LET c == [call EXCEPT !.moved = t]
               IN  c.op = call.op /\ c.id = call.id /\ c.latest = call.latest
    BY <1>1
  <1>3. ~Publish
    BY <1>1
       DEF Publish, Compile, BeginJournal, NameSnapshot, TakeSnapshot, MarkSnapshotted, Swap,
           MarkSwapped, WritePointer, LogSuccess, UpdateIndex, CommitJournal, ForgetJournal,
           PublishSteps
  <1>4. ASSUME Compensate PROVE RollsBackOn
    BY <1>1, <1>2, <1>4
       DEF Compensate, Abort, Displace, Reinstate, Discard, PutBack, Unpublish, ForgetFailed,
           Repoint, LogFailure, IndexFailure, RollsBackOn, Goto, Report, UndoSteps
  <1>5. ASSUME Rollback PROVE RollsBackOn
    BY <1>5
       DEF Rollback, RollbackSnapshot, RollbackRestore, RollbackPoint, RollbackLog,
           RollbackIndex, RollsBackOn, Goto, Report, dirs
  <1>6. ~Recover
    BY <1>1
       DEF Recover, RecoverJournal, RecoverCommitted, RecoverForward, RecoverBack,
           RecoverAbandon, RecoverSwapped, RecoverLost, RecoverRefuse, Pick, RecoverMark,
           RecoverPoint, RecoverVerify, RecoverLog, RecoverIndex, RecoverUnpoint,
           RecoverForget, RecoverBlock, RecoverDone, RecoverySteps
  <1>7. ASSUME Failure PROVE RollsBackOn
    <2>1. (pc' = "idle" /\ outcome' # "rolled_back") \/ pc' \in {"displace", "putback"}
      BY <1>1, <1>7
         DEF Failure, PublishFault, UndoFault, RollbackFault, RecoverFault, MarkFault,
             PublishSteps, UndoSteps, RecoverySteps, Goto, Report
    <2>2. UNCHANGED call
      BY <1>1, <1>7
         DEF Failure, PublishFault, UndoFault, RollbackFault, RecoverFault, MarkFault,
             PublishSteps, RecoverySteps
    <2>3. QED
      BY <2>1, <2>2 DEF RollsBackOn
  <1>8. QED
    BY <1>3, <1>4, <1>5, <1>6, <1>7 DEF Work

\* Build keeps the invariant.
LEMMA BuildPreserves ==
    ASSUME UInv, Build
    PROVE  UInv'
  <1>1. /\ pc = "idle"
        /\ upc = "ready"
        /\ upc' = "ready"
        /\ result' = result
        /\ clock = 0 /\ clock' = 1 /\ MaxOps > 0
        /\ slot' = 1 /\ schema' = {1} /\ done' = {1}
        /\ UNCHANGED <<snap, staging, displaced, records, pc, call, outcome, history>>
        /\ UNCHANGED <<tx, saved, upd, cost>>
    BY DEF Build, Step, HasControl
  <1>2. IInv'
    BY <1>1, SlotChangeIInv, MaxOpsAssumption DEF UInv, Trees
  <1>3. UTypeOK'
    BY <1>1, <1>2, UpdFields, MaxOpsAssumption
       DEF UInv, UTypeOK, IInv, TypeOK, Control, Numbers, Away, ExecuteSteps, UndoTxSteps,
           ResumeSteps, UpdateSteps, Upds, Modes, Results, Ops, Trees, NoTree
  <1>4. Control'
    BY <1>1, <1>2, UpdFields, MaxOpsAssumption
       DEF UInv, UTypeOK, IInv, TypeOK, Control, HasControl, NoJournal, StateFollowsStep,
           Numbers, SchemaFollowsJournal, Away, ExecuteSteps, UndoTxSteps, ResumeSteps, Ops,
           NoTree, NoUpd, vars
  <1>5. Numbers'
    BY <1>1, <1>2, UpdFields, MaxOpsAssumption
       DEF UInv, UTypeOK, IInv, TypeOK, Control, Numbers, NoJournal, StateFollowsStep,
           SchemaFollowsJournal, Away, ExecuteSteps, UndoTxSteps, ResumeSteps, Ops, NoTree,
           NoUpd, vars
  <1>6. StateFollowsStep'
    BY <1>1, <1>2, UpdFields, MaxOpsAssumption
       DEF UInv, UTypeOK, IInv, TypeOK, Control, StateFollowsStep, NoJournal, Numbers,
           SchemaFollowsJournal, Away, ExecuteSteps, UndoTxSteps, ResumeSteps, Ops, NoTree,
           NoUpd, vars
  <1>7. SchemaFollowsJournal'
    BY <1>1, <1>2, UpdFields, MaxOpsAssumption
       DEF UInv, UTypeOK, IInv, TypeOK, Control, SchemaFollowsJournal, NoJournal,
           StateFollowsStep, Numbers, Away, ExecuteSteps, UndoTxSteps, ResumeSteps, Ops,
           NoTree, NoUpd, vars
  <1>8. BeforeFollowsStep'
    BY <1>1, <1>2, UpdFields, MaxOpsAssumption
       DEF UInv, UTypeOK, IInv, TypeOK, Control, BeforeFollowsStep, NoJournal,
           StateFollowsStep, Numbers, SchemaFollowsJournal, Away, ExecuteSteps, UndoTxSteps,
           ResumeSteps, Ops, NoTree, NoUpd, vars
  <1>9. Compensated'
    BY <1>1, <1>2, UpdFields, MaxOpsAssumption
       DEF UInv, UTypeOK, IInv, TypeOK, Control, Compensated, NoJournal, StateFollowsStep,
           Numbers, SchemaFollowsJournal, Away, ExecuteSteps, UndoTxSteps, ResumeSteps, Ops,
           NoTree, NoUpd, vars
  <1>10. QED
    BY <1>2, <1>3, <1>4, <1>5, <1>6, <1>7, <1>8, <1>9 DEF UInv

\* ExecuteFault keeps the invariant.
LEMMA ExecuteFaultPreserves ==
    ASSUME UInv, ExecuteFault
    PROVE  UInv'
  <1>1. /\ pc = "idle"
        /\ \/ upc \in {"u_save", "u_begin", "u_drop", "u_wait", "u_mark_schema", "u_commit",
                "u_remove"}
              /\ upc' = "done" /\ result' \in {"failed", "error"}
           \/ upc = "u_publishing" /\ upc' = "u_drop" /\ result' = result
           \/ upc = "u_schema" /\ upc' = "b_schema" /\ result' = result
        /\ UNCHANGED <<vars, tx, schema, saved, upd, done>>
        /\ cost' \subseteq UpdateCosts \cup {"withdrawn"}
    BY CostSpent DEF UInv, UTypeOK, ExecuteFault, Step, HasControl, Conclude, journals
  <1>2. IInv'
    BY <1>1, StutterIInv DEF UInv
  <1>3. UTypeOK'
    BY <1>1, <1>2, UpdFields, MaxOpsAssumption
       DEF UInv, UTypeOK, IInv, TypeOK, Control, Numbers, Away, ExecuteSteps, UndoTxSteps,
           ResumeSteps, UpdateSteps, Upds, Modes, Results, Ops, Trees, NoTree
  <1>4. Control'
    BY <1>1, <1>2, UpdFields, MaxOpsAssumption
       DEF UInv, UTypeOK, IInv, TypeOK, Control, HasControl, NoJournal, StateFollowsStep,
           Numbers, SchemaFollowsJournal, Away, ExecuteSteps, UndoTxSteps, ResumeSteps, Ops,
           NoTree, NoUpd, vars
  <1>5. Numbers'
    BY <1>1, <1>2, UpdFields, MaxOpsAssumption
       DEF UInv, UTypeOK, IInv, TypeOK, Control, Numbers, NoJournal, StateFollowsStep,
           SchemaFollowsJournal, Away, ExecuteSteps, UndoTxSteps, ResumeSteps, Ops, NoTree,
           NoUpd, vars
  <1>6. StateFollowsStep'
    BY <1>1, <1>2, UpdFields, MaxOpsAssumption
       DEF UInv, UTypeOK, IInv, TypeOK, Control, StateFollowsStep, NoJournal, Numbers,
           SchemaFollowsJournal, Away, ExecuteSteps, UndoTxSteps, ResumeSteps, Ops, NoTree,
           NoUpd, vars
  <1>7. SchemaFollowsJournal'
    BY <1>1, <1>2, UpdFields, MaxOpsAssumption
       DEF UInv, UTypeOK, IInv, TypeOK, Control, SchemaFollowsJournal, NoJournal,
           StateFollowsStep, Numbers, Away, ExecuteSteps, UndoTxSteps, ResumeSteps, Ops,
           NoTree, NoUpd, vars
  <1>8. BeforeFollowsStep'
    BY <1>1, <1>2, UpdFields, MaxOpsAssumption
       DEF UInv, UTypeOK, IInv, TypeOK, Control, BeforeFollowsStep, NoJournal,
           StateFollowsStep, Numbers, SchemaFollowsJournal, Away, ExecuteSteps, UndoTxSteps,
           ResumeSteps, Ops, NoTree, NoUpd, vars
  <1>9. Compensated'
    BY <1>1, <1>2, UpdFields, MaxOpsAssumption
       DEF UInv, UTypeOK, IInv, TypeOK, Control, Compensated, NoJournal, StateFollowsStep,
           Numbers, SchemaFollowsJournal, Away, ExecuteSteps, UndoTxSteps, ResumeSteps, Ops,
           NoTree, NoUpd, vars
  <1>10. QED
    BY <1>2, <1>3, <1>4, <1>5, <1>6, <1>7, <1>8, <1>9 DEF UInv

\* CallRollback keeps the invariant.
LEMMA CallRollbackPreserves ==
    ASSUME UInv, CallRollback
    PROVE  UInv'
  <1>1. /\ pc = "idle"
        /\ upc = "b_slot"
        /\ tx[upd.n].snapshot
        /\ upc' = "b_wait"
        /\ clock' = clock + 1 /\ clock < MaxOps
        /\ call'.op = "rollback" /\ call'.id = clock + 1 /\ IsLatest(call'.latest)
        /\ pc' \in {"r_snapshot", "r_restore"}
        /\ outcome' = "none"
        /\ UNCHANGED <<slot, snap, tx, schema, saved, upd, result, done>>
        /\ cost' \subseteq UpdateCosts \cup {"withdrawn"}
    BY DEF UInv, UTypeOK, CallRollback, RollbackStart, TakeNewest, dirs, journals, NoCall,
           UpdateCosts
  <1>2. IInv'
    BY EnvironmentIInv DEF UInv, CallRollback, Environment
  <1>3. UTypeOK'
    BY <1>1, <1>2, UpdFields, MaxOpsAssumption
       DEF UInv, UTypeOK, IInv, TypeOK, Control, Numbers, Away, ExecuteSteps, UndoTxSteps,
           ResumeSteps, UpdateSteps, Upds, Modes, Results, Ops, Trees, NoTree
  <1>4. Control'
    BY <1>1, <1>2, UpdFields, MaxOpsAssumption
       DEF UInv, UTypeOK, IInv, TypeOK, Control, HasControl, NoJournal, StateFollowsStep,
           Numbers, SchemaFollowsJournal, Away, ExecuteSteps, UndoTxSteps, ResumeSteps, Ops,
           NoTree, NoUpd, vars
  <1>5. Numbers'
    BY <1>1, <1>2, UpdFields, MaxOpsAssumption
       DEF UInv, UTypeOK, IInv, TypeOK, Control, Numbers, NoJournal, StateFollowsStep,
           SchemaFollowsJournal, Away, ExecuteSteps, UndoTxSteps, ResumeSteps, Ops, NoTree,
           NoUpd, vars
  <1>6. StateFollowsStep'
    BY <1>1, <1>2, UpdFields, MaxOpsAssumption
       DEF UInv, UTypeOK, IInv, TypeOK, Control, StateFollowsStep, NoJournal, Numbers,
           SchemaFollowsJournal, Away, ExecuteSteps, UndoTxSteps, ResumeSteps, Ops, NoTree,
           NoUpd, vars
  <1>7. SchemaFollowsJournal'
    BY <1>1, <1>2, UpdFields, MaxOpsAssumption
       DEF UInv, UTypeOK, IInv, TypeOK, Control, SchemaFollowsJournal, NoJournal,
           StateFollowsStep, Numbers, Away, ExecuteSteps, UndoTxSteps, ResumeSteps, Ops,
           NoTree, NoUpd, vars
  <1>8. BeforeFollowsStep'
    <2>1. ASSUME upd.mode = "execute"
          PROVE  call'.latest = upd.n /\ call'.id # upd.n /\ snap[upd.n] = upd.before
      <3>1. /\ upd.n \in Ops /\ clock = upd.n
            /\ snap[upd.n] = upd.before /\ upd.before # NoTree
        BY <1>1, <2>1 DEF UInv, Control, UndoTxSteps, BeforeFollowsStep
      <3>2. \A n \in Snapshots : n <= upd.n
        BY <3>1, MaxOpsAssumption DEF UInv, IInv, NumbersAreFresh, Snapshots, Ops
      <3>3. call'.latest \in Snapshots /\ upd.n <= call'.latest
        BY <1>1, <3>1 DEF IsLatest, Snapshots
      <3>4. call'.latest = upd.n
        BY <3>1, <3>2, <3>3, MaxOpsAssumption DEF Snapshots, Ops
      <3>5. QED
        BY <1>1, <3>1, <3>4
    <2>2. QED
      BY <1>1, <2>1 DEF BeforeFollowsStep
  <1>9. Compensated'
    BY <1>1, <1>2, UpdFields, MaxOpsAssumption
       DEF UInv, UTypeOK, IInv, TypeOK, Control, Compensated, NoJournal, StateFollowsStep,
           Numbers, SchemaFollowsJournal, Away, ExecuteSteps, UndoTxSteps, ResumeSteps, Ops,
           NoTree, NoUpd, vars
  <1>10. QED
    BY <1>2, <1>3, <1>4, <1>5, <1>6, <1>7, <1>8, <1>9 DEF UInv

\* RollbackReturned keeps the invariant.
LEMMA RollbackReturnedPreserves ==
    ASSUME UInv, RollbackReturned
    PROVE  UInv'
  <1>1. /\ pc = "idle"
        /\ upc = "b_wait"
        /\ result' = result
        /\ (outcome = "rolled_back" /\ upc' = "b_remove") \/ upc' = "b_block"
        /\ UNCHANGED <<vars, tx, schema, saved, upd, done>>
        /\ cost' \subseteq UpdateCosts \cup {"withdrawn"}
    BY DEF UInv, UTypeOK, RollbackReturned, Step, HasControl, journals
  <1>2. IInv'
    BY <1>1, StutterIInv DEF UInv
  <1>3. UTypeOK'
    BY <1>1, <1>2, UpdFields, MaxOpsAssumption
       DEF UInv, UTypeOK, IInv, TypeOK, Control, Numbers, Away, ExecuteSteps, UndoTxSteps,
           ResumeSteps, UpdateSteps, Upds, Modes, Results, Ops, Trees, NoTree
  <1>4. Control'
    BY <1>1, <1>2, UpdFields, MaxOpsAssumption
       DEF UInv, UTypeOK, IInv, TypeOK, Control, HasControl, NoJournal, StateFollowsStep,
           Numbers, SchemaFollowsJournal, Away, ExecuteSteps, UndoTxSteps, ResumeSteps, Ops,
           NoTree, NoUpd, vars
  <1>5. Numbers'
    BY <1>1, <1>2, UpdFields, MaxOpsAssumption
       DEF UInv, UTypeOK, IInv, TypeOK, Control, Numbers, NoJournal, StateFollowsStep,
           SchemaFollowsJournal, Away, ExecuteSteps, UndoTxSteps, ResumeSteps, Ops, NoTree,
           NoUpd, vars
  <1>6. StateFollowsStep'
    BY <1>1, <1>2, UpdFields, MaxOpsAssumption
       DEF UInv, UTypeOK, IInv, TypeOK, Control, StateFollowsStep, NoJournal, Numbers,
           SchemaFollowsJournal, Away, ExecuteSteps, UndoTxSteps, ResumeSteps, Ops, NoTree,
           NoUpd, vars
  <1>7. SchemaFollowsJournal'
    BY <1>1, <1>2, UpdFields, MaxOpsAssumption
       DEF UInv, UTypeOK, IInv, TypeOK, Control, SchemaFollowsJournal, NoJournal,
           StateFollowsStep, Numbers, Away, ExecuteSteps, UndoTxSteps, ResumeSteps, Ops,
           NoTree, NoUpd, vars
  <1>8. BeforeFollowsStep'
    BY <1>1, <1>2, UpdFields, MaxOpsAssumption
       DEF UInv, UTypeOK, IInv, TypeOK, Control, BeforeFollowsStep, NoJournal,
           StateFollowsStep, Numbers, SchemaFollowsJournal, Away, ExecuteSteps, UndoTxSteps,
           ResumeSteps, Ops, NoTree, NoUpd, vars
  <1>9. Compensated'
    BY <1>1, <1>2, UpdFields, MaxOpsAssumption
       DEF UInv, UTypeOK, IInv, TypeOK, Control, Compensated, NoJournal, StateFollowsStep,
           Numbers, SchemaFollowsJournal, Away, ExecuteSteps, UndoTxSteps, ResumeSteps, Ops,
           NoTree, NoUpd, vars
  <1>10. QED
    BY <1>2, <1>3, <1>4, <1>5, <1>6, <1>7, <1>8, <1>9 DEF UInv

\* RemoveSkill keeps the invariant.
LEMMA RemoveSkillPreserves ==
    ASSUME UInv, RemoveSkill
    PROVE  UInv'
  <1>1. /\ pc = "idle"
        /\ upc = "b_slot"
        /\ upc' = "b_remove"
        /\ result' = result
        /\ ~tx[upd.n].snapshot
        /\ slot' = NoTree
        /\ UNCHANGED <<snap, staging, displaced, records, clock, pc, call, outcome, history>>
        /\ UNCHANGED <<tx, schema, saved, upd, done, cost>>
    BY DEF UInv, UTypeOK, RemoveSkill, Step, HasControl, journals, uhistory
  <1>2. IInv'
    BY <1>1, SlotChangeIInv, MaxOpsAssumption DEF UInv, IInv, TypeOK, Trees, NoTree
  <1>3. UTypeOK'
    BY <1>1, <1>2, UpdFields, MaxOpsAssumption
       DEF UInv, UTypeOK, IInv, TypeOK, Control, Numbers, Away, ExecuteSteps, UndoTxSteps,
           ResumeSteps, UpdateSteps, Upds, Modes, Results, Ops, Trees, NoTree
  <1>4. Control'
    BY <1>1, <1>2, UpdFields, MaxOpsAssumption
       DEF UInv, UTypeOK, IInv, TypeOK, Control, HasControl, NoJournal, StateFollowsStep,
           Numbers, SchemaFollowsJournal, Away, ExecuteSteps, UndoTxSteps, ResumeSteps, Ops,
           NoTree, NoUpd, vars
  <1>5. Numbers'
    BY <1>1, <1>2, UpdFields, MaxOpsAssumption
       DEF UInv, UTypeOK, IInv, TypeOK, Control, Numbers, NoJournal, StateFollowsStep,
           SchemaFollowsJournal, Away, ExecuteSteps, UndoTxSteps, ResumeSteps, Ops, NoTree,
           NoUpd, vars
  <1>6. StateFollowsStep'
    BY <1>1, <1>2, UpdFields, MaxOpsAssumption
       DEF UInv, UTypeOK, IInv, TypeOK, Control, StateFollowsStep, NoJournal, Numbers,
           SchemaFollowsJournal, Away, ExecuteSteps, UndoTxSteps, ResumeSteps, Ops, NoTree,
           NoUpd, vars
  <1>7. SchemaFollowsJournal'
    BY <1>1, <1>2, UpdFields, MaxOpsAssumption
       DEF UInv, UTypeOK, IInv, TypeOK, Control, SchemaFollowsJournal, NoJournal,
           StateFollowsStep, Numbers, Away, ExecuteSteps, UndoTxSteps, ResumeSteps, Ops,
           NoTree, NoUpd, vars
  <1>8. BeforeFollowsStep'
    BY <1>1, <1>2, UpdFields, MaxOpsAssumption
       DEF UInv, UTypeOK, IInv, TypeOK, Control, BeforeFollowsStep, NoJournal,
           StateFollowsStep, Numbers, SchemaFollowsJournal, Away, ExecuteSteps, UndoTxSteps,
           ResumeSteps, Ops, NoTree, NoUpd, vars
  <1>9. Compensated'
    BY <1>1, <1>2, UpdFields, MaxOpsAssumption
       DEF UInv, UTypeOK, IInv, TypeOK, Control, Compensated, NoJournal, StateFollowsStep,
           Numbers, SchemaFollowsJournal, Away, ExecuteSteps, UndoTxSteps, ResumeSteps, Ops,
           NoTree, NoUpd, vars
  <1>10. QED
    BY <1>2, <1>3, <1>4, <1>5, <1>6, <1>7, <1>8, <1>9 DEF UInv

\* FinishRollback keeps the invariant.
LEMMA FinishRollbackPreserves ==
    ASSUME UInv, FinishRollback
    PROVE  UInv'
  <1>0. upd.n \in Ops
    BY DEF UInv, Control, FinishRollback, Step, Conclude, UndoTxSteps
  <1>1. /\ pc = "idle"
        /\ upc = "b_remove"
        /\ \/ upd.mode = "execute" /\ upc' = "done" /\ result' = "compensated"
           \/ upd.mode = "recover" /\ upc' = "u_recover" /\ result' = result
        /\ tx'[upd.n].state = "none"
        /\ \A m \in Ops : m # upd.n => tx'[m] = tx[m]
        /\ tx' \in [Ops -> Txs]
        /\ UNCHANGED <<vars, schema, saved, upd, done, cost>>
    BY <1>0, JournalRemoved
       DEF UInv, UTypeOK, FinishRollback, Step, HasControl, Conclude, uhistory
  <1>2. IInv'
    BY <1>1, StutterIInv DEF UInv
  <1>3. UTypeOK'
    BY <1>1, <1>2, UpdFields, MaxOpsAssumption
       DEF UInv, UTypeOK, IInv, TypeOK, Control, Numbers, Away, ExecuteSteps, UndoTxSteps,
           ResumeSteps, UpdateSteps, Upds, Modes, Results, Ops, Trees, NoTree
  <1>4. Control'
    BY <1>1, <1>2, UpdFields, MaxOpsAssumption
       DEF UInv, UTypeOK, IInv, TypeOK, Control, HasControl, NoJournal, StateFollowsStep,
           Numbers, SchemaFollowsJournal, Away, ExecuteSteps, UndoTxSteps, ResumeSteps, Ops,
           NoTree, NoUpd, vars
  <1>5. Numbers'
    BY <1>1, <1>2, UpdFields, MaxOpsAssumption
       DEF UInv, UTypeOK, IInv, TypeOK, Control, Numbers, NoJournal, StateFollowsStep,
           SchemaFollowsJournal, Away, ExecuteSteps, UndoTxSteps, ResumeSteps, Ops, NoTree,
           NoUpd, vars
  <1>6. StateFollowsStep'
    BY <1>1, <1>2, UpdFields, MaxOpsAssumption
       DEF UInv, UTypeOK, IInv, TypeOK, Control, StateFollowsStep, NoJournal, Numbers,
           SchemaFollowsJournal, Away, ExecuteSteps, UndoTxSteps, ResumeSteps, Ops, NoTree,
           NoUpd, vars
  <1>7. SchemaFollowsJournal'
    BY <1>1, <1>2, UpdFields, MaxOpsAssumption
       DEF UInv, UTypeOK, IInv, TypeOK, Control, SchemaFollowsJournal, NoJournal,
           StateFollowsStep, Numbers, Away, ExecuteSteps, UndoTxSteps, ResumeSteps, Ops,
           NoTree, NoUpd, vars
  <1>8. BeforeFollowsStep'
    BY <1>1, <1>2, UpdFields, MaxOpsAssumption
       DEF UInv, UTypeOK, IInv, TypeOK, Control, BeforeFollowsStep, NoJournal,
           StateFollowsStep, Numbers, SchemaFollowsJournal, Away, ExecuteSteps, UndoTxSteps,
           ResumeSteps, Ops, NoTree, NoUpd, vars
  <1>9. Compensated'
    <2>1. schema = saved[upd.n]
      BY <1>0, <1>1 DEF UInv, StateFollowsStep, SchemaFollowsJournal, UndoTxSteps
    <2>2. upd.mode = "execute" => slot = upd.before
      BY <1>1 DEF UInv, BeforeFollowsStep
    <2>3. result # "compensated"
      BY <1>1 DEF UInv, Compensated
    <2>4. QED
      BY <1>1, <2>1, <2>2, <2>3 DEF Compensated, vars
  <1>10. QED
    BY <1>2, <1>3, <1>4, <1>5, <1>6, <1>7, <1>8, <1>9 DEF UInv

\* UndoTxFault keeps the invariant.
LEMMA UndoTxFaultPreserves ==
    ASSUME UInv, UndoTxFault
    PROVE  UInv'
  <1>1. /\ pc = "idle"
        /\ upc \in {"b_schema", "b_slot", "b_remove"}
        /\ upc' = "b_block"
        /\ result' = result
        /\ UNCHANGED <<vars, tx, schema, saved, upd, done>>
        /\ cost' \subseteq UpdateCosts \cup {"withdrawn"}
    BY CostSpent DEF UInv, UTypeOK, UndoTxFault, Step, HasControl, journals
  <1>2. IInv'
    BY <1>1, StutterIInv DEF UInv
  <1>3. UTypeOK'
    BY <1>1, <1>2, UpdFields, MaxOpsAssumption
       DEF UInv, UTypeOK, IInv, TypeOK, Control, Numbers, Away, ExecuteSteps, UndoTxSteps,
           ResumeSteps, UpdateSteps, Upds, Modes, Results, Ops, Trees, NoTree
  <1>4. Control'
    BY <1>1, <1>2, UpdFields, MaxOpsAssumption
       DEF UInv, UTypeOK, IInv, TypeOK, Control, HasControl, NoJournal, StateFollowsStep,
           Numbers, SchemaFollowsJournal, Away, ExecuteSteps, UndoTxSteps, ResumeSteps, Ops,
           NoTree, NoUpd, vars
  <1>5. Numbers'
    BY <1>1, <1>2, UpdFields, MaxOpsAssumption
       DEF UInv, UTypeOK, IInv, TypeOK, Control, Numbers, NoJournal, StateFollowsStep,
           SchemaFollowsJournal, Away, ExecuteSteps, UndoTxSteps, ResumeSteps, Ops, NoTree,
           NoUpd, vars
  <1>6. StateFollowsStep'
    BY <1>1, <1>2, UpdFields, MaxOpsAssumption
       DEF UInv, UTypeOK, IInv, TypeOK, Control, StateFollowsStep, NoJournal, Numbers,
           SchemaFollowsJournal, Away, ExecuteSteps, UndoTxSteps, ResumeSteps, Ops, NoTree,
           NoUpd, vars
  <1>7. SchemaFollowsJournal'
    BY <1>1, <1>2, UpdFields, MaxOpsAssumption
       DEF UInv, UTypeOK, IInv, TypeOK, Control, SchemaFollowsJournal, NoJournal,
           StateFollowsStep, Numbers, Away, ExecuteSteps, UndoTxSteps, ResumeSteps, Ops,
           NoTree, NoUpd, vars
  <1>8. BeforeFollowsStep'
    BY <1>1, <1>2, UpdFields, MaxOpsAssumption
       DEF UInv, UTypeOK, IInv, TypeOK, Control, BeforeFollowsStep, NoJournal,
           StateFollowsStep, Numbers, SchemaFollowsJournal, Away, ExecuteSteps, UndoTxSteps,
           ResumeSteps, Ops, NoTree, NoUpd, vars
  <1>9. Compensated'
    BY <1>1, <1>2, UpdFields, MaxOpsAssumption
       DEF UInv, UTypeOK, IInv, TypeOK, Control, Compensated, NoJournal, StateFollowsStep,
           Numbers, SchemaFollowsJournal, Away, ExecuteSteps, UndoTxSteps, ResumeSteps, Ops,
           NoTree, NoUpd, vars
  <1>10. QED
    BY <1>2, <1>3, <1>4, <1>5, <1>6, <1>7, <1>8, <1>9 DEF UInv

\* BlockTransaction keeps the invariant.
LEMMA BlockTransactionPreserves ==
    ASSUME UInv, BlockTransaction
    PROVE  UInv'
  <1>0. upd.n \in Ops /\ "rollback_required" \in TxStates
    BY DEF UInv, Control, BlockTransaction, Conclude, Refuse, UndoTxSteps, TxStates
  <1>1. /\ pc = "idle"
        /\ upc = "b_block"
        /\ result' = "blocked"
        /\ \/ upc' = "done" /\ UNCHANGED vars
           \/ /\ upc' = "down" /\ pc' = "down" /\ call' = NoCall /\ outcome' = "none"
              /\ UNCHANGED <<dirs, records, clock, history>>
        /\ UNCHANGED <<slot, snap, clock>>
        /\ \/ tx' = tx
           \/ tx'[upd.n].state = "rollback_required"
        /\ \A m \in Ops : m # upd.n => tx'[m] = tx[m]
        /\ tx' \in [Ops -> Txs]
        /\ UNCHANGED <<schema, saved, upd, done>>
        /\ cost' \subseteq UpdateCosts \cup {"withdrawn"}
    BY <1>0, StateWritten, CostSpent
       DEF UInv, UTypeOK, BlockTransaction, Step, HasControl, Conclude, Refuse, vars, dirs
  <1>2. IInv'
    BY <1>1, StutterIInv, DownIInv DEF UInv
  <1>3. UTypeOK'
    BY <1>1, <1>2, UpdFields, MaxOpsAssumption
       DEF UInv, UTypeOK, IInv, TypeOK, Control, Numbers, Away, ExecuteSteps, UndoTxSteps,
           ResumeSteps, UpdateSteps, Upds, Modes, Results, Ops, Trees, NoTree
  <1>4. Control'
    BY <1>1, <1>2, UpdFields, MaxOpsAssumption
       DEF UInv, UTypeOK, IInv, TypeOK, Control, HasControl, NoJournal, StateFollowsStep,
           Numbers, SchemaFollowsJournal, Away, ExecuteSteps, UndoTxSteps, ResumeSteps, Ops,
           NoTree, NoUpd, vars
  <1>5. Numbers'
    BY <1>1, <1>2, UpdFields, MaxOpsAssumption
       DEF UInv, UTypeOK, IInv, TypeOK, Control, Numbers, NoJournal, StateFollowsStep,
           SchemaFollowsJournal, Away, ExecuteSteps, UndoTxSteps, ResumeSteps, Ops, NoTree,
           NoUpd, vars
  <1>6. StateFollowsStep'
    BY <1>1, <1>2, UpdFields, MaxOpsAssumption
       DEF UInv, UTypeOK, IInv, TypeOK, Control, StateFollowsStep, NoJournal, Numbers,
           SchemaFollowsJournal, Away, ExecuteSteps, UndoTxSteps, ResumeSteps, Ops, NoTree,
           NoUpd, vars
  <1>7. SchemaFollowsJournal'
    BY <1>1, <1>2, UpdFields, MaxOpsAssumption
       DEF UInv, UTypeOK, IInv, TypeOK, Control, SchemaFollowsJournal, NoJournal,
           StateFollowsStep, Numbers, Away, ExecuteSteps, UndoTxSteps, ResumeSteps, Ops,
           NoTree, NoUpd, vars
  <1>8. BeforeFollowsStep'
    BY <1>1, <1>2, UpdFields, MaxOpsAssumption
       DEF UInv, UTypeOK, IInv, TypeOK, Control, BeforeFollowsStep, NoJournal,
           StateFollowsStep, Numbers, SchemaFollowsJournal, Away, ExecuteSteps, UndoTxSteps,
           ResumeSteps, Ops, NoTree, NoUpd, vars
  <1>9. Compensated'
    BY <1>1, <1>2, UpdFields, MaxOpsAssumption
       DEF UInv, UTypeOK, IInv, TypeOK, Control, Compensated, NoJournal, StateFollowsStep,
           Numbers, SchemaFollowsJournal, Away, ExecuteSteps, UndoTxSteps, ResumeSteps, Ops,
           NoTree, NoUpd, vars
  <1>10. QED
    BY <1>2, <1>3, <1>4, <1>5, <1>6, <1>7, <1>8, <1>9 DEF UInv

\* ResumeRefuse keeps the invariant.
LEMMA ResumeRefusePreserves ==
    ASSUME UInv, NEW n \in Ops, ResumeRefuse(n)
    PROVE  UInv'
  <1>1. /\ pc = "idle"
        /\ upc = "u_recover"
        /\ upc' = "down"
        /\ result' = "blocked"
        /\ pc' = "down"
        /\ call' = NoCall
        /\ outcome' = "none"
        /\ UNCHANGED <<dirs, records, clock, history>>
        /\ UNCHANGED <<slot, snap, clock>>
        /\ UNCHANGED <<tx, schema, saved, upd, done, cost>>
    BY DEF UInv, UTypeOK, ResumeRefuse, Step, HasControl, Refuse, journals, uhistory, dirs
  <1>2. IInv'
    BY <1>1, DownIInv DEF UInv
  <1>3. UTypeOK'
    BY <1>1, <1>2, UpdFields, MaxOpsAssumption
       DEF UInv, UTypeOK, IInv, TypeOK, Control, Numbers, Away, ExecuteSteps, UndoTxSteps,
           ResumeSteps, UpdateSteps, Upds, Modes, Results, Ops, Trees, NoTree
  <1>4. Control'
    BY <1>1, <1>2, UpdFields, MaxOpsAssumption
       DEF UInv, UTypeOK, IInv, TypeOK, Control, HasControl, NoJournal, StateFollowsStep,
           Numbers, SchemaFollowsJournal, Away, ExecuteSteps, UndoTxSteps, ResumeSteps, Ops,
           NoTree, NoUpd, vars
  <1>5. Numbers'
    BY <1>1, <1>2, UpdFields, MaxOpsAssumption
       DEF UInv, UTypeOK, IInv, TypeOK, Control, Numbers, NoJournal, StateFollowsStep,
           SchemaFollowsJournal, Away, ExecuteSteps, UndoTxSteps, ResumeSteps, Ops, NoTree,
           NoUpd, vars
  <1>6. StateFollowsStep'
    BY <1>1, <1>2, UpdFields, MaxOpsAssumption
       DEF UInv, UTypeOK, IInv, TypeOK, Control, StateFollowsStep, NoJournal, Numbers,
           SchemaFollowsJournal, Away, ExecuteSteps, UndoTxSteps, ResumeSteps, Ops, NoTree,
           NoUpd, vars
  <1>7. SchemaFollowsJournal'
    BY <1>1, <1>2, UpdFields, MaxOpsAssumption
       DEF UInv, UTypeOK, IInv, TypeOK, Control, SchemaFollowsJournal, NoJournal,
           StateFollowsStep, Numbers, Away, ExecuteSteps, UndoTxSteps, ResumeSteps, Ops,
           NoTree, NoUpd, vars
  <1>8. BeforeFollowsStep'
    BY <1>1, <1>2, UpdFields, MaxOpsAssumption
       DEF UInv, UTypeOK, IInv, TypeOK, Control, BeforeFollowsStep, NoJournal,
           StateFollowsStep, Numbers, SchemaFollowsJournal, Away, ExecuteSteps, UndoTxSteps,
           ResumeSteps, Ops, NoTree, NoUpd, vars
  <1>9. Compensated'
    BY <1>1, <1>2, UpdFields, MaxOpsAssumption
       DEF UInv, UTypeOK, IInv, TypeOK, Control, Compensated, NoJournal, StateFollowsStep,
           Numbers, SchemaFollowsJournal, Away, ExecuteSteps, UndoTxSteps, ResumeSteps, Ops,
           NoTree, NoUpd, vars
  <1>10. QED
    BY <1>2, <1>3, <1>4, <1>5, <1>6, <1>7, <1>8, <1>9 DEF UInv

\* ResumeFault keeps the invariant.
LEMMA ResumeFaultPreserves ==
    ASSUME UInv, ResumeFault
    PROVE  UInv'
  <1>1. /\ pc = "idle"
        /\ upc \in {"v_commit", "v_remove"}
        /\ upc' = "down"
        /\ result' = "error"
        /\ pc' = "down"
        /\ call' = NoCall
        /\ outcome' = "none"
        /\ UNCHANGED <<dirs, records, clock, history>>
        /\ UNCHANGED <<slot, snap, clock>>
        /\ UNCHANGED <<tx, schema, saved, upd, done>>
        /\ cost' \subseteq UpdateCosts \cup {"withdrawn"}
    BY CostSpent DEF UInv, UTypeOK, ResumeFault, Step, HasControl, Refuse, journals, dirs
  <1>2. IInv'
    BY <1>1, DownIInv DEF UInv
  <1>3. UTypeOK'
    BY <1>1, <1>2, UpdFields, MaxOpsAssumption
       DEF UInv, UTypeOK, IInv, TypeOK, Control, Numbers, Away, ExecuteSteps, UndoTxSteps,
           ResumeSteps, UpdateSteps, Upds, Modes, Results, Ops, Trees, NoTree
  <1>4. Control'
    BY <1>1, <1>2, UpdFields, MaxOpsAssumption
       DEF UInv, UTypeOK, IInv, TypeOK, Control, HasControl, NoJournal, StateFollowsStep,
           Numbers, SchemaFollowsJournal, Away, ExecuteSteps, UndoTxSteps, ResumeSteps, Ops,
           NoTree, NoUpd, vars
  <1>5. Numbers'
    BY <1>1, <1>2, UpdFields, MaxOpsAssumption
       DEF UInv, UTypeOK, IInv, TypeOK, Control, Numbers, NoJournal, StateFollowsStep,
           SchemaFollowsJournal, Away, ExecuteSteps, UndoTxSteps, ResumeSteps, Ops, NoTree,
           NoUpd, vars
  <1>6. StateFollowsStep'
    BY <1>1, <1>2, UpdFields, MaxOpsAssumption
       DEF UInv, UTypeOK, IInv, TypeOK, Control, StateFollowsStep, NoJournal, Numbers,
           SchemaFollowsJournal, Away, ExecuteSteps, UndoTxSteps, ResumeSteps, Ops, NoTree,
           NoUpd, vars
  <1>7. SchemaFollowsJournal'
    BY <1>1, <1>2, UpdFields, MaxOpsAssumption
       DEF UInv, UTypeOK, IInv, TypeOK, Control, SchemaFollowsJournal, NoJournal,
           StateFollowsStep, Numbers, Away, ExecuteSteps, UndoTxSteps, ResumeSteps, Ops,
           NoTree, NoUpd, vars
  <1>8. BeforeFollowsStep'
    BY <1>1, <1>2, UpdFields, MaxOpsAssumption
       DEF UInv, UTypeOK, IInv, TypeOK, Control, BeforeFollowsStep, NoJournal,
           StateFollowsStep, Numbers, SchemaFollowsJournal, Away, ExecuteSteps, UndoTxSteps,
           ResumeSteps, Ops, NoTree, NoUpd, vars
  <1>9. Compensated'
    BY <1>1, <1>2, UpdFields, MaxOpsAssumption
       DEF UInv, UTypeOK, IInv, TypeOK, Control, Compensated, NoJournal, StateFollowsStep,
           Numbers, SchemaFollowsJournal, Away, ExecuteSteps, UndoTxSteps, ResumeSteps, Ops,
           NoTree, NoUpd, vars
  <1>10. QED
    BY <1>2, <1>3, <1>4, <1>5, <1>6, <1>7, <1>8, <1>9 DEF UInv

\* RollbackCommand keeps the invariant.
LEMMA RollbackCommandPreserves ==
    ASSUME UInv, RollbackCommand
    PROVE  UInv'
  <1>1. /\ pc = "idle"
        /\ upc = "ready"
        /\ upc' = "m_wait"
        /\ clock' = clock + 1 /\ clock < MaxOps
        /\ call'.op = "rollback"
        /\ pc' \in {"r_snapshot", "r_restore"}
        /\ UNCHANGED <<slot, snap, tx, schema, saved, upd, result, done>>
        /\ cost' \subseteq UpdateCosts \cup {"withdrawn"}
    BY DEF UInv, UTypeOK, RollbackCommand, RollbackStart, TakeNewest, dirs, journals, NoCall,
           UpdateCosts
  <1>2. IInv'
    BY EnvironmentIInv DEF UInv, RollbackCommand, Environment
  <1>3. UTypeOK'
    BY <1>1, <1>2, UpdFields, MaxOpsAssumption
       DEF UInv, UTypeOK, IInv, TypeOK, Control, Numbers, Away, ExecuteSteps, UndoTxSteps,
           ResumeSteps, UpdateSteps, Upds, Modes, Results, Ops, Trees, NoTree
  <1>4. Control'
    BY <1>1, <1>2, UpdFields, MaxOpsAssumption
       DEF UInv, UTypeOK, IInv, TypeOK, Control, HasControl, NoJournal, StateFollowsStep,
           Numbers, SchemaFollowsJournal, Away, ExecuteSteps, UndoTxSteps, ResumeSteps, Ops,
           NoTree, NoUpd, vars
  <1>5. Numbers'
    BY <1>1, <1>2, UpdFields, MaxOpsAssumption
       DEF UInv, UTypeOK, IInv, TypeOK, Control, Numbers, NoJournal, StateFollowsStep,
           SchemaFollowsJournal, Away, ExecuteSteps, UndoTxSteps, ResumeSteps, Ops, NoTree,
           NoUpd, vars
  <1>6. StateFollowsStep'
    BY <1>1, <1>2, UpdFields, MaxOpsAssumption
       DEF UInv, UTypeOK, IInv, TypeOK, Control, StateFollowsStep, NoJournal, Numbers,
           SchemaFollowsJournal, Away, ExecuteSteps, UndoTxSteps, ResumeSteps, Ops, NoTree,
           NoUpd, vars
  <1>7. SchemaFollowsJournal'
    BY <1>1, <1>2, UpdFields, MaxOpsAssumption
       DEF UInv, UTypeOK, IInv, TypeOK, Control, SchemaFollowsJournal, NoJournal,
           StateFollowsStep, Numbers, Away, ExecuteSteps, UndoTxSteps, ResumeSteps, Ops,
           NoTree, NoUpd, vars
  <1>8. BeforeFollowsStep'
    BY <1>1, <1>2, UpdFields, MaxOpsAssumption
       DEF UInv, UTypeOK, IInv, TypeOK, Control, BeforeFollowsStep, NoJournal,
           StateFollowsStep, Numbers, SchemaFollowsJournal, Away, ExecuteSteps, UndoTxSteps,
           ResumeSteps, Ops, NoTree, NoUpd, vars
  <1>9. Compensated'
    BY <1>1, <1>2, UpdFields, MaxOpsAssumption
       DEF UInv, UTypeOK, IInv, TypeOK, Control, Compensated, NoJournal, StateFollowsStep,
           Numbers, SchemaFollowsJournal, Away, ExecuteSteps, UndoTxSteps, ResumeSteps, Ops,
           NoTree, NoUpd, vars
  <1>10. QED
    BY <1>2, <1>3, <1>4, <1>5, <1>6, <1>7, <1>8, <1>9 DEF UInv

\* UpdateProcessStart keeps the invariant.
LEMMA UpdateProcessStartPreserves ==
    ASSUME UInv, UpdateProcessStart
    PROVE  UInv'
  <1>1. /\ pc = "down"
        /\ upc = "down"
        /\ upc' = "start"
        /\ result' = "none"
        /\ upd' = NoUpd
        /\ pc' = "recover"
        /\ UNCHANGED <<slot, snap, clock, tx, schema, saved, done, cost>>
    BY DEF UInv, UTypeOK, UpdateProcessStart, Start, dirs, journals, uhistory
  <1>2. IInv'
    BY EnvironmentIInv DEF UInv, UpdateProcessStart, Environment
  <1>3. UTypeOK'
    <2>1. upd' \in Upds
      BY <1>1, NoUpdType, MaxOpsAssumption DEF Ops, Trees
      <2>2. QED
        BY <2>1, <1>1, <1>2, UpdFields, MaxOpsAssumption
           DEF UInv, UTypeOK, IInv, TypeOK, Control, Numbers, Away, ExecuteSteps, UndoTxSteps,
               ResumeSteps, UpdateSteps, Modes, Results, Ops, Trees, NoTree
  <1>4. Control'
    BY <1>1, <1>2, UpdFields, MaxOpsAssumption
       DEF UInv, UTypeOK, IInv, TypeOK, Control, HasControl, NoJournal, StateFollowsStep,
           Numbers, SchemaFollowsJournal, Away, ExecuteSteps, UndoTxSteps, ResumeSteps, Ops,
           NoTree, NoUpd, vars
  <1>5. Numbers'
    BY <1>1, <1>2, UpdFields, MaxOpsAssumption
       DEF UInv, UTypeOK, IInv, TypeOK, Control, Numbers, NoJournal, StateFollowsStep,
           SchemaFollowsJournal, Away, ExecuteSteps, UndoTxSteps, ResumeSteps, Ops, NoTree,
           NoUpd, vars
  <1>6. StateFollowsStep'
    BY <1>1, <1>2, UpdFields, MaxOpsAssumption
       DEF UInv, UTypeOK, IInv, TypeOK, Control, StateFollowsStep, NoJournal, Numbers,
           SchemaFollowsJournal, Away, ExecuteSteps, UndoTxSteps, ResumeSteps, Ops, NoTree,
           NoUpd, vars
  <1>7. SchemaFollowsJournal'
    BY <1>1, <1>2, UpdFields, MaxOpsAssumption
       DEF UInv, UTypeOK, IInv, TypeOK, Control, SchemaFollowsJournal, NoJournal,
           StateFollowsStep, Numbers, Away, ExecuteSteps, UndoTxSteps, ResumeSteps, Ops,
           NoTree, NoUpd, vars
  <1>8. BeforeFollowsStep'
    BY <1>1, <1>2, UpdFields, MaxOpsAssumption
       DEF UInv, UTypeOK, IInv, TypeOK, Control, BeforeFollowsStep, NoJournal,
           StateFollowsStep, Numbers, SchemaFollowsJournal, Away, ExecuteSteps, UndoTxSteps,
           ResumeSteps, Ops, NoTree, NoUpd, vars
  <1>9. Compensated'
    BY <1>1, <1>2, UpdFields, MaxOpsAssumption
       DEF UInv, UTypeOK, IInv, TypeOK, Control, Compensated, NoJournal, StateFollowsStep,
           Numbers, SchemaFollowsJournal, Away, ExecuteSteps, UndoTxSteps, ResumeSteps, Ops,
           NoTree, NoUpd, vars
  <1>10. QED
    BY <1>2, <1>3, <1>4, <1>5, <1>6, <1>7, <1>8, <1>9 DEF UInv

\* UpdateCrash keeps the invariant.
LEMMA UpdateCrashPreserves ==
    ASSUME UInv, UpdateCrash
    PROVE  UInv'
  <1>0. /\ (Crash \/ (outcome' = "crashed" /\ UNCHANGED <<dirs, records, clock, history>>))
        /\ pc' = "down" /\ call' = NoCall /\ UNCHANGED <<dirs, clock>>
    <2>1. (Crash \/ (outcome' = "crashed" /\ UNCHANGED <<dirs, records, clock, history>>))
      BY DEF UpdateCrash
    <2>2. pc' = "down" /\ call' = NoCall /\ UNCHANGED <<dirs, clock>>
      BY DEF UpdateCrash, Crash
    <2>3. QED
      BY <2>1, <2>2
  <1>1. /\ upc' = "down"
        /\ pc' = "down"
        /\ call' = NoCall
        /\ result' = "crashed"
        /\ upd' = NoUpd
        /\ Crash \/ (outcome' = "crashed" /\ UNCHANGED <<dirs, records, clock, history>>)
        /\ UNCHANGED <<slot, snap, clock, tx, schema, saved, done>>
        /\ cost' \subseteq UpdateCosts \cup {"withdrawn"}
    BY <1>0, CostSpent DEF UInv, UTypeOK, UpdateCrash, journals, dirs
  <1>2. IInv'
    BY <1>1, DownIInv, EnvironmentIInv DEF UInv, Environment
  <1>3. UTypeOK'
    <2>1. upd' \in Upds
      BY <1>1, NoUpdType, MaxOpsAssumption DEF Ops, Trees
      <2>2. QED
        BY <2>1, <1>1, <1>2, UpdFields, MaxOpsAssumption
           DEF UInv, UTypeOK, IInv, TypeOK, Control, Numbers, Away, ExecuteSteps, UndoTxSteps,
               ResumeSteps, UpdateSteps, Modes, Results, Ops, Trees, NoTree
  <1>4. Control'
    BY <1>1, <1>2, UpdFields, MaxOpsAssumption
       DEF UInv, UTypeOK, IInv, TypeOK, Control, HasControl, NoJournal, StateFollowsStep,
           Numbers, SchemaFollowsJournal, Away, ExecuteSteps, UndoTxSteps, ResumeSteps, Ops,
           NoTree, NoUpd, vars
  <1>5. Numbers'
    BY <1>1, <1>2, UpdFields, MaxOpsAssumption
       DEF UInv, UTypeOK, IInv, TypeOK, Control, Numbers, NoJournal, StateFollowsStep,
           SchemaFollowsJournal, Away, ExecuteSteps, UndoTxSteps, ResumeSteps, Ops, NoTree,
           NoUpd, vars
  <1>6. StateFollowsStep'
    BY <1>1, <1>2, UpdFields, MaxOpsAssumption
       DEF UInv, UTypeOK, IInv, TypeOK, Control, StateFollowsStep, NoJournal, Numbers,
           SchemaFollowsJournal, Away, ExecuteSteps, UndoTxSteps, ResumeSteps, Ops, NoTree,
           NoUpd, vars
  <1>7. SchemaFollowsJournal'
    BY <1>1, <1>2, UpdFields, MaxOpsAssumption
       DEF UInv, UTypeOK, IInv, TypeOK, Control, SchemaFollowsJournal, NoJournal,
           StateFollowsStep, Numbers, Away, ExecuteSteps, UndoTxSteps, ResumeSteps, Ops,
           NoTree, NoUpd, vars
  <1>8. BeforeFollowsStep'
    BY <1>1, <1>2, UpdFields, MaxOpsAssumption
       DEF UInv, UTypeOK, IInv, TypeOK, Control, BeforeFollowsStep, NoJournal,
           StateFollowsStep, Numbers, SchemaFollowsJournal, Away, ExecuteSteps, UndoTxSteps,
           ResumeSteps, Ops, NoTree, NoUpd, vars
  <1>9. Compensated'
    BY <1>1, <1>2, UpdFields, MaxOpsAssumption
       DEF UInv, UTypeOK, IInv, TypeOK, Control, Compensated, NoJournal, StateFollowsStep,
           Numbers, SchemaFollowsJournal, Away, ExecuteSteps, UndoTxSteps, ResumeSteps, Ops,
           NoTree, NoUpd, vars
  <1>10. QED
    BY <1>2, <1>3, <1>4, <1>5, <1>6, <1>7, <1>8, <1>9 DEF UInv

\* UpdateExit keeps the invariant.
LEMMA UpdateExitPreserves ==
    ASSUME UInv, UpdateExit
    PROVE  UInv'
  <1>1. /\ pc = "idle"
        /\ upc \in {"ready", "done"}
        /\ upc' = "down"
        /\ pc' = "down"
        /\ result' = "none"
        /\ upd' = NoUpd
        /\ UNCHANGED <<slot, snap, clock, tx, schema, saved, done, cost>>
    BY DEF UInv, UTypeOK, UpdateExit, Exit, dirs, journals, uhistory
  <1>2. IInv'
    BY EnvironmentIInv DEF UInv, UpdateExit, Environment
  <1>3. UTypeOK'
    <2>1. upd' \in Upds
      BY <1>1, NoUpdType, MaxOpsAssumption DEF Ops, Trees
      <2>2. QED
        BY <2>1, <1>1, <1>2, UpdFields, MaxOpsAssumption
           DEF UInv, UTypeOK, IInv, TypeOK, Control, Numbers, Away, ExecuteSteps, UndoTxSteps,
               ResumeSteps, UpdateSteps, Modes, Results, Ops, Trees, NoTree
  <1>4. Control'
    BY <1>1, <1>2, UpdFields, MaxOpsAssumption
       DEF UInv, UTypeOK, IInv, TypeOK, Control, HasControl, NoJournal, StateFollowsStep,
           Numbers, SchemaFollowsJournal, Away, ExecuteSteps, UndoTxSteps, ResumeSteps, Ops,
           NoTree, NoUpd, vars
  <1>5. Numbers'
    BY <1>1, <1>2, UpdFields, MaxOpsAssumption
       DEF UInv, UTypeOK, IInv, TypeOK, Control, Numbers, NoJournal, StateFollowsStep,
           SchemaFollowsJournal, Away, ExecuteSteps, UndoTxSteps, ResumeSteps, Ops, NoTree,
           NoUpd, vars
  <1>6. StateFollowsStep'
    BY <1>1, <1>2, UpdFields, MaxOpsAssumption
       DEF UInv, UTypeOK, IInv, TypeOK, Control, StateFollowsStep, NoJournal, Numbers,
           SchemaFollowsJournal, Away, ExecuteSteps, UndoTxSteps, ResumeSteps, Ops, NoTree,
           NoUpd, vars
  <1>7. SchemaFollowsJournal'
    BY <1>1, <1>2, UpdFields, MaxOpsAssumption
       DEF UInv, UTypeOK, IInv, TypeOK, Control, SchemaFollowsJournal, NoJournal,
           StateFollowsStep, Numbers, Away, ExecuteSteps, UndoTxSteps, ResumeSteps, Ops,
           NoTree, NoUpd, vars
  <1>8. BeforeFollowsStep'
    BY <1>1, <1>2, UpdFields, MaxOpsAssumption
       DEF UInv, UTypeOK, IInv, TypeOK, Control, BeforeFollowsStep, NoJournal,
           StateFollowsStep, Numbers, SchemaFollowsJournal, Away, ExecuteSteps, UndoTxSteps,
           ResumeSteps, Ops, NoTree, NoUpd, vars
  <1>9. Compensated'
    BY <1>1, <1>2, UpdFields, MaxOpsAssumption
       DEF UInv, UTypeOK, IInv, TypeOK, Control, Compensated, NoJournal, StateFollowsStep,
           Numbers, SchemaFollowsJournal, Away, ExecuteSteps, UndoTxSteps, ResumeSteps, Ops,
           NoTree, NoUpd, vars
  <1>10. QED
    BY <1>2, <1>3, <1>4, <1>5, <1>6, <1>7, <1>8, <1>9 DEF UInv

\* EditIndex keeps the invariant.
LEMMA EditIndexPreserves ==
    ASSUME UInv, EditIndex
    PROVE  UInv'
  <1>1. /\ upc = "down"
        /\ UNCHANGED <<slot, snap, clock, pc, call, outcome, tx, schema, saved, upc, upd,
                       result, done, cost>>
    BY DEF EditIndex, uvars, dirs
  <1>2. IInv'
    BY IndexLostIInv DEF UInv
  <1>3. UTypeOK'
    BY <1>1, <1>2, UpdFields, MaxOpsAssumption
       DEF UInv, UTypeOK, IInv, TypeOK, Control, Numbers, Away, ExecuteSteps, UndoTxSteps,
           ResumeSteps, UpdateSteps, Upds, Modes, Results, Ops, Trees, NoTree
  <1>4. Control'
    BY <1>1, <1>2, UpdFields, MaxOpsAssumption
       DEF UInv, UTypeOK, IInv, TypeOK, Control, HasControl, NoJournal, StateFollowsStep,
           Numbers, SchemaFollowsJournal, Away, ExecuteSteps, UndoTxSteps, ResumeSteps, Ops,
           NoTree, NoUpd, vars
  <1>5. Numbers'
    BY <1>1, <1>2, UpdFields, MaxOpsAssumption
       DEF UInv, UTypeOK, IInv, TypeOK, Control, Numbers, NoJournal, StateFollowsStep,
           SchemaFollowsJournal, Away, ExecuteSteps, UndoTxSteps, ResumeSteps, Ops, NoTree,
           NoUpd, vars
  <1>6. StateFollowsStep'
    BY <1>1, <1>2, UpdFields, MaxOpsAssumption
       DEF UInv, UTypeOK, IInv, TypeOK, Control, StateFollowsStep, NoJournal, Numbers,
           SchemaFollowsJournal, Away, ExecuteSteps, UndoTxSteps, ResumeSteps, Ops, NoTree,
           NoUpd, vars
  <1>7. SchemaFollowsJournal'
    BY <1>1, <1>2, UpdFields, MaxOpsAssumption
       DEF UInv, UTypeOK, IInv, TypeOK, Control, SchemaFollowsJournal, NoJournal,
           StateFollowsStep, Numbers, Away, ExecuteSteps, UndoTxSteps, ResumeSteps, Ops,
           NoTree, NoUpd, vars
  <1>8. BeforeFollowsStep'
    BY <1>1, <1>2, UpdFields, MaxOpsAssumption
       DEF UInv, UTypeOK, IInv, TypeOK, Control, BeforeFollowsStep, NoJournal,
           StateFollowsStep, Numbers, SchemaFollowsJournal, Away, ExecuteSteps, UndoTxSteps,
           ResumeSteps, Ops, NoTree, NoUpd, vars
  <1>9. Compensated'
    BY <1>1, <1>2, UpdFields, MaxOpsAssumption
       DEF UInv, UTypeOK, IInv, TypeOK, Control, Compensated, NoJournal, StateFollowsStep,
           Numbers, SchemaFollowsJournal, Away, ExecuteSteps, UndoTxSteps, ResumeSteps, Ops,
           NoTree, NoUpd, vars
  <1>10. QED
    BY <1>2, <1>3, <1>4, <1>5, <1>6, <1>7, <1>8, <1>9 DEF UInv


\* The shared steps of the publisher, taken for a command or for the constructor.
LEMMA PublisherStepPreserves ==
    ASSUME UInv, PublisherStep
    PROVE  UInv'
  <1>1. /\ Work \/ Failure
        /\ clock' = clock
        /\ pc \notin {"idle", "down"}
        /\ upc' = (IF pc' = "down" THEN "down" ELSE upc)
        /\ result' = (IF pc' = "down" THEN "blocked" ELSE result)
        /\ UNCHANGED <<tx, schema, saved, upd, done>>
        /\ cost' \subseteq UpdateCosts \cup {"withdrawn"}
    BY ClockStays, CostSpent DEF UInv, UTypeOK, PublisherStep, journals
  <1>2. upc \in {"start", "u_wait", "b_wait", "m_wait"}
    BY <1>1 DEF UInv, Control, Away
  <1>3. IInv'
    BY <1>1, PublishIInv, CompensateIInv, RollbackIInv, RecoverIInv, FailureIInv
       DEF UInv, Work
  <1>4. call.op = "publish" => PublishesOn
    BY <1>1, PublicationProceeds DEF UInv
  <1>5. call.op = "rollback" => RollsBackOn
    BY <1>1, RollbackProceeds DEF UInv
  <1>6. UTypeOK'
    BY <1>1, <1>2, <1>3 DEF UInv, UTypeOK, IInv, UpdateSteps, Results
  <1>7. Control'
    BY <1>1, <1>2, <1>4, <1>5
       DEF UInv, Control, Away, ExecuteSteps, UndoTxSteps, ResumeSteps, PublishesOn,
           RollsBackOn
  <1>8. Numbers'
    BY <1>1, <1>2 DEF UInv, Numbers
  <1>9. StateFollowsStep'
    BY <1>1, <1>2 DEF UInv, StateFollowsStep, NoJournal, UndoTxSteps
  <1>10. SchemaFollowsJournal'
    BY <1>1, <1>2 DEF UInv, SchemaFollowsJournal, NoJournal
  <1>11. BeforeFollowsStep'
    <2>1. CASE upc = "u_wait"
      <3>1. PublishesOn /\ call.id = upd.n
        BY <1>4, <2>1 DEF UInv, Control
      <3>2. QED
        BY <1>1, <2>1, <3>1 DEF UInv, BeforeFollowsStep, PublishesOn
    <2>2. CASE upc = "b_wait"
      <3>1. RollsBackOn
        BY <1>5, <2>2 DEF UInv, Control
      <3>2. upd.n \in Ops /\ call.id \in Trees /\ snap \in [Ops -> Trees]
        BY <2>2 DEF UInv, Control, UndoTxSteps, IInv, TypeOK, Calls
      <3>3. QED
        BY <1>1, <2>2, <3>1, <3>2 DEF UInv, BeforeFollowsStep, RollsBackOn
    <2>3. CASE upc \in {"start", "m_wait"}
      BY <1>1, <2>3 DEF BeforeFollowsStep
    <2>4. QED
      BY <1>2, <2>1, <2>2, <2>3
  <1>12. Compensated'
    BY <1>1, <1>2 DEF UInv, Compensated
  <1>13. QED
    BY <1>3, <1>6, <1>7, <1>8, <1>9, <1>10, <1>11, <1>12 DEF UInv


\* A stuttering step keeps the invariant.
LEMMA StutterPreserves ==
    ASSUME UInv, UNCHANGED allvars
    PROVE  UInv'
  <1>1. UNCHANGED vars /\ UNCHANGED uvars
    BY DEF allvars
  <1>2. IInv'
    BY <1>1, StutterIInv DEF UInv
  <1>3. UTypeOK' /\ Control' /\ Numbers'
    BY <1>1, <1>2 DEF UInv, UTypeOK, IInv, Control, Numbers, vars, uvars
  <1>4. StateFollowsStep' /\ SchemaFollowsJournal'
    BY <1>1 DEF UInv, StateFollowsStep, SchemaFollowsJournal, NoJournal, uvars
  <1>5. BeforeFollowsStep' /\ Compensated'
    BY <1>1 DEF UInv, BeforeFollowsStep, Compensated, vars, uvars
  <1>6. QED
    BY <1>2, <1>3, <1>4, <1>5 DEF UInv

\* The invariant holds of an empty data home.
LEMMA InitPreserves == UInit => UInv
  <1> SUFFICES ASSUME UInit PROVE UInv
    OBVIOUS
  <1>1. IInv
    BY InitIInv DEF UInit
  <1>2. /\ tx \in [Ops -> Txs] /\ \A n \in Ops : tx[n].state = "none"
        /\ saved \in [Ops -> SUBSET Ops]
    BY MaxOpsAssumption DEF UInit, NoTx, Txs, TxStates, Entries, Kinds, NoEntry, NoTree, Trees
  <1>3. UTypeOK
    BY <1>1, <1>2, NoUpdType DEF UInit, UTypeOK, IInv, UpdateSteps, Results
  <1>4. Control /\ Numbers /\ StateFollowsStep /\ SchemaFollowsJournal /\ BeforeFollowsStep
          /\ Compensated
    BY <1>2
       DEF UInit, Init, NoUpd, Away, ExecuteSteps, UndoTxSteps, ResumeSteps, Control, Numbers,
           StateFollowsStep, SchemaFollowsJournal, NoJournal, BeforeFollowsStep, Compensated
  <1>5. QED
    BY <1>1, <1>3, <1>4 DEF UInv

\* Every reachable state satisfies it: no step of execute, of the compensation, of
\* the recovery of pending transactions or of the Publisher leaves it, and no exception
\* and no crash at any of them (update.py:336-518, 572-742).
THEOREM UpdateInvariant == USpec => []UInv
  <1>1. UInv /\ [UNext]_allvars => UInv'
    <2> SUFFICES ASSUME UInv, [UNext]_allvars PROVE UInv'
      OBVIOUS
    <2>1. CASE Execute
      BY <2>1, SaveSchemaPreserves, BeginTransactionPreserves, MarkPublishingPreserves,
         CallPublishPreserves, MarkPublishedPreserves, PublishRaisedPreserves,
         DropTransactionPreserves, SaveUnitsPreserves, MarkSchemaPreserves,
         MarkCommittedPreserves, RemoveTransactionPreserves, ExecuteFaultPreserves
         DEF Execute
    <2>2. CASE UndoTransaction
      BY <2>2, RestoreSchemaPreserves, CallRollbackPreserves, RollbackReturnedPreserves,
         NothingToRollBackPreserves, RemoveSkillPreserves, ForeignSkillPreserves,
         FinishRollbackPreserves, UndoTxFaultPreserves, BlockTransactionPreserves
         DEF UndoTransaction
    <2>3. CASE ResumePending
      BY <2>3, ResumeStartPreserves, ResumeDropPreserves, ResumeCommitPreserves,
         ResumeRollbackPreserves, ResumeRefusePreserves, CommitRecoveredPreserves,
         RemoveRecoveredPreserves, ResumeFaultPreserves, ResumeDonePreserves
         DEF ResumePending, ResumeTransaction
    <2>4. CASE Commands
      BY <2>4, BuildPreserves, UpdateStartPreserves, UpdateDeclinePreserves,
         RollbackCommandPreserves
         DEF Commands
    <2>5. CASE PublisherStep \/ RollbackReported
      BY <2>5, PublisherStepPreserves, RollbackReportedPreserves
    <2>6. CASE UpdateProcessStart \/ UpdateCrash \/ UpdateExit \/ EditIndex
      BY <2>6, UpdateProcessStartPreserves, UpdateCrashPreserves, UpdateExitPreserves,
         EditIndexPreserves
    <2>7. CASE UNCHANGED allvars
      BY <2>7, StutterPreserves
    <2>8. QED
      BY <2>1, <2>2, <2>3, <2>4, <2>5, <2>6, <2>7 DEF UNext, UpdateProgress
  <1>2. QED
    BY <1>1, InitPreserves, PTL DEF USpec

\* Every variable of the update and of the publisher under it keeps its type.
THEOREM UpdateTypeCorrect == USpec => []UTypeOK
  <1>1. UInv => UTypeOK
    BY DEF UInv
  <1>2. QED
    BY <1>1, UpdateInvariant, PTL

\* No rename lands on an existing tree, under the use case either (publisher.py,
\* update.py:695-742).
THEOREM UpdateRenameTargetsAbsent == USpec => []RenameTargetAbsent
  <1>1. UInv => RenameTargetAbsent
    BY DEF UInv, IInv, SlotFollowsStep, RenameTargetAbsent
  <1>2. QED
    BY <1>1, UpdateInvariant, PTL

\* An update took place in full or left no record behind: whenever a command may begin,
\* the Schema holds the units of the committed updates (update.py:336-518, 572-605).
THEOREM SchemaHoldsCommits == USpec => []SchemaMatchesCommits
  <1>1. UInv => SchemaMatchesCommits
    BY DEF UInv, StateFollowsStep, SchemaFollowsJournal, SchemaMatchesCommits, Accepting
  <1>2. QED
    BY <1>1, UpdateInvariant, PTL

\* A compensated update left the Skill and the Schema as it found them
\* (update.py:695-742).
THEOREM CompensationAlwaysRestores == USpec => []CompensationRestores
  <1>1. UInv => CompensationRestores
    BY DEF UInv, Compensated, CompensationRestores
  <1>2. QED
    BY <1>1, UpdateInvariant, PTL

\* A step that removes records removes those of the update it undoes.
LEMMA CommittedStay ==
    ASSUME UInv, UNext, done \subseteq schema
    PROVE  done \subseteq schema'
  <1>1. CASE RestoreSchema
    <2>1. schema' = done
      BY <1>1
         DEF UInv, RestoreSchema, Step, Control, StateFollowsStep, SchemaFollowsJournal,
             UndoTxSteps
    <2>2. QED
      BY <2>1
  <1>2. CASE Build
    BY <1>2 DEF Build, Step, UInv, Numbers, UTypeOK, Ops
  <1>3. CASE SaveUnits
    BY <1>3 DEF SaveUnits
  <1>4. CASE Execute /\ ~SaveUnits
    BY <1>4
       DEF Execute, SaveSchema, BeginTransaction, MarkPublishing, CallPublish, MarkPublished,
           PublishRaised, DropTransaction, MarkSchema, MarkCommitted, RemoveTransaction,
           ExecuteFault, journals
  <1>5. CASE UndoTransaction /\ ~RestoreSchema
    BY <1>5
       DEF UndoTransaction, CallRollback, RollbackReturned, NothingToRollBack, RemoveSkill,
           ForeignSkill, FinishRollback, UndoTxFault, BlockTransaction, journals
  <1>6. CASE ResumePending
    BY <1>6
       DEF ResumePending, ResumeStart, ResumeTransaction, ResumeDrop, ResumeCommit,
           ResumeRollback, ResumeRefuse, Resume, CommitRecovered, RemoveRecovered,
           ResumeFault, ResumeDone, journals
  <1>7. CASE Commands /\ ~Build
    BY <1>7 DEF Commands, UpdateStart, UpdateDecline, RollbackCommand, journals
  <1>8. CASE PublisherStep \/ RollbackReported \/ UpdateProcessStart \/ UpdateCrash
               \/ UpdateExit \/ EditIndex
    BY <1>8
       DEF PublisherStep, RollbackReported, UpdateProcessStart, UpdateCrash, UpdateExit,
           EditIndex, journals, uvars
  <1>9. QED
    BY <1>1, <1>2, <1>3, <1>4, <1>5, <1>6, <1>7, <1>8 DEF UNext, UpdateProgress

\* No step takes the units of a committed update back (update.py:336-518, 725-742).
THEOREM CommittedAlwaysKept == USpec => CommittedKept
  <1>1. UInv /\ [UNext]_allvars => [done \subseteq schema => done \subseteq schema']_allvars
    BY CommittedStay
  <1>2. QED
    BY <1>1, UpdateInvariant, PTL DEF USpec, CommittedKept

-----------------------------------------------------------------------------
(* Where the trees are. *)

\* Every tree has a number that was taken.
TreesTaken ==
    /\ slot <= clock
    /\ call.moved <= clock
    /\ \A n \in Ops : snap[n] <= clock
    /\ \A n \in staging : n <= clock

\* The tree an update found is older than its own.
FoundIsOlder ==
    upd.mode = "execute" /\ upc \in ExecuteSteps \cup UndoTxSteps => upd.before < upd.n

\* No publication has a journal, but for those of S.
SettledBut(S) == \A n \in Ops \ S : journal[n] = "none"

\* The use case takes its steps when the publisher has nothing to recover.
JournalsSettled ==
    /\ upc = "start" => pc \in RecoverySteps \cup {"idle"}
    /\ upc # "start" => pc \notin RecoverySteps
    /\ upc \notin {"down", "start", "u_wait", "u_drop", "done"} => SettledBut({})
    /\ upc = "start" /\ pc = "idle" => SettledBut({})
    /\ upc = "u_wait" => SettledBut({upd.n})
    /\ upc = "u_wait" /\ pc = "idle" /\ outcome = "published" => SettledBut({})
    /\ pc = "rec_mark" => journal[call.id] \in {"named", "snapshotted"}

\* What a publisher step leaves of the locals of its call.
LEMMA CallChanges ==
    ASSUME call \in Calls
    PROVE  /\ NoCall.op = "none" /\ NoCall.id = 0 /\ NoCall.moved = NoTree
           /\ LET c == [call EXCEPT !.swapped = TRUE]
              IN  /\ c.op = call.op /\ c.id = call.id /\ c.before = call.before
                  /\ c.moved = call.moved /\ c.latest = call.latest /\ c.swapped
           /\ \A t : LET c == [call EXCEPT !.moved = t]
                     IN  /\ c.op = call.op /\ c.id = call.id /\ c.before = call.before
                         /\ c.moved = t /\ c.latest = call.latest
                         /\ c.swapped = call.swapped
           /\ \A n : LET c == [call EXCEPT !.id = n]
                     IN  /\ c.op = call.op /\ c.id = n /\ c.before = call.before
                         /\ c.moved = call.moved /\ c.latest = call.latest
                         /\ c.swapped = call.swapped
           /\ LET c == [NoCall EXCEPT !.op = "recover"]
              IN  c.op = "recover" /\ c.id = 0 /\ c.moved = NoTree
           /\ \A i, b : LET c == [NoCall EXCEPT !.op = "publish", !.id = i, !.before = b]
                        IN  /\ c.op = "publish" /\ c.id = i /\ c.before = b
                            /\ c.moved = NoTree /\ ~c.swapped
           /\ \A i, l, b : LET c == [NoCall EXCEPT !.op = "rollback", !.id = i,
                                                   !.latest = l, !.before = b]
                        IN  /\ c.op = "rollback" /\ c.id = i /\ c.before = b
                            /\ c.moved = NoTree /\ c.latest = l
  BY DEF Calls, NoCall

\* The types of what a step of the publisher may move.
PlaceTypes ==
    /\ slot \in Nat /\ \A n \in Ops : snap[n] \in Nat /\ n \in Nat
    /\ snap \in [Ops -> Trees] /\ staging \subseteq Ops /\ journal \in [Ops -> Journals]
    /\ clock \in Nat /\ MaxOps \in Nat
    /\ call \in Calls /\ call.id \in Nat /\ call.moved \in Nat /\ call.latest \in Nat
    /\ NoTree = 0 /\ Ops \subseteq Trees
    /\ pc \notin {"idle", "down", "recover"} => call.id \in Ops
    /\ pc \in {"r_snapshot", "r_restore"} => call.latest \in Ops

\* They follow from the invariant of the Publisher.
LEMMA PlacesTyped ==
    ASSUME IInv
    PROVE  PlaceTypes
  <1>1. pc \notin {"idle", "down", "recover"} => call.id \in Ops
    BY DEF IInv, TypeOK, CallMatchesStep, Steps, RecoverySteps
  <1>2. QED
    BY <1>1, MaxOpsAssumption
       DEF IInv, TypeOK, CallMatchesStep, Calls, Trees, Ops, NoTree, PlaceTypes

\* Every step keeps the numbers of the trees taken.
LEMMA TreesTakenNext ==
    ASSUME UInv, UInv', TreesTaken, [UNext]_allvars
    PROVE  TreesTaken'
  <1> USE DEF TreesTaken, PlaceTypes
  <1>1. PlaceTypes /\ call.id <= clock
    BY PlacesTyped DEF UInv, IInv, CallMatchesStep
  <1>2. CASE PublisherStep
    <2>1. clock' = clock
      BY <1>2, ClockStays DEF PublisherStep
    <2>2. CASE Compile
      BY <1>1, <2>1, CallChanges, <2>2 DEF Compile, dirs
    <2>3. CASE BeginJournal
      BY <1>1, <2>1, CallChanges, <2>3 DEF BeginJournal, dirs
    <2>4. CASE NameSnapshot
      BY <1>1, <2>1, CallChanges, <2>4 DEF NameSnapshot, dirs
    <2>5. CASE TakeSnapshot
      BY <1>1, <2>1, CallChanges, <2>5 DEF TakeSnapshot, dirs
    <2>6. CASE MarkSnapshotted
      BY <1>1, <2>1, CallChanges, <2>6 DEF MarkSnapshotted, dirs
    <2>7. CASE Swap
      BY <1>1, <2>1, CallChanges, <2>7 DEF Swap, dirs
    <2>8. CASE MarkSwapped
      BY <1>1, <2>1, CallChanges, <2>8 DEF MarkSwapped, dirs
    <2>9. CASE WritePointer
      BY <1>1, <2>1, CallChanges, <2>9 DEF WritePointer, dirs
    <2>10. CASE LogSuccess
      BY <1>1, <2>1, CallChanges, <2>10 DEF LogSuccess, dirs
    <2>11. CASE UpdateIndex
      BY <1>1, <2>1, CallChanges, <2>11 DEF UpdateIndex, dirs
    <2>12. CASE CommitJournal
      BY <1>1, <2>1, CallChanges, <2>12 DEF CommitJournal, dirs
    <2>13. CASE ForgetJournal
      BY <1>1, <2>1, CallChanges, <2>13 DEF ForgetJournal, dirs
    <2>14. CASE Abort
      BY <1>1, <2>1, CallChanges, <2>14 DEF Abort, dirs
    <2>15. CASE Displace
      BY <1>1, <2>1, CallChanges, <2>15 DEF Displace, dirs
    <2>16. CASE Reinstate
      BY <1>1, <2>1, CallChanges, <2>16 DEF Reinstate, dirs
    <2>17. CASE Discard
      BY <1>1, <2>1, CallChanges, <2>17 DEF Discard, dirs
    <2>18. CASE PutBack
      BY <1>1, <2>1, CallChanges, <2>18 DEF PutBack, dirs
    <2>19. CASE Unpublish
      BY <1>1, <2>1, CallChanges, <2>19 DEF Unpublish, dirs
    <2>20. CASE ForgetFailed
      BY <1>1, <2>1, CallChanges, <2>20 DEF ForgetFailed, dirs
    <2>21. CASE Repoint
      BY <1>1, <2>1, CallChanges, <2>21 DEF Repoint, dirs
    <2>22. CASE LogFailure
      BY <1>1, <2>1, CallChanges, <2>22 DEF LogFailure, dirs
    <2>23. CASE IndexFailure
      BY <1>1, <2>1, CallChanges, <2>23 DEF IndexFailure, dirs
    <2>24. CASE RollbackSnapshot
      BY <1>1, <2>1, CallChanges, <2>24 DEF RollbackSnapshot, dirs
    <2>25. CASE RollbackRestore
      BY <1>1, <2>1, CallChanges, <2>25 DEF RollbackRestore, dirs
    <2>26. CASE RollbackPoint
      BY <1>1, <2>1, CallChanges, <2>26 DEF RollbackPoint, dirs
    <2>27. CASE RollbackLog
      BY <1>1, <2>1, CallChanges, <2>27 DEF RollbackLog, dirs
    <2>28. CASE RollbackIndex
      BY <1>1, <2>1, CallChanges, <2>28 DEF RollbackIndex, dirs
    <2>29. ASSUME NEW n \in Ops, RecoverCommitted(n) PROVE TreesTaken'
      BY <1>1, <2>1, CallChanges, <2>29 DEF RecoverCommitted, Pick, dirs
    <2>30. ASSUME NEW n \in Ops, RecoverForward(n) PROVE TreesTaken'
      BY <1>1, <2>1, CallChanges, <2>30 DEF RecoverForward, Pick, dirs
    <2>31. ASSUME NEW n \in Ops, RecoverBack(n) PROVE TreesTaken'
      BY <1>1, <2>1, CallChanges, <2>31 DEF RecoverBack, Pick, dirs
    <2>32. ASSUME NEW n \in Ops, RecoverAbandon(n) PROVE TreesTaken'
      BY <1>1, <2>1, CallChanges, <2>32 DEF RecoverAbandon, Pick, dirs
    <2>33. ASSUME NEW n \in Ops, RecoverSwapped(n) PROVE TreesTaken'
      BY <1>1, <2>1, CallChanges, <2>33 DEF RecoverSwapped, Pick, dirs
    <2>34. ASSUME NEW n \in Ops, RecoverLost(n) PROVE TreesTaken'
      BY <1>1, <2>1, CallChanges, <2>34 DEF RecoverLost, Pick, dirs
    <2>35. ASSUME NEW n \in Ops, RecoverRefuse(n) PROVE TreesTaken'
      BY <1>1, <2>1, CallChanges, <2>35 DEF RecoverRefuse, Pick, dirs
    <2>36. CASE RecoverMark
      BY <1>1, <2>1, CallChanges, <2>36 DEF RecoverMark, dirs
    <2>37. CASE RecoverPoint
      BY <1>1, <2>1, CallChanges, <2>37 DEF RecoverPoint, dirs
    <2>38. CASE RecoverVerify
      BY <1>1, <2>1, CallChanges, <2>38 DEF RecoverVerify, dirs
    <2>39. CASE RecoverLog
      BY <1>1, <2>1, CallChanges, <2>39 DEF RecoverLog, dirs
    <2>40. CASE RecoverIndex
      BY <1>1, <2>1, CallChanges, <2>40 DEF RecoverIndex, dirs
    <2>41. CASE RecoverUnpoint
      BY <1>1, <2>1, CallChanges, <2>41 DEF RecoverUnpoint, dirs
    <2>42. CASE RecoverForget
      BY <1>1, <2>1, CallChanges, <2>42 DEF RecoverForget, dirs
    <2>43. CASE RecoverBlock
      BY <1>1, <2>1, CallChanges, <2>43 DEF RecoverBlock, dirs
    <2>44. CASE RecoverDone
      BY <1>1, <2>1, CallChanges, <2>44 DEF RecoverDone, dirs
    <2>45. CASE PublishFault
      BY <1>1, <2>1, CallChanges, <2>45 DEF PublishFault, dirs
    <2>46. CASE UndoFault
      BY <1>1, <2>1, CallChanges, <2>46 DEF UndoFault, dirs
    <2>47. CASE RollbackFault
      BY <1>1, <2>1, CallChanges, <2>47 DEF RollbackFault, dirs
    <2>48. CASE RecoverFault
      <3>1. call'.moved = call.moved
        <4>1. call' = call \/ \E n \in Ops : call' = [call EXCEPT !.id = n]
          BY <2>48 DEF RecoverFault
        <4>2. \A n : [call EXCEPT !.id = n].moved = call.moved
          BY <1>1, CallChanges
        <4>3. QED
          BY <4>1, <4>2
      <3>2. QED
        BY <1>1, <2>1, <2>48, <3>1 DEF RecoverFault, dirs
    <2>49. CASE MarkFault
      BY <1>1, <2>1, CallChanges, <2>49 DEF MarkFault, dirs
    <2>50. QED
      BY <1>2, <2>2, <2>3, <2>4, <2>5, <2>6, <2>7, <2>8, <2>9, <2>10, <2>11, <2>12,
         <2>13, <2>14, <2>15, <2>16, <2>17, <2>18, <2>19, <2>20, <2>21, <2>22, <2>23,
         <2>24, <2>25, <2>26, <2>27, <2>28, <2>29, <2>30, <2>31, <2>32, <2>33, <2>34,
         <2>35, <2>36, <2>37, <2>38, <2>39, <2>40, <2>41, <2>42, <2>43, <2>44, <2>45,
         <2>46, <2>47, <2>48, <2>49
         DEF PublisherStep, Work, Publish, Compensate, Rollback, Recover,
            RecoverJournal, Failure
  <1>3. CASE CallPublish \/ CallRollback \/ RollbackCommand
    <2>1. CASE PublishStart
      BY <1>1, <2>1, CallChanges DEF PublishStart, dirs
    <2>2. CASE RollbackStart
      BY <1>1, <2>2, CallChanges DEF RollbackStart, dirs
    <2>3. QED
      BY <1>3, <2>1, <2>2 DEF CallPublish, CallRollback, RollbackCommand
  <1>4. CASE Build \/ RemoveSkill
    BY <1>1, <1>4 DEF Build, RemoveSkill
  <1>5. CASE UpdateProcessStart \/ UpdateCrash \/ UpdateExit \/ EditIndex
    <2>1. CASE UpdateProcessStart
      BY <1>1, <2>1, CallChanges DEF UpdateProcessStart, Start, dirs
    <2>2. CASE UpdateCrash \/ UpdateExit \/ EditIndex
      BY <1>1, <2>2, CallChanges DEF UpdateCrash, UpdateExit, EditIndex, Crash, Exit, dirs
    <2>3. QED
      BY <1>5, <2>1, <2>2
  <1>6. CASE Execute /\ ~CallPublish
    BY <1>1, <1>6
       DEF Execute, SaveSchema, BeginTransaction, MarkPublishing, MarkPublished, PublishRaised,
           DropTransaction, SaveUnits, MarkSchema, MarkCommitted, RemoveTransaction,
           ExecuteFault, vars
  <1>7. CASE UndoTransaction /\ ~CallRollback /\ ~RemoveSkill
    BY <1>1, <1>7, CallChanges
       DEF UndoTransaction, RestoreSchema, RollbackReturned, NothingToRollBack, ForeignSkill,
           FinishRollback, UndoTxFault, BlockTransaction, Refuse, dirs, vars
  <1>8. CASE ResumePending
    BY <1>1, <1>8, CallChanges
       DEF ResumePending, ResumeTransaction, ResumeStart, ResumeDrop, ResumeCommit,
           ResumeRollback, ResumeRefuse, Resume, CommitRecovered, RemoveRecovered,
           ResumeFault, ResumeDone, Refuse, dirs, vars
  <1>9. CASE RollbackReported \/ UpdateStart \/ UpdateDecline \/ UNCHANGED allvars
    BY <1>1, <1>9 DEF RollbackReported, UpdateStart, UpdateDecline, allvars, vars
  <1>10. QED
    BY <1>2, <1>3, <1>4, <1>5, <1>6, <1>7, <1>8, <1>9
       DEF UNext, UpdateProgress, Commands, Execute, UndoTransaction

\* The tree an update found stays the older one.
LEMMA FoundIsOlderNext ==
    ASSUME UInv, UInv', TreesTaken, FoundIsOlder, [UNext]_allvars
    PROVE  FoundIsOlder'
  <1> USE MaxOpsAssumption DEF FoundIsOlder, ExecuteSteps, UndoTxSteps
  <1>1. clock \in Nat /\ slot \in Nat /\ slot <= clock
    BY DEF UInv, IInv, TypeOK, TreesTaken, Trees
  <1>2. CASE UpdateStart
    BY <1>1, <1>2 DEF UpdateStart, Step
  <1>3. CASE Execute
    BY <1>3
       DEF Execute, SaveSchema, BeginTransaction, MarkPublishing, CallPublish, MarkPublished,
           PublishRaised, DropTransaction, SaveUnits, MarkSchema, MarkCommitted,
           RemoveTransaction, ExecuteFault, Step, Conclude
  <1>4. CASE UndoTransaction
    BY <1>4
       DEF UndoTransaction, RestoreSchema, CallRollback, RollbackReturned, NothingToRollBack,
           RemoveSkill, ForeignSkill, FinishRollback, UndoTxFault, BlockTransaction, Refuse,
           Step, Conclude
  <1>5. CASE ResumePending
    BY <1>5
       DEF ResumePending, ResumeTransaction, ResumeStart, ResumeDrop, ResumeCommit,
           ResumeRollback, ResumeRefuse, Resume, CommitRecovered, RemoveRecovered,
           ResumeFault, ResumeDone, Refuse, Step, NoUpd
  <1>6. CASE PublisherStep \/ RollbackReported \/ Build \/ UpdateDecline \/ RollbackCommand
               \/ UNCHANGED allvars
    BY <1>6
       DEF PublisherStep, RollbackReported, Build, UpdateDecline, RollbackCommand, Step,
           Conclude, allvars, uvars
  <1>7. CASE UpdateProcessStart \/ UpdateCrash \/ UpdateExit \/ EditIndex
    BY <1>7 DEF UpdateProcessStart, UpdateCrash, UpdateExit, EditIndex, uvars
  <1>8. QED
    BY <1>2, <1>3, <1>4, <1>5, <1>6, <1>7 DEF UNext, UpdateProgress, Commands

\* Every step keeps the journals settled where the use case has control.
LEMMA JournalsSettledNext ==
    ASSUME UInv, UInv', JournalsSettled, [UNext]_allvars
    PROVE  JournalsSettled'
  <1> USE DEF JournalsSettled, SettledBut
  <1>1. PlaceTypes /\ journal \in [Ops -> Journals] /\ call \in Calls /\ upd.n \in Nat
    BY PlacesTyped DEF UInv, IInv, PlaceTypes, UTypeOK, Upds, Trees
  <1>2. /\ upc \notin Away => pc = "idle"
        /\ upc = "down" <=> pc = "down"
        /\ upc = "u_wait" => call.op = "publish" /\ call.id = upd.n
        /\ upc \in {"b_wait", "m_wait"} => call.op = "rollback"
        /\ upc \in ExecuteSteps \cup UndoTxSteps \cup {"v_commit", "v_remove"} => upd.n \in Ops
    BY DEF UInv, Control
  <1>3. /\ pc \in PublishSteps \cup UndoSteps => call.op = "publish"
        /\ pc \in RollbackSteps => call.op = "rollback"
        /\ pc \in RestoreSteps => call.op \in {"publish", "rollback"}
        /\ pc \in RecoverySteps => call.op = "recover"
    BY DEF UInv, IInv, CallMatchesStep
  <1>4. CASE PublisherStep
    <2>1. /\ upc' = (IF pc' = "down" THEN "down" ELSE upc)
          /\ UNCHANGED upd /\ pc \notin {"idle", "down"}
          /\ upc \in {"start", "u_wait", "b_wait", "m_wait"}
      BY <1>2, <1>4, ClockStays DEF PublisherStep, Away
    <2>2. CASE Compile
      BY <1>1, <1>2, <1>3, <2>1, <2>2
         DEF Compile, Goto, Report, SetJournal, dirs, records, PlaceTypes, PublishSteps,
            UndoSteps, RestoreSteps, RecoverySteps
    <2>3. CASE BeginJournal
      BY <1>1, <1>2, <1>3, <2>1, <2>3
         DEF BeginJournal, Goto, Report, SetJournal, dirs, records, PlaceTypes,
            PublishSteps, UndoSteps, RestoreSteps, RecoverySteps
    <2>4. CASE NameSnapshot
      BY <1>1, <1>2, <1>3, <2>1, <2>4
         DEF NameSnapshot, Goto, Report, SetJournal, dirs, records, PlaceTypes,
            PublishSteps, UndoSteps, RestoreSteps, RecoverySteps
    <2>5. CASE TakeSnapshot
      BY <1>1, <1>2, <1>3, <2>1, <2>5
         DEF TakeSnapshot, Goto, Report, SetJournal, dirs, records, PlaceTypes,
            PublishSteps, UndoSteps, RestoreSteps, RecoverySteps
    <2>6. CASE MarkSnapshotted
      BY <1>1, <1>2, <1>3, <2>1, <2>6
         DEF MarkSnapshotted, Goto, Report, SetJournal, dirs, records, PlaceTypes,
            PublishSteps, UndoSteps, RestoreSteps, RecoverySteps
    <2>7. CASE Swap
      BY <1>1, <1>2, <1>3, <2>1, <2>7
         DEF Swap, Goto, Report, SetJournal, dirs, records, PlaceTypes, PublishSteps,
            UndoSteps, RestoreSteps, RecoverySteps
    <2>8. CASE MarkSwapped
      BY <1>1, <1>2, <1>3, <2>1, <2>8
         DEF MarkSwapped, Goto, Report, SetJournal, dirs, records, PlaceTypes,
            PublishSteps, UndoSteps, RestoreSteps, RecoverySteps
    <2>9. CASE WritePointer
      BY <1>1, <1>2, <1>3, <2>1, <2>9
         DEF WritePointer, Goto, Report, SetJournal, dirs, records, PlaceTypes,
            PublishSteps, UndoSteps, RestoreSteps, RecoverySteps
    <2>10. CASE LogSuccess
      BY <1>1, <1>2, <1>3, <2>1, <2>10
         DEF LogSuccess, Goto, Report, SetJournal, dirs, records, PlaceTypes,
            PublishSteps, UndoSteps, RestoreSteps, RecoverySteps
    <2>11. CASE UpdateIndex
      BY <1>1, <1>2, <1>3, <2>1, <2>11
         DEF UpdateIndex, Goto, Report, SetJournal, dirs, records, PlaceTypes,
            PublishSteps, UndoSteps, RestoreSteps, RecoverySteps
    <2>12. CASE CommitJournal
      BY <1>1, <1>2, <1>3, <2>1, <2>12
         DEF CommitJournal, Goto, Report, SetJournal, dirs, records, PlaceTypes,
            PublishSteps, UndoSteps, RestoreSteps, RecoverySteps
    <2>13. CASE ForgetJournal
      BY <1>1, <1>2, <1>3, <2>1, <2>13
         DEF ForgetJournal, Goto, Report, SetJournal, dirs, records, PlaceTypes,
            PublishSteps, UndoSteps, RestoreSteps, RecoverySteps
    <2>14. CASE Abort
      BY <1>1, <1>2, <1>3, <2>1, <2>14
         DEF Abort, Goto, Report, SetJournal, dirs, records, PlaceTypes, PublishSteps,
            UndoSteps, RestoreSteps, RecoverySteps
    <2>15. CASE Displace
      BY <1>1, <1>2, <1>3, <2>1, <2>15
         DEF Displace, Goto, Report, SetJournal, dirs, records, PlaceTypes,
            PublishSteps, UndoSteps, RestoreSteps, RecoverySteps
    <2>16. CASE Reinstate
      BY <1>1, <1>2, <1>3, <2>1, <2>16
         DEF Reinstate, Goto, Report, SetJournal, dirs, records, PlaceTypes,
            PublishSteps, UndoSteps, RestoreSteps, RecoverySteps
    <2>17. CASE Discard
      BY <1>1, <1>2, <1>3, <2>1, <2>17
         DEF Discard, Goto, Report, SetJournal, dirs, records, PlaceTypes, PublishSteps,
            UndoSteps, RestoreSteps, RecoverySteps
    <2>18. CASE PutBack
      BY <1>1, <1>2, <1>3, <2>1, <2>18
         DEF PutBack, Goto, Report, SetJournal, dirs, records, PlaceTypes, PublishSteps,
            UndoSteps, RestoreSteps, RecoverySteps
    <2>19. CASE Unpublish
      BY <1>1, <1>2, <1>3, <2>1, <2>19
         DEF Unpublish, Goto, Report, SetJournal, dirs, records, PlaceTypes,
            PublishSteps, UndoSteps, RestoreSteps, RecoverySteps
    <2>20. CASE ForgetFailed
      BY <1>1, <1>2, <1>3, <2>1, <2>20
         DEF ForgetFailed, Goto, Report, SetJournal, dirs, records, PlaceTypes,
            PublishSteps, UndoSteps, RestoreSteps, RecoverySteps
    <2>21. CASE Repoint
      BY <1>1, <1>2, <1>3, <2>1, <2>21
         DEF Repoint, Goto, Report, SetJournal, dirs, records, PlaceTypes, PublishSteps,
            UndoSteps, RestoreSteps, RecoverySteps
    <2>22. CASE LogFailure
      BY <1>1, <1>2, <1>3, <2>1, <2>22
         DEF LogFailure, Goto, Report, SetJournal, dirs, records, PlaceTypes,
            PublishSteps, UndoSteps, RestoreSteps, RecoverySteps
    <2>23. CASE IndexFailure
      BY <1>1, <1>2, <1>3, <2>1, <2>23
         DEF IndexFailure, Goto, Report, SetJournal, dirs, records, PlaceTypes,
            PublishSteps, UndoSteps, RestoreSteps, RecoverySteps
    <2>24. CASE RollbackSnapshot
      BY <1>1, <1>2, <1>3, <2>1, <2>24
         DEF RollbackSnapshot, Goto, Report, dirs, records, RollbackSteps, RecoverySteps
    <2>25. CASE RollbackRestore
      BY <1>1, <1>2, <1>3, <2>1, <2>25
         DEF RollbackRestore, Goto, Report, dirs, records, RollbackSteps, RecoverySteps
    <2>26. CASE RollbackPoint
      BY <1>1, <1>2, <1>3, <2>1, <2>26
         DEF RollbackPoint, Goto, Report, dirs, records, RollbackSteps, RecoverySteps
    <2>27. CASE RollbackLog
      BY <1>1, <1>2, <1>3, <2>1, <2>27
         DEF RollbackLog, Goto, Report, dirs, records, RollbackSteps, RecoverySteps
    <2>28. CASE RollbackIndex
      BY <1>1, <1>2, <1>3, <2>1, <2>28
         DEF RollbackIndex, Goto, Report, dirs, records, RollbackSteps, RecoverySteps
    <2>29. ASSUME NEW n \in Ops, RecoverCommitted(n) PROVE JournalsSettled'
      BY <1>1, <1>2, <1>3, <2>1, CallChanges, <2>29
         DEF RecoverCommitted, Pick, Goto, Report, SetJournal, InGap, dirs, records,
            PlaceTypes, RecoverySteps
    <2>30. ASSUME NEW n \in Ops, RecoverForward(n) PROVE JournalsSettled'
      BY <1>1, <1>2, <1>3, <2>1, CallChanges, <2>30
         DEF RecoverForward, Pick, Goto, Report, SetJournal, InGap, dirs, records,
            PlaceTypes, RecoverySteps
    <2>31. ASSUME NEW n \in Ops, RecoverBack(n) PROVE JournalsSettled'
      BY <1>1, <1>2, <1>3, <2>1, CallChanges, <2>31
         DEF RecoverBack, Pick, Goto, Report, SetJournal, InGap, dirs, records,
            PlaceTypes, RecoverySteps
    <2>32. ASSUME NEW n \in Ops, RecoverAbandon(n) PROVE JournalsSettled'
      BY <1>1, <1>2, <1>3, <2>1, CallChanges, <2>32
         DEF RecoverAbandon, Pick, Goto, Report, SetJournal, InGap, dirs, records,
            PlaceTypes, RecoverySteps
    <2>33. ASSUME NEW n \in Ops, RecoverSwapped(n) PROVE JournalsSettled'
      BY <1>1, <1>2, <1>3, <2>1, CallChanges, <2>33
         DEF RecoverSwapped, Pick, Goto, Report, SetJournal, InGap, dirs, records,
            PlaceTypes, RecoverySteps
    <2>34. ASSUME NEW n \in Ops, RecoverLost(n) PROVE JournalsSettled'
      BY <1>1, <1>2, <1>3, <2>1, CallChanges, <2>34
         DEF RecoverLost, Pick, Goto, Report, SetJournal, InGap, dirs, records,
            PlaceTypes, RecoverySteps
    <2>35. ASSUME NEW n \in Ops, RecoverRefuse(n) PROVE JournalsSettled'
      BY <1>1, <1>2, <1>3, <2>1, CallChanges, <2>35
         DEF RecoverRefuse, Pick, Goto, Report, SetJournal, InGap, dirs, records,
            PlaceTypes, RecoverySteps
    <2>36. CASE RecoverMark
      BY <1>1, <1>2, <1>3, <2>1, CallChanges, <2>36
         DEF RecoverMark, Pick, Goto, Report, SetJournal, InGap, dirs, records,
            PlaceTypes, RecoverySteps
    <2>37. CASE RecoverPoint
      BY <1>1, <1>2, <1>3, <2>1, CallChanges, <2>37
         DEF RecoverPoint, Pick, Goto, Report, SetJournal, InGap, dirs, records,
            PlaceTypes, RecoverySteps
    <2>38. CASE RecoverVerify
      BY <1>1, <1>2, <1>3, <2>1, CallChanges, <2>38
         DEF RecoverVerify, Pick, Goto, Report, SetJournal, InGap, dirs, records,
            PlaceTypes, RecoverySteps
    <2>39. CASE RecoverLog
      BY <1>1, <1>2, <1>3, <2>1, CallChanges, <2>39
         DEF RecoverLog, Pick, Goto, Report, SetJournal, InGap, dirs, records,
            PlaceTypes, RecoverySteps
    <2>40. CASE RecoverIndex
      BY <1>1, <1>2, <1>3, <2>1, CallChanges, <2>40
         DEF RecoverIndex, Pick, Goto, Report, SetJournal, InGap, dirs, records,
            PlaceTypes, RecoverySteps
    <2>41. CASE RecoverUnpoint
      BY <1>1, <1>2, <1>3, <2>1, CallChanges, <2>41
         DEF RecoverUnpoint, Pick, Goto, Report, SetJournal, InGap, dirs, records,
            PlaceTypes, RecoverySteps
    <2>42. CASE RecoverForget
      BY <1>1, <1>2, <1>3, <2>1, CallChanges, <2>42
         DEF RecoverForget, Pick, Goto, Report, SetJournal, InGap, dirs, records,
            PlaceTypes, RecoverySteps
    <2>43. CASE RecoverBlock
      BY <1>1, <1>2, <1>3, <2>1, CallChanges, <2>43
         DEF RecoverBlock, Pick, Goto, Report, SetJournal, InGap, dirs, records,
            PlaceTypes, RecoverySteps
    <2>44. CASE RecoverDone
      BY <1>1, <1>2, <1>3, <2>1, CallChanges, <2>44
         DEF RecoverDone, Pick, Goto, Report, SetJournal, InGap, dirs, records,
            PlaceTypes, RecoverySteps
    <2>45. CASE PublishFault
      BY <1>1, <1>2, <1>3, <2>1, CallChanges, <2>45
         DEF PublishFault, Goto, Report, dirs, records, PublishSteps, UndoSteps,
            RestoreSteps, RollbackSteps, RecoverySteps
    <2>46. CASE UndoFault
      BY <1>1, <1>2, <1>3, <2>1, CallChanges, <2>46
         DEF UndoFault, Goto, Report, dirs, records, PublishSteps, UndoSteps,
            RestoreSteps, RollbackSteps, RecoverySteps
    <2>47. CASE RollbackFault
      BY <1>1, <1>2, <1>3, <2>1, CallChanges, <2>47
         DEF RollbackFault, Goto, Report, dirs, records, PublishSteps, UndoSteps,
            RestoreSteps, RollbackSteps, RecoverySteps
    <2>48. CASE RecoverFault
      BY <1>1, <1>2, <1>3, <2>1, CallChanges, <2>48
         DEF RecoverFault, Goto, Report, dirs, records, PublishSteps, UndoSteps,
            RestoreSteps, RollbackSteps, RecoverySteps
    <2>49. CASE MarkFault
      BY <1>1, <1>2, <1>3, <2>1, CallChanges, <2>49
         DEF MarkFault, Goto, Report, dirs, records, PublishSteps, UndoSteps,
            RestoreSteps, RollbackSteps, RecoverySteps
    <2>50. QED
      BY <1>4, <2>2, <2>3, <2>4, <2>5, <2>6, <2>7, <2>8, <2>9, <2>10, <2>11, <2>12,
         <2>13, <2>14, <2>15, <2>16, <2>17, <2>18, <2>19, <2>20, <2>21, <2>22, <2>23,
         <2>24, <2>25, <2>26, <2>27, <2>28, <2>29, <2>30, <2>31, <2>32, <2>33, <2>34,
         <2>35, <2>36, <2>37, <2>38, <2>39, <2>40, <2>41, <2>42, <2>43, <2>44, <2>45,
         <2>46, <2>47, <2>48, <2>49
         DEF PublisherStep, Work, Publish, Compensate, Rollback, Recover,
            RecoverJournal, Failure
  <1>5. CASE CallPublish \/ CallRollback \/ RollbackCommand
    <2>1. CASE CallPublish
      BY <1>1, <1>2, <2>1, CallChanges
         DEF CallPublish, PublishStart, records, RecoverySteps, UInv, Numbers
    <2>2. CASE CallRollback \/ RollbackCommand
      <3>1. upc \in {"b_slot", "ready"} /\ upc' \in {"b_wait", "m_wait"}
        BY <2>2 DEF CallRollback, RollbackCommand
      <3>2. journal' = journal /\ pc' \in {"r_snapshot", "r_restore"}
        BY <2>2 DEF CallRollback, RollbackCommand, RollbackStart, records
      <3>3. QED
        BY <3>1, <3>2 DEF RecoverySteps
    <2>3. QED
      BY <1>5, <2>1, <2>2
  <1>6. CASE Build \/ RemoveSkill
    BY <1>2, <1>6 DEF Build, RemoveSkill, Step, records, RecoverySteps, Away
  <1>7. CASE UpdateProcessStart \/ UpdateCrash \/ UpdateExit \/ EditIndex
    BY <1>7
       DEF UpdateProcessStart, UpdateCrash, UpdateExit, EditIndex, Start, Crash, Exit, dirs,
           records, uvars, RecoverySteps
  <1>8. CASE Execute /\ ~CallPublish
    BY <1>2, <1>8
       DEF Execute, SaveSchema, BeginTransaction, MarkPublishing, MarkPublished, PublishRaised,
           DropTransaction, SaveUnits, MarkSchema, MarkCommitted, RemoveTransaction,
           ExecuteFault, Step, Conclude, HasControl, vars, Away, RecoverySteps
  <1>9. CASE UndoTransaction /\ ~CallRollback /\ ~RemoveSkill
    BY <1>2, <1>9
       DEF UndoTransaction, RestoreSchema, RollbackReturned, NothingToRollBack, ForeignSkill,
           FinishRollback, UndoTxFault, BlockTransaction, Refuse, Step, Conclude, HasControl,
           vars, records, Away, RecoverySteps
  <1>10. CASE ResumePending
    BY <1>2, <1>10
       DEF ResumePending, ResumeTransaction, ResumeStart, ResumeDrop, ResumeCommit,
           ResumeRollback, ResumeRefuse, Resume, CommitRecovered, RemoveRecovered,
           ResumeFault, ResumeDone, Refuse, Step, HasControl, vars, records, Away,
           RecoverySteps
  <1>11. CASE RollbackReported \/ UpdateStart \/ UpdateDecline \/ UNCHANGED allvars
    BY <1>2, <1>11
       DEF RollbackReported, UpdateStart, UpdateDecline, Step, Conclude, HasControl, allvars,
           uvars, vars, Away, RecoverySteps
  <1>12. QED
    BY <1>4, <1>5, <1>6, <1>7, <1>8, <1>9, <1>10, <1>11
       DEF UNext, UpdateProgress, Commands, Execute, UndoTransaction

-----------------------------------------------------------------------------
(* Which step does what. *)

\* A call of the publisher begins with its call and goes on by its steps.
LEMMA CallsGoOn ==
    ASSUME [UNext]_allvars
    PROVE  /\ upc' = "u_wait" => CallPublish \/ upc = "u_wait"
           /\ upc' = "b_wait" => CallRollback \/ upc = "b_wait"
           /\ upc' = "m_wait" => RollbackCommand \/ upc = "m_wait"
           /\ upc' = "start" => UpdateProcessStart \/ upc = "start"
           /\ upc \in {"u_wait", "b_wait", "m_wait", "start"} /\ upc' = upc =>
                  PublisherStep \/ UNCHANGED allvars
  <1>1. CASE Execute
    BY <1>1
       DEF Execute, SaveSchema, BeginTransaction, MarkPublishing, CallPublish, MarkPublished,
           PublishRaised, DropTransaction, SaveUnits, MarkSchema, MarkCommitted,
           RemoveTransaction, ExecuteFault, Step, Conclude
  <1>2. CASE UndoTransaction
    BY <1>2
       DEF UndoTransaction, RestoreSchema, CallRollback, RollbackReturned, NothingToRollBack,
           RemoveSkill, ForeignSkill, FinishRollback, UndoTxFault, BlockTransaction, Refuse,
           Step, Conclude
  <1>3. CASE ResumePending
    BY <1>3
       DEF ResumePending, ResumeTransaction, ResumeStart, ResumeDrop, ResumeCommit,
           ResumeRollback, ResumeRefuse, Resume, CommitRecovered, RemoveRecovered,
           ResumeFault, ResumeDone, Refuse, Step
  <1>4. CASE PublisherStep
    BY <1>4 DEF PublisherStep
  <1>5. CASE RollbackReported \/ Commands
    BY <1>5
       DEF RollbackReported, Commands, Build, UpdateStart, UpdateDecline, RollbackCommand,
           Step, Conclude
  <1>6. CASE UpdateProcessStart \/ UpdateCrash \/ UpdateExit \/ EditIndex
    BY <1>6 DEF UpdateProcessStart, UpdateCrash, UpdateExit, EditIndex, uvars
  <1>7. CASE UNCHANGED allvars
    BY <1>7 DEF allvars, uvars
  <1>8. QED
    BY <1>1, <1>2, <1>3, <1>4, <1>5, <1>6, <1>7 DEF UNext, UpdateProgress

\* A tree moves, and a journal of the publisher changes, in a step of the publisher;
\* the use case makes a Skill or removes it.
LEMMA TreesStay ==
    ASSUME [UNext]_allvars, ~PublisherStep, ~Build, ~RemoveSkill
    PROVE  UNCHANGED <<slot, snap, staging, displaced, journal>>
  <1>1. CASE Execute
    BY <1>1
       DEF Execute, SaveSchema, BeginTransaction, MarkPublishing, CallPublish, PublishStart,
           MarkPublished, PublishRaised, DropTransaction, SaveUnits, MarkSchema,
           MarkCommitted, RemoveTransaction, ExecuteFault, vars, dirs, records
  <1>2. CASE UndoTransaction
    BY <1>2
       DEF UndoTransaction, RestoreSchema, CallRollback, RollbackStart, RollbackReturned,
           NothingToRollBack, ForeignSkill, FinishRollback, UndoTxFault, BlockTransaction,
           Refuse, vars, dirs, records
  <1>3. CASE ResumePending
    BY <1>3
       DEF ResumePending, ResumeTransaction, ResumeStart, ResumeDrop, ResumeCommit,
           ResumeRollback, ResumeRefuse, Resume, CommitRecovered, RemoveRecovered,
           ResumeFault, ResumeDone, Refuse, vars, dirs, records
  <1>4. CASE RollbackReported \/ Commands
    BY <1>4
       DEF RollbackReported, Commands, UpdateStart, UpdateDecline, RollbackCommand,
           RollbackStart, vars, dirs, records
  <1>5. CASE UpdateProcessStart \/ UpdateCrash \/ UpdateExit \/ EditIndex
    BY <1>5
       DEF UpdateProcessStart, UpdateCrash, UpdateExit, EditIndex, Start, Crash, Exit, dirs,
           records
  <1>6. CASE UNCHANGED allvars
    BY <1>6 DEF allvars, vars
  <1>7. QED
    BY <1>1, <1>2, <1>3, <1>4, <1>5, <1>6 DEF UNext, UpdateProgress

\* A failure at a step of a window costs what the window is about.
LEMMA CostGrows ==
    ASSUME [UNext]_allvars
    PROVE  cost \subseteq cost'
  <1>1. CASE Execute
    BY <1>1
       DEF Execute, SaveSchema, BeginTransaction, MarkPublishing, CallPublish, MarkPublished,
           PublishRaised, DropTransaction, SaveUnits, MarkSchema, MarkCommitted,
           RemoveTransaction, ExecuteFault, Spend, uhistory
  <1>2. CASE UndoTransaction
    BY <1>2
       DEF UndoTransaction, RestoreSchema, CallRollback, RollbackReturned, NothingToRollBack,
           RemoveSkill, ForeignSkill, FinishRollback, UndoTxFault, BlockTransaction,
           TakeNewest, Spend, uhistory
  <1>3. CASE ResumePending
    BY <1>3
       DEF ResumePending, ResumeTransaction, ResumeStart, ResumeDrop, ResumeCommit,
           ResumeRollback, ResumeRefuse, Resume, CommitRecovered, RemoveRecovered,
           ResumeFault, ResumeDone, Spend, uhistory
  <1>4. CASE PublisherStep \/ RollbackReported \/ Commands
    BY <1>4
       DEF PublisherStep, RollbackReported, Commands, Build, UpdateStart, UpdateDecline,
           RollbackCommand, TakeNewest, Spend, uhistory
  <1>5. CASE UpdateProcessStart \/ UpdateCrash \/ UpdateExit \/ EditIndex
    BY <1>5 DEF UpdateProcessStart, UpdateCrash, UpdateExit, EditIndex, Spend, uhistory, uvars
  <1>6. CASE UNCHANGED allvars
    BY <1>6 DEF allvars, uvars
  <1>7. QED
    BY <1>1, <1>2, <1>3, <1>4, <1>5, <1>6 DEF UNext, UpdateProgress

-----------------------------------------------------------------------------
(* The compensation of a publication. *)

\* What the compensation has put back at each of its steps.
WithdrawalFollows ==
    upc = "u_wait" =>
        /\ \A m \in Ops : snap[m] # upd.n
        /\ pc = "abort" =>
               /\ snap[upd.n] \in {upd.before, NoTree}
               /\ snap[upd.n] = NoTree =>
                      IF call.swapped THEN upd.before = NoTree ELSE slot = upd.before
        /\ pc \in {"mark_swapped", "point", "log", "index", "commit", "forget"} => call.swapped
        /\ pc \in {"displace", "reinstate"} => snap[upd.n] = upd.before
        /\ pc = "unpublish" => upd.before = NoTree
        /\ pc \in {"discard", "forget_failed", "repoint", "log_failed", "index_failed"} =>
               slot = upd.before

\* What a publication that is over reports of the slot.
ReportFollows ==
    upc = "u_wait" /\ pc = "idle" =>
        \/ outcome = "published" /\ slot = upd.n
        \/ outcome \in {"rejected", "restored", "error"} /\ slot = upd.before
        \/ outcome = "rollback_failed"

\* A compensation gives up at a step of both windows, or in that of a first
\* publication.
FailureCosts ==
    upc = "u_wait" /\ (pc = "putback" \/ (pc = "idle" /\ outcome = "rollback_failed")) =>
        "backed" \in cost /\ ("stays" \in cost \/ upd.before = NoTree)

\* The compensation begins with the staging tree.
StagingCleaned ==
    upc = "u_wait" /\ pc \in {"idle", "unpublish", "forget_failed", "repoint", "log_failed",
                              "index_failed", "mark_swapped", "point", "log", "index",
                              "commit", "forget"} \cup RestoreSteps =>
        upd.n \notin staging

\* What is said of a publication, at every step of its call.
PublicationInv ==
    /\ WithdrawalFollows /\ ReportFollows /\ FailureCosts /\ StagingCleaned

\* Every step keeps what is said of the publication and its compensation.
LEMMA PublicationInvNext ==
    ASSUME UInv, UInv', TreesTaken, FoundIsOlder, PublicationInv, [UNext]_allvars
    PROVE  PublicationInv'
  <1> USE DEF PublicationInv, WithdrawalFollows, ReportFollows, FailureCosts, StagingCleaned
  <1>1. CASE upc' # "u_wait"
    BY <1>1
  <1>2. CASE CallPublish
    <2>1. /\ upc' = "u_wait" /\ pc' = "compile" /\ snap' = snap /\ upd' = upd
          /\ \A m \in Ops : snap[m] <= clock /\ snap[m] \in Nat
          /\ upd.n = clock + 1 /\ clock \in Nat
      BY <1>2, PlacesTyped
         DEF CallPublish, PublishStart, dirs, TreesTaken, UInv, Numbers, PlaceTypes
    <2>2. QED
      BY <2>1 DEF RestoreSteps
  <1>3. CASE UNCHANGED allvars
    BY <1>3 DEF allvars, vars, uvars
  <1>4. CASE PublisherStep /\ upc = "u_wait" /\ upc' = "u_wait"
    <2>1. /\ (Work /\ UNCHANGED cost) \/ (Failure /\ Spend(UpdateFaultWindow))
          /\ upd' = upd /\ upc = "u_wait" /\ cost \subseteq cost'
      BY <1>4, CostGrows DEF PublisherStep
    <2>2. /\ call.op = "publish" /\ call.id = upd.n /\ call.before = upd.before
          /\ upd.n \in Ops /\ upd.n # NoTree
          /\ pc \in PublishSteps \cup UndoSteps \cup RestoreSteps \cup {"idle"}
          /\ pc \notin RollbackSteps \cup RecoverySteps
      BY <1>4, MaxOpsAssumption
         DEF UInv, Control, BeforeFollowsStep, ExecuteSteps, IInv, TypeOK, CallMatchesStep, Ops,
             NoTree, Steps
    <2>3. PlaceTypes /\ upd.before < upd.n /\ upd.before \in Nat /\ upd.n \in Nat
      BY <2>1, PlacesTyped, UpdFields
         DEF FoundIsOlder, UInv, UTypeOK, Control, ExecuteSteps, Trees
    <2>4. /\ pc \in {"compile", "begin", "name", "snapshot"} => slot = upd.before
          /\ pc \in {"mark_snapshotted", "swap", "mark_swapped", "point", "log", "index",
                     "commit", "forget"} => snap[upd.n] = upd.before
      BY <2>1 DEF UInv, BeforeFollowsStep
    <2>5. /\ pc \in {"compile", "begin", "name", "snapshot"} => snap[upd.n] = NoTree
          /\ pc \in {"mark_swapped", "point", "log", "index", "commit", "forget", "unpublish"}
                => slot = upd.n
          /\ pc \in {"compile", "begin", "name", "snapshot"} => ~call.swapped
          /\ pc \in {"mark_snapshotted", "swap"} => slot = NoTree /\ ~call.swapped
      BY <2>2 DEF UInv, IInv, SlotFollowsStep
    <2>6. CASE Compile
      BY <2>1, <2>2, <2>3, <2>4, <2>5, CallChanges, <2>6
         DEF Compile, Goto, Report, SetJournal, dirs, PlaceTypes, PublishSteps,
            UndoSteps, RestoreSteps
    <2>7. CASE BeginJournal
      BY <2>1, <2>2, <2>3, <2>4, <2>5, CallChanges, <2>7
         DEF BeginJournal, Goto, Report, SetJournal, dirs, PlaceTypes, PublishSteps,
            UndoSteps, RestoreSteps
    <2>8. CASE NameSnapshot
      BY <2>1, <2>2, <2>3, <2>4, <2>5, CallChanges, <2>8
         DEF NameSnapshot, Goto, Report, SetJournal, dirs, PlaceTypes, PublishSteps,
            UndoSteps, RestoreSteps
    <2>9. CASE TakeSnapshot
      BY <2>1, <2>2, <2>3, <2>4, <2>5, CallChanges, <2>9
         DEF TakeSnapshot, Goto, Report, SetJournal, dirs, PlaceTypes, PublishSteps,
            UndoSteps, RestoreSteps
    <2>10. CASE MarkSnapshotted
      BY <2>1, <2>2, <2>3, <2>4, <2>5, CallChanges, <2>10
         DEF MarkSnapshotted, Goto, Report, SetJournal, dirs, PlaceTypes, PublishSteps,
            UndoSteps, RestoreSteps
    <2>11. CASE Swap
      BY <2>1, <2>2, <2>3, <2>4, <2>5, CallChanges, <2>11
         DEF Swap, Goto, Report, SetJournal, dirs, PlaceTypes, PublishSteps, UndoSteps,
            RestoreSteps
    <2>12. CASE MarkSwapped
      BY <2>1, <2>2, <2>3, <2>4, <2>5, CallChanges, <2>12
         DEF MarkSwapped, Goto, Report, SetJournal, dirs, PlaceTypes, PublishSteps,
            UndoSteps, RestoreSteps
    <2>13. CASE WritePointer
      BY <2>1, <2>2, <2>3, <2>4, <2>5, CallChanges, <2>13
         DEF WritePointer, Goto, Report, SetJournal, dirs, PlaceTypes, PublishSteps,
            UndoSteps, RestoreSteps
    <2>14. CASE LogSuccess
      BY <2>1, <2>2, <2>3, <2>4, <2>5, CallChanges, <2>14
         DEF LogSuccess, Goto, Report, SetJournal, dirs, PlaceTypes, PublishSteps,
            UndoSteps, RestoreSteps
    <2>15. CASE UpdateIndex
      BY <2>1, <2>2, <2>3, <2>4, <2>5, CallChanges, <2>15
         DEF UpdateIndex, Goto, Report, SetJournal, dirs, PlaceTypes, PublishSteps,
            UndoSteps, RestoreSteps
    <2>16. CASE CommitJournal
      BY <2>1, <2>2, <2>3, <2>4, <2>5, CallChanges, <2>16
         DEF CommitJournal, Goto, Report, SetJournal, dirs, PlaceTypes, PublishSteps,
            UndoSteps, RestoreSteps
    <2>17. CASE ForgetJournal
      <3>1. WithdrawalFollows'
        BY <2>1, <2>2, <2>3, <2>4, <2>5, CallChanges, <2>17
           DEF ForgetJournal, Goto, Report, SetJournal, dirs, PlaceTypes, PublishSteps,
              UndoSteps, RestoreSteps
      <3>2. ReportFollows'
        BY <2>1, <2>2, <2>3, <2>4, <2>5, CallChanges, <2>17
           DEF ForgetJournal, Goto, Report, SetJournal, dirs, PlaceTypes, PublishSteps,
              UndoSteps, RestoreSteps
      <3>3. FailureCosts'
        BY <2>1, <2>2, <2>3, <2>4, <2>5, CallChanges, <2>17
           DEF ForgetJournal, Goto, Report, SetJournal, dirs, PlaceTypes, PublishSteps,
              UndoSteps, RestoreSteps
      <3>4. StagingCleaned'
        BY <2>1, <2>2, <2>3, <2>4, <2>5, CallChanges, <2>17
           DEF ForgetJournal, Goto, Report, SetJournal, dirs, PlaceTypes, PublishSteps,
              UndoSteps, RestoreSteps
      <3>5. QED
        BY <3>1, <3>2, <3>3, <3>4
    <2>18. CASE Abort
      <3>1. WithdrawalFollows'
        BY <2>1, <2>2, <2>3, <2>4, <2>5, CallChanges, <2>18
           DEF Abort, Goto, Report, SetJournal, dirs, PlaceTypes, PublishSteps, UndoSteps,
              RestoreSteps
      <3>2. ReportFollows'
        BY <2>1, <2>2, <2>3, <2>4, <2>5, CallChanges, <2>18
           DEF Abort, Goto, Report, SetJournal, dirs, PlaceTypes, PublishSteps, UndoSteps,
              RestoreSteps
      <3>3. FailureCosts'
        BY <2>1, <2>2, <2>3, <2>4, <2>5, CallChanges, <2>18
           DEF Abort, Goto, Report, SetJournal, dirs, PlaceTypes, PublishSteps, UndoSteps,
              RestoreSteps
      <3>4. StagingCleaned'
        BY <2>1, <2>2, <2>3, <2>4, <2>5, CallChanges, <2>18
           DEF Abort, Goto, Report, SetJournal, dirs, PlaceTypes, PublishSteps, UndoSteps,
              RestoreSteps
      <3>5. QED
        BY <3>1, <3>2, <3>3, <3>4
    <2>19. CASE Displace
      BY <2>1, <2>2, <2>3, <2>4, <2>5, CallChanges, <2>19
         DEF Displace, Goto, Report, SetJournal, dirs, PlaceTypes, PublishSteps,
            UndoSteps, RestoreSteps
    <2>20. CASE Reinstate
      BY <2>1, <2>2, <2>3, <2>4, <2>5, CallChanges, <2>20
         DEF Reinstate, Goto, Report, SetJournal, dirs, PlaceTypes, PublishSteps,
            UndoSteps, RestoreSteps
    <2>21. CASE Discard
      BY <2>1, <2>2, <2>3, <2>4, <2>5, CallChanges, <2>21
         DEF Discard, Goto, Report, SetJournal, dirs, PlaceTypes, PublishSteps,
            UndoSteps, RestoreSteps
    <2>22. CASE PutBack
      <3>1. WithdrawalFollows'
        BY <2>1, <2>2, <2>3, <2>4, <2>5, CallChanges, <2>22
           DEF PutBack, Goto, Report, SetJournal, dirs, PlaceTypes, PublishSteps,
              UndoSteps, RestoreSteps
      <3>2. ReportFollows'
        BY <2>1, <2>2, <2>3, <2>4, <2>5, CallChanges, <2>22
           DEF PutBack, Goto, Report, SetJournal, dirs, PlaceTypes, PublishSteps,
              UndoSteps, RestoreSteps
      <3>3. FailureCosts'
        BY <2>1, <2>2, <2>3, <2>4, <2>5, CallChanges, <2>22
           DEF PutBack, Goto, Report, SetJournal, dirs, PlaceTypes, PublishSteps,
              UndoSteps, RestoreSteps
      <3>4. StagingCleaned'
        BY <2>1, <2>2, <2>3, <2>4, <2>5, CallChanges, <2>22
           DEF PutBack, Goto, Report, SetJournal, dirs, PlaceTypes, PublishSteps,
              UndoSteps, RestoreSteps
      <3>5. QED
        BY <3>1, <3>2, <3>3, <3>4
    <2>23. CASE Unpublish
      BY <2>1, <2>2, <2>3, <2>4, <2>5, CallChanges, <2>23
         DEF Unpublish, Goto, Report, SetJournal, dirs, PlaceTypes, PublishSteps,
            UndoSteps, RestoreSteps
    <2>24. CASE ForgetFailed
      BY <2>1, <2>2, <2>3, <2>4, <2>5, CallChanges, <2>24
         DEF ForgetFailed, Goto, Report, SetJournal, dirs, PlaceTypes, PublishSteps,
            UndoSteps, RestoreSteps
    <2>25. CASE Repoint
      BY <2>1, <2>2, <2>3, <2>4, <2>5, CallChanges, <2>25
         DEF Repoint, Goto, Report, SetJournal, dirs, PlaceTypes, PublishSteps,
            UndoSteps, RestoreSteps
    <2>26. CASE LogFailure
      BY <2>1, <2>2, <2>3, <2>4, <2>5, CallChanges, <2>26
         DEF LogFailure, Goto, Report, SetJournal, dirs, PlaceTypes, PublishSteps,
            UndoSteps, RestoreSteps
    <2>27. CASE IndexFailure
      BY <2>1, <2>2, <2>3, <2>4, <2>5, CallChanges, <2>27
         DEF IndexFailure, Goto, Report, SetJournal, dirs, PlaceTypes, PublishSteps,
            UndoSteps, RestoreSteps
    <2>28. CASE PublishFault /\ Spend(UpdateFaultWindow)
      BY <2>1, <2>2, <2>3, <2>4, <2>5, <2>28
         DEF PublishFault, Goto, Report, Spend, UpdateFaultWindow, UpdateCosts, dirs,
            PlaceTypes, PublishSteps, UndoSteps, RestoreSteps
    <2>29. CASE UndoFault /\ Spend(UpdateFaultWindow)
      <3>1. WithdrawalFollows'
        BY <2>1, <2>2, <2>3, <2>4, <2>5, <2>29
           DEF UndoFault, Goto, Report, Spend, UpdateFaultWindow, UpdateCosts, dirs,
              PlaceTypes, PublishSteps, UndoSteps, RestoreSteps
      <3>2. ReportFollows'
        BY <2>1, <2>2, <2>3, <2>4, <2>5, <2>29
           DEF UndoFault, Goto, Report, Spend, UpdateFaultWindow, UpdateCosts, dirs,
              PlaceTypes, PublishSteps, UndoSteps, RestoreSteps
      <3>3. FailureCosts'
        BY <2>1, <2>2, <2>3, <2>4, <2>5, <2>29
           DEF UndoFault, Goto, Report, Spend, UpdateFaultWindow, UpdateCosts, dirs,
              PlaceTypes, PublishSteps, UndoSteps, RestoreSteps
      <3>4. StagingCleaned'
        BY <2>1, <2>2, <2>3, <2>4, <2>5, <2>29
           DEF UndoFault, Goto, Report, Spend, UpdateFaultWindow, UpdateCosts, dirs,
              PlaceTypes, PublishSteps, UndoSteps, RestoreSteps
      <3>5. QED
        BY <3>1, <3>2, <3>3, <3>4
    <2>30. ~Rollback /\ ~RollbackFault
      BY <2>2
         DEF Rollback, RollbackSnapshot, RollbackRestore, RollbackPoint, RollbackLog,
             RollbackIndex, RollbackFault, RollbackSteps
    <2>31. ~Recover /\ ~RecoverFault /\ ~MarkFault
      BY <2>2
         DEF Recover, RecoverJournal, RecoverCommitted, RecoverForward, RecoverBack,
             RecoverAbandon, RecoverSwapped, RecoverLost, RecoverRefuse, Pick, RecoverMark,
             RecoverPoint, RecoverVerify, RecoverLog, RecoverIndex, RecoverUnpoint,
             RecoverForget, RecoverBlock, RecoverDone, RecoverFault, MarkFault, RecoverySteps
    <2>32. QED
      BY <2>1, <2>6, <2>7, <2>8, <2>9, <2>10, <2>11, <2>12, <2>13, <2>14, <2>15, <2>16,
         <2>17, <2>18, <2>19, <2>20, <2>21, <2>22, <2>23, <2>24, <2>25, <2>26, <2>27,
         <2>28, <2>29, <2>30, <2>31
         DEF Work, Publish, Compensate, Recover, Rollback, Failure
  <1>5. QED
    BY <1>1, <1>2, <1>3, <1>4, CallsGoOn

\* Who writes which state into which journal.
JournalWritten(n) ==
    /\ n = upd.n
    /\ \/ upc = "u_begin" /\ upc' = "u_publishing" /\ tx'[n].state = "prepared"
                        /\ tx'[n].snapshot = tx[n].snapshot
       \/ MarkPublishing /\ tx'[n].state = "publishing"
                         /\ tx'[n].snapshot = tx[n].snapshot
       \/ MarkPublished /\ tx'[n].state = "skill_published"
                        /\ tx'[n].snapshot = (call.before # NoTree)
       \/ MarkSchema /\ tx'[n].state = "schema_committed"
                     /\ tx'[n].snapshot = tx[n].snapshot
       \/ upc = "u_commit" /\ upc' = "u_remove" /\ tx'[n].state = "committed"
       \/ upc = "v_commit" /\ upc' = "v_remove" /\ tx'[n].state = "committed"
       \/ RemoveTransaction /\ tx'[n].state = "none" /\ ~tx'[n].snapshot
       \/ RemoveRecovered /\ tx'[n].state = "none" /\ ~tx'[n].snapshot
       \/ FinishRollback /\ tx'[n].state = "none" /\ ~tx'[n].snapshot
       \/ DropTransaction /\ tx'[n].state = "none"
                          /\ tx'[n].snapshot = tx[n].snapshot
       \/ BlockTransaction /\ tx'[n].state = "rollback_required"

\* A journal keeps its state and its snapshot, or one of these steps writes it.
LEMMA JournalsWritten ==
    ASSUME UInv, [UNext]_allvars, NEW n \in Ops
    PROVE  (tx'[n].state = tx[n].state /\ tx'[n].snapshot = tx[n].snapshot) \/ JournalWritten(n)
  <1>1. /\ tx \in [Ops -> Txs] /\ pointer \in Trees /\ index \in Entries
        /\ upc \in ExecuteSteps \cup UndoTxSteps \cup {"v_commit", "v_remove"} => upd.n \in Ops
    BY DEF UInv, UTypeOK, TypeOK, Control
  <1>2. CASE BeginTransaction \/ MarkPublishing \/ MarkCommitted \/ CommitRecovered
               \/ DropTransaction \/ BlockTransaction
    <2>1. /\ upd.n \in Ops
          /\ \/ tx' = tx
             \/ BeginTransaction /\ SetState(upd.n, "prepared")
             \/ MarkPublishing /\ SetState(upd.n, "publishing")
             \/ (MarkCommitted \/ CommitRecovered) /\ SetState(upd.n, "committed")
             \/ DropTransaction /\ SetState(upd.n, "none")
             \/ BlockTransaction /\ SetState(upd.n, "rollback_required")
      BY <1>1, <1>2
         DEF BeginTransaction, MarkPublishing, MarkCommitted, CommitRecovered, DropTransaction,
             BlockTransaction, Step, Conclude, Refuse, ExecuteSteps, UndoTxSteps
    <2>2. \A s \in TxStates : SetState(upd.n, s) =>
              IF n = upd.n THEN tx'[n].state = s /\ tx'[n].snapshot = tx[n].snapshot
                           ELSE tx'[n] = tx[n]
      BY <1>1, <2>1, StateWritten
    <2>3. QED
      BY <2>1, <2>2
         DEF JournalWritten, TxStates, BeginTransaction, MarkCommitted, CommitRecovered, Step
  <1>3. CASE MarkPublished
    <2>1. upd.n \in Ops
      BY <1>1, <1>3 DEF MarkPublished, Step, ExecuteSteps
    <2>2. QED
      BY <1>1, <1>3, <2>1, PublicationWritten DEF JournalWritten
  <1>4. CASE MarkSchema
    <2>1. /\ upd.n \in Ops
          /\ tx' = [tx EXCEPT ![upd.n].state = "schema_committed", ![upd.n].schema = schema]
      BY <1>1, <1>4 DEF MarkSchema, Step, ExecuteSteps
    <2>2. IF n = upd.n
          THEN tx'[n].state = "schema_committed" /\ tx'[n].snapshot = tx[n].snapshot
          ELSE tx'[n] = tx[n]
      BY <1>1, <2>1 DEF Txs
    <2>3. QED
      BY <1>4, <2>2 DEF JournalWritten
  <1>5. CASE RemoveTransaction \/ RemoveRecovered \/ FinishRollback
    <2>1. upd.n \in Ops /\ tx' = [tx EXCEPT ![upd.n] = NoTx]
      BY <1>1, <1>5
         DEF RemoveTransaction, RemoveRecovered, FinishRollback, Step, Conclude, ExecuteSteps,
             UndoTxSteps
    <2>2. n = upd.n => ~tx'[n].snapshot
      BY <1>1, <2>1 DEF NoTx
    <2>3. QED
      BY <1>1, <1>5, <2>1, <2>2, JournalRemoved DEF JournalWritten
  <1>6. CASE Execute
    BY <1>2, <1>3, <1>4, <1>5, <1>6
       DEF Execute, SaveSchema, CallPublish, PublishRaised, SaveUnits, ExecuteFault, journals
  <1>7. CASE UndoTransaction
    BY <1>2, <1>5, <1>7
       DEF UndoTransaction, RestoreSchema, CallRollback, RollbackReturned, NothingToRollBack,
           RemoveSkill, ForeignSkill, UndoTxFault, journals
  <1>8. CASE ResumePending
    BY <1>2, <1>5, <1>8
       DEF ResumePending, ResumeTransaction, ResumeStart, ResumeDrop, ResumeCommit,
           ResumeRollback, ResumeRefuse, Resume, ResumeFault, ResumeDone, journals
  <1>9. CASE PublisherStep \/ RollbackReported \/ Commands
    BY <1>9
       DEF PublisherStep, RollbackReported, Commands, Build, UpdateStart, UpdateDecline,
           RollbackCommand, journals
  <1>10. CASE UpdateProcessStart \/ UpdateCrash \/ UpdateExit \/ EditIndex
    BY <1>10 DEF UpdateProcessStart, UpdateCrash, UpdateExit, EditIndex, uvars, journals
  <1>11. CASE UNCHANGED allvars
    BY <1>11 DEF allvars, uvars
  <1>12. QED
    BY <1>6, <1>7, <1>8, <1>9, <1>10, <1>11 DEF UNext, UpdateProgress

\* The tree of an update that was published is in the slot until it is over.
PublishedInPlace ==
    upc \in {"u_schema", "u_mark_schema", "u_commit", "u_remove", "v_commit"} => slot = upd.n

\* Every step keeps it there.
LEMMA PublishedInPlaceNext ==
    ASSUME UInv, ReportFollows, PublishedInPlace, [UNext]_allvars
    PROVE  PublishedInPlace'
  <1> USE DEF PublishedInPlace, ReportFollows
  <1>1. upc \notin Away => pc = "idle"
    BY DEF UInv, Control
  <1>2. CASE PublisherStep
    BY <1>1, <1>2, ClockStays DEF PublisherStep, Away
  <1>3. CASE Execute
    BY <1>1, <1>3
       DEF Execute, SaveSchema, BeginTransaction, MarkPublishing, CallPublish,
          MarkPublished, PublishRaised, DropTransaction, SaveUnits, MarkSchema,
          MarkCommitted, RemoveTransaction, ExecuteFault, Step, Conclude, HasControl,
          Start, Exit, vars, dirs, Unfinished, TransactionVisible, SchemaCommitVisible
  <1>4. CASE UndoTransaction
    BY <1>1, <1>4
       DEF UndoTransaction, Refuse, RestoreSchema, CallRollback, RollbackReturned,
          NothingToRollBack, RemoveSkill, ForeignSkill, FinishRollback, UndoTxFault,
          BlockTransaction, Step, Conclude, HasControl, Start, Exit, vars, dirs,
          Unfinished, TransactionVisible, SchemaCommitVisible
  <1>5. CASE ResumePending
    BY <1>1, <1>5
       DEF ResumePending, ResumeTransaction, Resume, Refuse, ResumeStart, ResumeDrop,
          ResumeCommit, ResumeRollback, ResumeRefuse, CommitRecovered, RemoveRecovered,
          ResumeFault, ResumeDone, Step, Conclude, HasControl, Start, Exit, vars, dirs,
          Unfinished, TransactionVisible, SchemaCommitVisible
  <1>6. CASE RollbackReported \/ Commands
    BY <1>1, <1>6
       DEF RollbackReported, Commands, Build, UpdateStart, UpdateDecline,
          RollbackCommand, Step, Conclude, HasControl, Start, Exit, vars, dirs,
          Unfinished, TransactionVisible, SchemaCommitVisible
  <1>7. CASE UpdateProcessStart \/ UpdateCrash \/ UpdateExit \/ EditIndex
    BY <1>1, <1>7
       DEF UpdateProcessStart, UpdateCrash, UpdateExit, EditIndex, uvars, Step,
          Conclude, HasControl, Start, Exit, vars, dirs, Unfinished, TransactionVisible,
          SchemaCommitVisible
  <1>8. CASE UNCHANGED allvars
    BY <1>1, <1>8
       DEF allvars, uvars, Step, Conclude, HasControl, Start, Exit, vars, dirs,
          Unfinished, TransactionVisible, SchemaCommitVisible
  <1>9. QED
    BY <1>2, <1>3, <1>4, <1>5, <1>6, <1>7, <1>8 DEF UNext, UpdateProgress

\* Nothing that was committed is forgotten.
LEMMA DoneGrows ==
    ASSUME [UNext]_allvars
    PROVE  done \subseteq done' \/ Build
  <1>1. CASE Execute
    BY <1>1
       DEF Execute, SaveSchema, BeginTransaction, MarkPublishing, CallPublish, MarkPublished,
           PublishRaised, DropTransaction, SaveUnits, MarkSchema, MarkCommitted,
           RemoveTransaction, ExecuteFault, uhistory
  <1>2. CASE UndoTransaction
    BY <1>2
       DEF UndoTransaction, RestoreSchema, CallRollback, RollbackReturned, NothingToRollBack,
           RemoveSkill, ForeignSkill, FinishRollback, UndoTxFault, BlockTransaction, uhistory
  <1>3. CASE ResumePending
    BY <1>3
       DEF ResumePending, ResumeTransaction, ResumeStart, ResumeDrop, ResumeCommit,
           ResumeRollback, ResumeRefuse, Resume, CommitRecovered, RemoveRecovered,
           ResumeFault, ResumeDone, uhistory
  <1>4. CASE PublisherStep \/ RollbackReported \/ Commands
    BY <1>4
       DEF PublisherStep, RollbackReported, Commands, UpdateStart, UpdateDecline,
           RollbackCommand, uhistory
  <1>5. CASE UpdateProcessStart \/ UpdateCrash \/ UpdateExit \/ EditIndex \/ UNCHANGED allvars
    BY <1>5 DEF UpdateProcessStart, UpdateCrash, UpdateExit, EditIndex, uhistory, uvars, allvars
  <1>6. QED
    BY <1>1, <1>2, <1>3, <1>4, <1>5 DEF UNext, UpdateProgress

\* Before a Skill was built there is nothing to update.
NothingYet ==
    done = {} =>
        /\ NoJournal
        /\ upc \notin ExecuteSteps \cup UndoTxSteps \cup {"v_commit", "v_remove"}

\* Every step keeps that.
LEMMA NothingYetNext ==
    ASSUME UInv, NothingYet, [UNext]_allvars
    PROVE  NothingYet' /\ (done = {} /\ done' # {} => Build)
  <1> USE DEF NothingYet, NoJournal, ExecuteSteps, UndoTxSteps
  <1>1. NoJournal => schema = done
    BY DEF UInv, SchemaFollowsJournal
  <1>2. done \subseteq done' \/ Build
    BY DoneGrows
  <1>3. CASE Build
    BY <1>3 DEF Build
  <1>4. CASE done # {}
    BY <1>2, <1>3, <1>4
  <1>5. CASE done = {} /\ ~Build
    <2>1. /\ \A n \in Ops : tx'[n].state = "none"
          /\ upc \notin ExecuteSteps \cup UndoTxSteps \cup {"v_commit", "v_remove"}
      <3>1. upc \notin ExecuteSteps \cup UndoTxSteps \cup {"v_commit", "v_remove"}
        BY <1>5
      <3>2. ASSUME NEW n \in Ops, JournalWritten(n) PROVE FALSE
        BY <3>1, <3>2
           DEF JournalWritten, MarkPublishing, MarkPublished, MarkSchema, RemoveTransaction,
               RemoveRecovered, FinishRollback, DropTransaction, BlockTransaction, Step,
               Conclude, Refuse
      <3>3. QED
        BY <1>5, <3>1, <3>2, JournalsWritten
    <2>2. done' = done /\ upc' \notin ExecuteSteps \cup UndoTxSteps \cup {"v_commit", "v_remove"}
      <3>1. CASE Execute
        BY <1>1, <1>5, <2>1, <3>1
           DEF Execute, SaveSchema, BeginTransaction, MarkPublishing, CallPublish,
              MarkPublished, PublishRaised, DropTransaction, SaveUnits, MarkSchema,
              MarkCommitted, RemoveTransaction, ExecuteFault, Step, Conclude, uhistory
      <3>2. CASE UndoTransaction
        BY <1>1, <1>5, <2>1, <3>2
           DEF UndoTransaction, Refuse, RestoreSchema, CallRollback, RollbackReturned,
              NothingToRollBack, RemoveSkill, ForeignSkill, FinishRollback, UndoTxFault,
              BlockTransaction, Step, Conclude, uhistory
      <3>3. CASE ResumePending
        BY <1>1, <1>5, <2>1, <3>3
           DEF ResumePending, ResumeTransaction, Resume, Refuse, ResumeStart,
              ResumeDrop, ResumeCommit, ResumeRollback, ResumeRefuse, CommitRecovered,
              RemoveRecovered, ResumeFault, ResumeDone, Step, Conclude, uhistory
      <3>4. CASE PublisherStep \/ RollbackReported \/ Commands
        BY <1>1, <1>5, <2>1, <3>4
           DEF PublisherStep, RollbackReported, Commands, UpdateStart, UpdateDecline,
              RollbackCommand, Step, Conclude, uhistory
      <3>5. CASE UpdateProcessStart \/ UpdateCrash \/ UpdateExit \/ EditIndex \/ UNCHANGED allvars
        BY <1>1, <1>5, <2>1, <3>5
           DEF UpdateProcessStart, UpdateCrash, UpdateExit, EditIndex, uvars, allvars,
              Step, Conclude, uhistory
      <3>6. QED
        BY <3>1, <3>2, <3>3, <3>4, <3>5 DEF UNext, UpdateProgress
    <2>3. QED
      BY <1>5, <2>1, <2>2
  <1>6. QED
    BY <1>3, <1>4, <1>5

-----------------------------------------------------------------------------
(* The Skill stays. *)

\* The states of a journal whose publication is over.
Published == {"skill_published", "schema_committed"}

\* A Skill was built, and no failure hit the window that may cost it its place.
Firm == "stays" \notin cost /\ done # {}

\* A publication is over: its journal names the snapshot that a rollback restores.
SnapshotNamed == \A n \in Ops : tx[n].state \in Published => tx[n].snapshot

\* Nothing is undone that was not published.
UndonePublished == upc \in UndoTxSteps => tx[upd.n].state \in Published

\* The tree of number n is nowhere, and its recovery cannot roll forward.
Gone(n) ==
    /\ slot # n
    /\ \A m \in Ops : snap[m] # n
    /\ n \in staging => snap[n] = NoTree

\* A journal that outlives its publication call left no tree behind.
PublishingGone ==
    \A n \in Ops : tx[n].state = "publishing" /\ upc # "u_wait" => Gone(n)

\* An update finds a Skill.
FoundSkill ==
    upc \in {"u_save", "u_begin", "u_publishing", "u_publish", "u_wait"} => upd.before # NoTree

\* How far the publisher's journal of a publication has come.
JournalFollowsPublication ==
    upc = "u_wait" =>
        /\ pc # "forget" => journal[upd.n] # "committed"
        /\ pc \in {"snapshot", "mark_snapshotted"} => journal[upd.n] = "named"
        /\ pc = "name" => journal[upd.n] = "prepared"
        /\ pc \in {"swap", "mark_swapped"} => journal[upd.n] = "snapshotted"
        /\ pc \in {"mark_snapshotted", "swap", "mark_swapped", "point", "log", "index", "commit",
                   "abort", "displace", "reinstate"} /\ snap[upd.n] # NoTree =>
               journal[upd.n] \in {"named", "snapshotted", "swapped"}

\* The recovery of journal n has a tree to bring back.
Waiting(n) ==
    /\ snap[n] # NoTree
    /\ journal[n] \in {"named", "snapshotted", "swapped", "rollback_required"}
    /\ call.id = n => pc \notin {"rec_unpoint", "rec_forget"}

\* While the slot is empty somebody is bound to fill it.
EmptyHeld ==
    slot = NoTree =>
        \/ \E n \in Ops : tx[n].state \in Published \cup {"rollback_required"}
        \/ upc = "u_wait"
              /\ pc \in {"mark_snapshotted", "swap", "abort", "displace", "reinstate"}
        \/ upc = "m_wait" /\ pc \in {"r_restore", "displace", "reinstate"}
        \/ upc \in {"down", "start"} /\ pc # "idle" /\ \E n \in Ops : Waiting(n)

\* A rollback brings a tree back, or returns the one it set aside.
UndoHolds ==
    /\ upc = "m_wait" => pc # "putback"
    /\ upc = "m_wait" /\ pc = "r_restore" => snap[call.id] # NoTree
    /\ upc \in {"b_wait", "m_wait"} =>
         /\ pc \in {"r_snapshot", "r_restore"} =>
                snap[call.latest] # NoTree /\ call.latest # call.id
         /\ pc \in {"r_point", "r_log", "r_index"} => slot # NoTree
         /\ pc = "idle" /\ outcome = "rolled_back" => slot # NoTree
    /\ upc = "b_remove" => slot # NoTree

\* All of it.
Stays ==
    /\ SnapshotNamed /\ UndonePublished /\ PublishingGone /\ FoundSkill
    /\ JournalFollowsPublication /\ EmptyHeld /\ UndoHolds

\* The part of the invariant about the place of the Skill.
StaysInv == Firm => Stays

\* What the lemmas below have at hand of the state before the step.
Before ==
    /\ UInv /\ TreesTaken /\ FoundIsOlder /\ JournalsSettled /\ PublicationInv
    /\ PublishedInPlace /\ NothingYet

\* The step of the command and of the publisher that a publisher step starts from.
LEMMA WhoWaits ==
    ASSUME Before, PublisherStep
    PROVE  /\ upc' = (IF pc' = "down" THEN "down" ELSE upc)
           /\ UNCHANGED <<tx, schema, saved, upd, done>> /\ clock' = clock
           /\ pc \notin {"idle", "down"} /\ upc \in {"start", "u_wait", "b_wait", "m_wait"}
           /\ upc = "u_wait" =>
                /\ call.op = "publish" /\ call.id = upd.n /\ upd.n \in Ops
                /\ pc \in PublishSteps \cup UndoSteps \cup RestoreSteps
                /\ pc \notin RollbackSteps \cup RecoverySteps
           /\ upc \in {"b_wait", "m_wait"} =>
                /\ call.op = "rollback" /\ call.id \in Ops
                /\ pc \in RollbackSteps \cup RestoreSteps
                /\ pc \notin PublishSteps \cup UndoSteps \cup RecoverySteps
           /\ upc = "start" => pc \in RecoverySteps /\ call.op = "recover"
  <1>1. /\ upc' = (IF pc' = "down" THEN "down" ELSE upc)
        /\ UNCHANGED <<tx, schema, saved, upd, done>> /\ clock' = clock
        /\ pc \notin {"idle", "down"}
    BY ClockStays DEF PublisherStep, journals
  <1>2. upc \in {"start", "u_wait", "b_wait", "m_wait"}
    BY <1>1 DEF Before, UInv, Control, Away
  <1>3. upc = "u_wait" =>
           /\ call.op = "publish" /\ call.id = upd.n /\ upd.n \in Ops
           /\ pc \in PublishSteps \cup UndoSteps \cup RestoreSteps
           /\ pc \notin RollbackSteps \cup RecoverySteps
    BY <1>1 DEF Before, UInv, Control, ExecuteSteps, IInv, TypeOK, CallMatchesStep, Steps
  <1>4. upc \in {"b_wait", "m_wait"} =>
           /\ call.op = "rollback" /\ call.id \in Ops
           /\ pc \in RollbackSteps \cup RestoreSteps
           /\ pc \notin PublishSteps \cup UndoSteps \cup RecoverySteps
    BY <1>1 DEF Before, UInv, Control, IInv, TypeOK, CallMatchesStep, Steps
  <1>5. upc = "start" => pc \in RecoverySteps /\ call.op = "recover"
    BY <1>1 DEF Before, JournalsSettled, UInv, IInv, CallMatchesStep
  <1>6. QED
    BY <1>1, <1>2, <1>3, <1>4, <1>5

\* A step taken for a publication is one of publish() or of its compensation.
LEMMA PublicationSteps ==
    ASSUME PublisherStep, pc \notin RollbackSteps \cup RecoverySteps
    PROVE  \/ Publish /\ UNCHANGED cost
           \/ Compensate /\ UNCHANGED cost
           \/ PublishFault /\ Spend(UpdateFaultWindow)
           \/ UndoFault /\ Spend(UpdateFaultWindow)
  <1>1. ~Rollback /\ ~RollbackFault
    BY DEF Rollback, RollbackSnapshot, RollbackRestore, RollbackPoint, RollbackLog,
           RollbackIndex, RollbackFault, RollbackSteps
  <1>2. ~Recover /\ ~RecoverFault /\ ~MarkFault
    BY DEF Recover, RecoverJournal, RecoverCommitted, RecoverForward, RecoverBack,
           RecoverAbandon, RecoverSwapped, RecoverLost, RecoverRefuse, Pick, RecoverMark,
           RecoverPoint, RecoverVerify, RecoverLog, RecoverIndex, RecoverUnpoint,
           RecoverForget, RecoverBlock, RecoverDone, RecoverFault, MarkFault, RecoverySteps
  <1>3. QED
    BY <1>1, <1>2 DEF PublisherStep, Work, Failure

\* A step taken for a rollback is one of rollback_latest() or of its compensation.
LEMMA RollingSteps ==
    ASSUME PublisherStep, pc \notin PublishSteps \cup UndoSteps \cup RecoverySteps
    PROVE  \/ Rollback /\ UNCHANGED cost
           \/ (Displace \/ Reinstate \/ Discard \/ PutBack) /\ UNCHANGED cost
           \/ RollbackFault /\ Spend(UpdateFaultWindow)
           \/ UndoFault /\ Spend(UpdateFaultWindow)
  <1>1. ~Publish /\ ~PublishFault
    BY DEF Publish, Compile, BeginJournal, NameSnapshot, TakeSnapshot, MarkSnapshotted, Swap,
           MarkSwapped, WritePointer, LogSuccess, UpdateIndex, CommitJournal, ForgetJournal,
           PublishFault, PublishSteps
  <1>2. ~Recover /\ ~RecoverFault /\ ~MarkFault
    BY DEF Recover, RecoverJournal, RecoverCommitted, RecoverForward, RecoverBack,
           RecoverAbandon, RecoverSwapped, RecoverLost, RecoverRefuse, Pick, RecoverMark,
           RecoverPoint, RecoverVerify, RecoverLog, RecoverIndex, RecoverUnpoint,
           RecoverForget, RecoverBlock, RecoverDone, RecoverFault, MarkFault, RecoverySteps
  <1>3. ~Abort /\ ~Unpublish /\ ~ForgetFailed /\ ~Repoint /\ ~LogFailure /\ ~IndexFailure
    BY DEF Abort, Unpublish, ForgetFailed, Repoint, LogFailure, IndexFailure, UndoSteps
  <1>4. QED
    BY <1>1, <1>2, <1>3 DEF PublisherStep, Work, Compensate, Failure

\* A step taken for the constructor is one of the recovery.
LEMMA RecoveringSteps ==
    ASSUME PublisherStep, pc \in RecoverySteps
    PROVE  \/ Recover
           \/ RecoverFault
           \/ MarkFault
  <1>1. ~Publish /\ ~PublishFault
    BY DEF Publish, Compile, BeginJournal, NameSnapshot, TakeSnapshot, MarkSnapshotted, Swap,
           MarkSwapped, WritePointer, LogSuccess, UpdateIndex, CommitJournal, ForgetJournal,
           PublishFault, PublishSteps, RecoverySteps
  <1>2. ~Rollback /\ ~RollbackFault
    BY DEF Rollback, RollbackSnapshot, RollbackRestore, RollbackPoint, RollbackLog,
           RollbackIndex, RollbackFault, RecoverySteps
  <1>3. ~Compensate /\ ~UndoFault
    BY DEF Compensate, Abort, Displace, Reinstate, Discard, PutBack, Unpublish, ForgetFailed,
           Repoint, LogFailure, IndexFailure, UndoFault, RecoverySteps
  <1>4. QED
    BY <1>1, <1>2, <1>3 DEF PublisherStep, Work, Failure

\* SnapshotNamed is kept.
LEMMA SnapshotNamedNext ==
    ASSUME Before, SnapshotNamed, FoundSkill, [UNext]_allvars
    PROVE  SnapshotNamed'
  <1>1. SUFFICES ASSUME NEW n \in Ops, tx'[n].state \in Published PROVE tx'[n].snapshot
    BY DEF SnapshotNamed
  <1>2. CASE tx'[n].state = tx[n].state /\ tx'[n].snapshot = tx[n].snapshot
    BY <1>1, <1>2 DEF SnapshotNamed
  <1>3. CASE MarkPublished /\ tx'[n].snapshot = (call.before # NoTree)
    BY <1>3 DEF FoundSkill, Before, UInv, BeforeFollowsStep, MarkPublished, Step
  <1>4. CASE MarkSchema /\ n = upd.n /\ tx'[n].snapshot = tx[n].snapshot
    BY <1>4 DEF SnapshotNamed, Published, Before, UInv, StateFollowsStep, MarkSchema, Step
  <1>5. QED
    BY <1>1, <1>2, <1>3, <1>4, JournalsWritten DEF Before, JournalWritten, Published

\* FoundSkill is kept.
LEMMA FoundSkillNext ==
    ASSUME Before, Stays, Firm, [UNext]_allvars
    PROVE  FoundSkill'
  <1> USE DEF FoundSkill
  <1>1. upc \notin Away => pc = "idle"
    BY DEF Before, UInv, Control
  <1>2. upc = "ready" => slot # NoTree
    BY DEF Stays, EmptyHeld, Before, UInv, StateFollowsStep, NoJournal, Published
  <1>3. FoundSkill
    BY DEF Stays
  <1>4. CASE UpdateStart
    BY <1>2, <1>4 DEF UpdateStart, Step
  <1>5. CASE Execute
    BY <1>3, <1>5
       DEF Execute, SaveSchema, BeginTransaction, MarkPublishing, CallPublish, MarkPublished,
           PublishRaised, DropTransaction, SaveUnits, MarkSchema, MarkCommitted,
           RemoveTransaction, ExecuteFault, Step, Conclude
  <1>6. CASE UndoTransaction
    BY <1>6
       DEF UndoTransaction, RestoreSchema, CallRollback, RollbackReturned, NothingToRollBack,
           RemoveSkill, ForeignSkill, FinishRollback, UndoTxFault, BlockTransaction, Refuse,
           Step, Conclude
  <1>7. CASE ResumePending
    BY <1>7
       DEF ResumePending, ResumeTransaction, ResumeStart, ResumeDrop, ResumeCommit,
           ResumeRollback, ResumeRefuse, Resume, CommitRecovered, RemoveRecovered,
           ResumeFault, ResumeDone, Refuse, Step
  <1>8. CASE PublisherStep \/ RollbackReported \/ Build \/ UpdateDecline \/ RollbackCommand
               \/ UNCHANGED allvars
    BY <1>3, <1>8
       DEF PublisherStep, RollbackReported, Build, UpdateDecline, RollbackCommand, Step,
           Conclude, allvars, uvars
  <1>9. CASE UpdateProcessStart \/ UpdateCrash \/ UpdateExit \/ EditIndex
    BY <1>3, <1>9 DEF UpdateProcessStart, UpdateCrash, UpdateExit, EditIndex, uvars
  <1>10. QED
    BY <1>4, <1>5, <1>6, <1>7, <1>8, <1>9 DEF UNext, UpdateProgress, Commands

\* UndonePublished is kept.
LEMMA UndonePublishedNext ==
    ASSUME Before, Stays, [UNext]_allvars
    PROVE  UndonePublished'
  <1>1. SUFFICES ASSUME upc' \in UndoTxSteps PROVE tx'[upd'.n].state \in Published
    BY DEF UndonePublished
  <1>2. \/ upc \in UndoTxSteps /\ UNCHANGED <<tx, upd>>
        \/ upc = "u_schema" /\ UNCHANGED <<tx, upd>>
        \/ \E n \in Ops : ResumeRollback(n)
    <2>1. CASE Execute
      BY <1>1, <2>1
         DEF Execute, SaveSchema, BeginTransaction, MarkPublishing, CallPublish, MarkPublished,
             PublishRaised, DropTransaction, SaveUnits, MarkSchema, MarkCommitted,
             RemoveTransaction, ExecuteFault, Step, Conclude, UndoTxSteps, journals
    <2>2. CASE UndoTransaction
      BY <1>1, <2>2
         DEF UndoTransaction, RestoreSchema, CallRollback, RollbackReturned, NothingToRollBack,
             RemoveSkill, ForeignSkill, FinishRollback, UndoTxFault, BlockTransaction, Refuse,
             Step, Conclude, UndoTxSteps, journals
    <2>3. CASE ResumePending
      BY <1>1, <2>3
         DEF ResumePending, ResumeTransaction, ResumeStart, ResumeDrop, ResumeCommit, Resume,
             ResumeRefuse, CommitRecovered, RemoveRecovered, ResumeFault, ResumeDone, Refuse,
             Step, UndoTxSteps
    <2>4. CASE PublisherStep \/ RollbackReported \/ Commands
      BY <1>1, <2>4
         DEF PublisherStep, RollbackReported, Commands, Build, UpdateStart, UpdateDecline,
             RollbackCommand, Step, Conclude, UndoTxSteps, journals
    <2>5. CASE UpdateProcessStart \/ UpdateCrash \/ UpdateExit \/ EditIndex \/ UNCHANGED allvars
      BY <1>1, <2>5
         DEF UpdateProcessStart, UpdateCrash, UpdateExit, EditIndex, UndoTxSteps, uvars, allvars
    <2>6. QED
      BY <2>1, <2>2, <2>3, <2>4, <2>5 DEF UNext, UpdateProgress
  <1>3. CASE upc \in UndoTxSteps /\ UNCHANGED <<tx, upd>>
    BY <1>3 DEF Stays, UndonePublished
  <1>4. CASE upc = "u_schema" /\ UNCHANGED <<tx, upd>>
    BY <1>4 DEF Before, UInv, StateFollowsStep, Published
  <1>5. ASSUME NEW n \in Ops, ResumeRollback(n) PROVE tx'[upd'.n].state \in Published
    <2>1. tx' = tx /\ upd'.n = n /\ upc = "u_recover" /\ tx[n].state \in Published
      BY <1>5
         DEF ResumeRollback, Resume, Step, Unfinished, TransactionVisible, journals, Stays,
             PublishingGone, Gone, Published
    <2>2. QED
      BY <2>1
  <1>6. QED
    BY <1>2, <1>3, <1>4, <1>5

\* How a publication call ends for the use case.
LEMMA LeavesPublication ==
    ASSUME Before, [UNext]_allvars, upc = "u_wait", upc' # "u_wait"
    PROVE  MarkPublished \/ PublishRaised \/ ExecuteFault \/ UpdateCrash
  <1>1. ~PublisherStep
    BY WhoWaits, PublicationProceeds DEF Before, UInv, PublisherStep, PublishesOn
  <1>2. CASE Execute
    BY <1>2
       DEF Execute, SaveSchema, BeginTransaction, MarkPublishing, CallPublish, DropTransaction,
           SaveUnits, MarkSchema, MarkCommitted, RemoveTransaction, Step, Conclude
  <1>3. ~UndoTransaction /\ ~ResumePending /\ ~RollbackReported
    BY DEF UndoTransaction, RestoreSchema, CallRollback, RollbackReturned, NothingToRollBack,
           RemoveSkill, ForeignSkill, FinishRollback, UndoTxFault, BlockTransaction, Refuse,
           ResumePending, ResumeTransaction, ResumeStart, ResumeDrop, ResumeCommit,
           ResumeRollback, ResumeRefuse, Resume, CommitRecovered, RemoveRecovered,
           ResumeFault, ResumeDone, RollbackReported, Step, Conclude
  <1>4. ~Commands /\ ~UpdateProcessStart /\ ~UpdateExit /\ ~EditIndex /\ ~UNCHANGED allvars
    BY DEF Commands, Build, UpdateStart, UpdateDecline, RollbackCommand, UpdateProcessStart,
           UpdateExit, EditIndex, Step, Conclude, allvars, uvars
  <1>5. QED
    BY <1>1, <1>2, <1>3, <1>4 DEF UNext, UpdateProgress

\* PublishingGone is kept.
LEMMA PublishingGoneNext ==
    ASSUME Before, Stays, Firm, Firm', [UNext]_allvars
    PROVE  PublishingGone'
  <1>1. SUFFICES ASSUME NEW n \in Ops, tx'[n].state = "publishing", upc' # "u_wait"
                 PROVE  Gone(n)'
    BY DEF PublishingGone
  <1> USE DEF Gone
  <1>2. PlaceTypes
    BY PlacesTyped DEF Before, UInv
  <1>3. CASE MarkPublishing /\ n = upd.n
    <2>1. n = clock + 1 /\ UNCHANGED vars
      BY <1>3 DEF MarkPublishing, Step, Before, UInv, Numbers
    <2>2. slot # n /\ n \notin staging /\ \A m \in Ops : snap[m] # n
      BY <1>2, <2>1 DEF Before, TreesTaken, PlaceTypes
    <2>3. QED
      BY <2>1, <2>2 DEF vars
  <1>4. CASE tx[n].state = "publishing" /\ upc = "u_wait"
    <2>1. /\ n = upd.n /\ upd.before # NoTree
          /\ n \in Nat /\ upd.before \in Nat /\ upd.before < n
      BY <1>2, <1>4, UpdFields
         DEF Before, UInv, UTypeOK, Control, StateFollowsStep, ExecuteSteps, FoundIsOlder,
             PlaceTypes, Stays, FoundSkill, Trees
    <2>2. ~MarkPublished
      BY <1>1, <2>1, PublicationWritten DEF Before, UInv, UTypeOK, TypeOK
    <2>3. CASE PublishRaised
      <3>1. slot = upd.before /\ n \notin staging /\ UNCHANGED vars
        BY <1>4, <2>1, <2>3
           DEF PublishRaised, Step, HasControl, Before, PublicationInv, ReportFollows,
               FailureCosts, StagingCleaned, Firm
      <3>2. QED
        BY <1>4, <2>1, <3>1 DEF Before, PublicationInv, WithdrawalFollows, vars
    <2>4. ~ExecuteFault
      <3>1. ASSUME ExecuteFault PROVE <<upc, pc>> \in UpdateFaultWindow["stays"] /\ Spend(UpdateFaultWindow)
        BY <1>4, <3>1 DEF ExecuteFault, Step, Conclude, HasControl, UpdateFaultWindow
      <3>2. QED
        BY <3>1 DEF Spend, UpdateCosts, Firm
    <2>5. CASE UpdateCrash
      <3>1. UNCHANGED <<slot, snap, staging>> /\ <<upc, pc>> \notin UpdateCrashWindow["stays"]
        BY <2>5 DEF UpdateCrash, Crash, dirs, Spend, UpdateCosts, Firm
      <3>2. pc \in {"compile", "begin", "name", "snapshot", "reinstate", "putback", "discard",
                   "unpublish", "forget_failed", "repoint", "log_failed", "index_failed"}
        <4>1. pc \notin {"mark_snapshotted", "swap", "mark_swapped", "point", "log", "index",
                       "commit", "forget", "abort", "displace", "idle"}
          BY <1>4, <3>1 DEF UpdateCrashWindow
        <4>2. pc \in PublishSteps \cup UndoSteps \cup RestoreSteps \cup {"idle"}
          BY <1>4
             DEF Before, UInv, Control, IInv, TypeOK, CallMatchesStep, Steps, JournalsSettled
        <4>3. QED
          BY <4>1, <4>2 DEF PublishSteps, UndoSteps, RestoreSteps
      <3>3. /\ pc \in {"compile", "begin", "name", "snapshot"} =>
                  slot = upd.before /\ snap[n] = NoTree
            /\ pc \in {"reinstate", "putback"} => slot = NoTree
        BY <1>4, <2>1 DEF Before, UInv, Control, BeforeFollowsStep, IInv, SlotFollowsStep
      <3>4. pc \notin {"putback", "unpublish"}
        BY <1>4, <2>1
           DEF Before, PublicationInv, WithdrawalFollows, FailureCosts, Firm
      <3>5. QED
        BY <1>2, <1>4, <2>1, <3>1, <3>2, <3>3, <3>4
           DEF Before, PublicationInv, WithdrawalFollows, StagingCleaned, RestoreSteps,
               PlaceTypes
    <2>6. QED
      BY <1>1, <1>4, <2>2, <2>3, <2>4, <2>5, LeavesPublication
  <1>5. CASE tx[n].state = "publishing" /\ upc # "u_wait"
    <2>1. Gone(n)
      BY <1>5 DEF Stays, PublishingGone
    <2>2. upc \notin UndoTxSteps \cup {"ready", "m_wait"}
      BY <1>5
         DEF Stays, UndonePublished, Published, Before, UInv, Control, StateFollowsStep, NoJournal
    <2>3. CASE PublisherStep
      <3>1. upc = "start" /\ pc \in RecoverySteps
        BY <1>5, <2>2, <2>3, WhoWaits DEF UndoTxSteps
      <3>2. ASSUME NEW m \in Ops, RecoverCommitted(m) PROVE Gone(n)'
        BY <1>2, <2>1, <3>2 DEF RecoverCommitted, Pick, InGap, PlaceTypes, dirs
      <3>3. ASSUME NEW m \in Ops, RecoverForward(m) PROVE Gone(n)'
        BY <1>2, <2>1, <3>3 DEF RecoverForward, Pick, InGap, PlaceTypes, dirs
      <3>4. ASSUME NEW m \in Ops, RecoverBack(m) PROVE Gone(n)'
        BY <1>2, <2>1, <3>4 DEF RecoverBack, Pick, InGap, PlaceTypes, dirs
      <3>5. ASSUME NEW m \in Ops, RecoverAbandon(m) PROVE Gone(n)'
        BY <1>2, <2>1, <3>5 DEF RecoverAbandon, Pick, InGap, PlaceTypes, dirs
      <3>6. ASSUME NEW m \in Ops, RecoverSwapped(m) PROVE Gone(n)'
        BY <1>2, <2>1, <3>6 DEF RecoverSwapped, Pick, InGap, PlaceTypes, dirs
      <3>7. ASSUME NEW m \in Ops, RecoverLost(m) PROVE Gone(n)'
        BY <1>2, <2>1, <3>7 DEF RecoverLost, Pick, InGap, PlaceTypes, dirs
      <3>8. ASSUME NEW m \in Ops, RecoverRefuse(m) PROVE Gone(n)'
        BY <1>2, <2>1, <3>8 DEF RecoverRefuse, Pick, InGap, PlaceTypes, dirs
      <3>9. CASE RecoverMark
        BY <1>2, <2>1, <3>9 DEF RecoverMark, Pick, InGap, PlaceTypes, dirs
      <3>10. CASE RecoverPoint
        BY <1>2, <2>1, <3>10 DEF RecoverPoint, Pick, InGap, PlaceTypes, dirs
      <3>11. CASE RecoverVerify
        BY <1>2, <2>1, <3>11 DEF RecoverVerify, Pick, InGap, PlaceTypes, dirs
      <3>12. CASE RecoverLog
        BY <1>2, <2>1, <3>12 DEF RecoverLog, Pick, InGap, PlaceTypes, dirs
      <3>13. CASE RecoverIndex
        BY <1>2, <2>1, <3>13 DEF RecoverIndex, Pick, InGap, PlaceTypes, dirs
      <3>14. CASE RecoverUnpoint
        BY <1>2, <2>1, <3>14 DEF RecoverUnpoint, Pick, InGap, PlaceTypes, dirs
      <3>15. CASE RecoverForget
        BY <1>2, <2>1, <3>15 DEF RecoverForget, Pick, InGap, PlaceTypes, dirs
      <3>16. CASE RecoverBlock
        BY <1>2, <2>1, <3>16 DEF RecoverBlock, Pick, InGap, PlaceTypes, dirs
      <3>17. CASE RecoverDone
        BY <1>2, <2>1, <3>17 DEF RecoverDone, Pick, InGap, PlaceTypes, dirs
      <3>18. CASE RecoverFault
        BY <1>2, <2>1, <3>18 DEF RecoverFault, Pick, InGap, PlaceTypes, dirs
      <3>19. CASE MarkFault
        BY <1>2, <2>1, <3>19 DEF MarkFault, Pick, InGap, PlaceTypes, dirs
      <3>20. QED
        BY <3>1, <3>2, <3>3, <3>4, <3>5, <3>6, <3>7, <3>8, <3>9, <3>10, <3>11, <3>12,
           <3>13, <3>14, <3>15, <3>16, <3>17, <3>18, <3>19, <2>3, RecoveringSteps
           DEF Recover, RecoverJournal
    <2>4. ~Build /\ ~RemoveSkill
      BY <2>2 DEF Build, RemoveSkill, Step, UndoTxSteps
    <2>5. QED
      BY <2>1, <2>3, <2>4, TreesStay
  <1>6. tx'[n].state = tx[n].state \/ JournalWritten(n)
    BY JournalsWritten DEF Before
  <1>7. QED
    BY <1>1, <1>3, <1>4, <1>5, <1>6 DEF JournalWritten

\* JournalFollowsPublication is kept.
LEMMA JournalFollowsPublicationNext ==
    ASSUME Before, Stays, Firm, Firm', [UNext]_allvars
    PROVE  JournalFollowsPublication'
  <1> USE DEF JournalFollowsPublication
  <1>1. PlaceTypes /\ JournalFollowsPublication /\ (upc = "u_wait" => upd.before # NoTree)
    BY PlacesTyped DEF Before, UInv, Stays, FoundSkill
  <1>2. CASE upc' # "u_wait"
    BY <1>2
  <1>3. CASE CallPublish
    BY <1>1, <1>3
       DEF CallPublish, PublishStart, records, Before, JournalsSettled, SettledBut, UInv,
           Control, ExecuteSteps
  <1>4. CASE UNCHANGED allvars
    BY <1>1, <1>4 DEF allvars, vars, uvars
  <1>5. CASE PublisherStep /\ upc = "u_wait" /\ upc' = "u_wait"
    <2>1. /\ call.op = "publish" /\ call.id = upd.n /\ upd.n \in Ops /\ upd' = upd
          /\ upc = "u_wait" /\ upc' = "u_wait"
          /\ pc \notin RollbackSteps \cup RecoverySteps
      BY <1>5, WhoWaits
    <2>2. /\ pc \in {"compile", "begin", "name", "snapshot"} =>
                slot = upd.before /\ snap[upd.n] = NoTree
          /\ journal \in [Ops -> Journals]
      BY <2>1 DEF Before, UInv, BeforeFollowsStep, IInv, TypeOK, SlotFollowsStep
    <2>3. CASE Compile
      BY <1>1, <2>1, <2>2, <2>3
         DEF Compile, Goto, Report, SetJournal, dirs, records, PublishSteps,
            RestoreSteps
    <2>4. CASE BeginJournal
      BY <1>1, <2>1, <2>2, <2>4
         DEF BeginJournal, Goto, Report, SetJournal, dirs, records, PublishSteps,
            RestoreSteps
    <2>5. CASE NameSnapshot
      BY <1>1, <2>1, <2>2, <2>5
         DEF NameSnapshot, Goto, Report, SetJournal, dirs, records, PublishSteps,
            RestoreSteps
    <2>6. CASE TakeSnapshot
      BY <1>1, <2>1, <2>2, <2>6
         DEF TakeSnapshot, Goto, Report, SetJournal, dirs, records, PublishSteps,
            RestoreSteps
    <2>7. CASE MarkSnapshotted
      BY <1>1, <2>1, <2>2, <2>7
         DEF MarkSnapshotted, Goto, Report, SetJournal, dirs, records, PublishSteps,
            RestoreSteps
    <2>8. CASE Swap
      BY <1>1, <2>1, <2>2, <2>8
         DEF Swap, Goto, Report, SetJournal, dirs, records, PublishSteps, RestoreSteps
    <2>9. CASE MarkSwapped
      BY <1>1, <2>1, <2>2, <2>9
         DEF MarkSwapped, Goto, Report, SetJournal, dirs, records, PublishSteps,
            RestoreSteps
    <2>10. CASE WritePointer
      BY <1>1, <2>1, <2>2, <2>10
         DEF WritePointer, Goto, Report, SetJournal, dirs, records, PublishSteps,
            RestoreSteps
    <2>11. CASE LogSuccess
      BY <1>1, <2>1, <2>2, <2>11
         DEF LogSuccess, Goto, Report, SetJournal, dirs, records, PublishSteps,
            RestoreSteps
    <2>12. CASE UpdateIndex
      BY <1>1, <2>1, <2>2, <2>12
         DEF UpdateIndex, Goto, Report, SetJournal, dirs, records, PublishSteps,
            RestoreSteps
    <2>13. CASE CommitJournal
      BY <1>1, <2>1, <2>2, <2>13
         DEF CommitJournal, Goto, Report, SetJournal, dirs, records, PublishSteps,
            RestoreSteps
    <2>14. CASE ForgetJournal
      BY <1>1, <2>1, <2>2, <2>14
         DEF ForgetJournal, Goto, Report, SetJournal, dirs, records, PublishSteps,
            RestoreSteps
    <2>15. CASE Abort
      BY <1>1, <2>1, <2>2, <2>15
         DEF Abort, Goto, Report, SetJournal, dirs, records, PublishSteps, RestoreSteps
    <2>16. CASE Displace
      BY <1>1, <2>1, <2>2, <2>16
         DEF Displace, Goto, Report, SetJournal, dirs, records, PublishSteps,
            RestoreSteps
    <2>17. CASE Reinstate
      BY <1>1, <2>1, <2>2, <2>17
         DEF Reinstate, Goto, Report, SetJournal, dirs, records, PublishSteps,
            RestoreSteps
    <2>18. CASE Discard
      BY <1>1, <2>1, <2>2, <2>18
         DEF Discard, Goto, Report, SetJournal, dirs, records, PublishSteps,
            RestoreSteps
    <2>19. CASE PutBack
      BY <1>1, <2>1, <2>2, <2>19
         DEF PutBack, Goto, Report, SetJournal, dirs, records, PublishSteps,
            RestoreSteps
    <2>20. CASE Unpublish
      BY <1>1, <2>1, <2>2, <2>20
         DEF Unpublish, Goto, Report, SetJournal, dirs, records, PublishSteps,
            RestoreSteps
    <2>21. CASE ForgetFailed
      BY <1>1, <2>1, <2>2, <2>21
         DEF ForgetFailed, Goto, Report, SetJournal, dirs, records, PublishSteps,
            RestoreSteps
    <2>22. CASE Repoint
      BY <1>1, <2>1, <2>2, <2>22
         DEF Repoint, Goto, Report, SetJournal, dirs, records, PublishSteps,
            RestoreSteps
    <2>23. CASE LogFailure
      BY <1>1, <2>1, <2>2, <2>23
         DEF LogFailure, Goto, Report, SetJournal, dirs, records, PublishSteps,
            RestoreSteps
    <2>24. CASE IndexFailure
      BY <1>1, <2>1, <2>2, <2>24
         DEF IndexFailure, Goto, Report, SetJournal, dirs, records, PublishSteps,
            RestoreSteps
    <2>25. CASE PublishFault /\ Spend(UpdateFaultWindow)
      BY <1>1, <2>1, <2>2, <2>25
         DEF PublishFault, Goto, Report, SetJournal, dirs, records, PublishSteps,
            RestoreSteps, Spend, UpdateFaultWindow, UpdateCosts, Firm
    <2>26. CASE UndoFault /\ Spend(UpdateFaultWindow)
      BY <1>1, <2>1, <2>2, <2>26
         DEF UndoFault, Goto, Report, SetJournal, dirs, records, PublishSteps,
            RestoreSteps, Spend, UpdateFaultWindow, UpdateCosts, Firm
    <2>27. QED
      BY <1>5, <2>1, <2>3, <2>4, <2>5, <2>6, <2>7, <2>8, <2>9, <2>10, <2>11, <2>12,
         <2>13, <2>14, <2>15, <2>16, <2>17, <2>18, <2>19, <2>20, <2>21, <2>22, <2>23,
         <2>24, <2>25, <2>26, PublicationSteps
         DEF Publish, Compensate
  <1>6. QED
    BY <1>2, <1>3, <1>4, <1>5, CallsGoOn

\* Where the Skill is removed, or a compensation reports it is over.
LEMMA ComesToRemove ==
    ASSUME [UNext]_allvars, upc' = "b_remove"
    PROVE  \/ RollbackReturned /\ upc = "b_wait" /\ outcome = "rolled_back" /\ HasControl
           \/ RemoveSkill
           \/ upc = "b_remove" /\ (PublisherStep \/ UNCHANGED allvars)
  <1>1. CASE UndoTransaction
    BY <1>1
       DEF UndoTransaction, RestoreSchema, CallRollback, RollbackReturned, NothingToRollBack,
           ForeignSkill, FinishRollback, UndoTxFault, BlockTransaction, Refuse, Step, Conclude
  <1>2. ~Execute
    BY DEF Execute, SaveSchema, BeginTransaction, MarkPublishing, CallPublish, MarkPublished,
           PublishRaised, DropTransaction, SaveUnits, MarkSchema, MarkCommitted,
           RemoveTransaction, ExecuteFault, Step, Conclude
  <1>3. ~ResumePending
    BY DEF ResumePending, ResumeTransaction, ResumeStart, ResumeDrop, ResumeCommit,
           ResumeRollback, ResumeRefuse, Resume, CommitRecovered, RemoveRecovered,
           ResumeFault, ResumeDone, Refuse, Step
  <1>4. ~RollbackReported /\ ~Commands /\ ~UpdateProcessStart /\ ~UpdateCrash /\ ~UpdateExit
          /\ ~EditIndex
    BY DEF RollbackReported, Commands, Build, UpdateStart, UpdateDecline, RollbackCommand,
           UpdateProcessStart, UpdateCrash, UpdateExit, EditIndex, Step, Conclude, uvars
  <1>5. QED
    BY <1>1, <1>2, <1>3, <1>4 DEF UNext, UpdateProgress, PublisherStep, allvars, uvars

\* The step a rollback starts with.
LEMMA RollbackChooses ==
    ASSUME Before, RollbackStart
    PROVE  /\ call'.op = "rollback" /\ call'.id = clock + 1 /\ call'.id \in Ops
           /\ call'.latest \in Ops /\ snap[call'.latest] # NoTree
           /\ \A m \in Ops : snap[m] # NoTree => m <= call'.latest
           /\ call'.latest # call'.id /\ snap[call'.id] = NoTree /\ journal[call'.id] = "none"
           /\ pc' = (IF slot # NoTree THEN "r_snapshot" ELSE "r_restore")
           /\ UNCHANGED <<slot, snap, staging, displaced, journal>>
  <1>1. PlaceTypes
    BY PlacesTyped DEF Before, UInv
  <1>2. PICK n \in Ops : IsLatest(n) /\ call' = [NoCall EXCEPT !.op = "rollback",
                                       !.id = clock + 1, !.latest = n, !.before = slot]
    BY DEF RollbackStart
  <1>3. call'.op = "rollback" /\ call'.id = clock + 1 /\ call'.latest = n
    BY <1>1, <1>2, CallChanges DEF PlaceTypes
  <1>4. clock + 1 \in Ops /\ n # clock + 1 /\ snap[clock + 1] = NoTree
          /\ journal[clock + 1] = "none"
    BY <1>1, <1>2
       DEF RollbackStart, IsLatest, Snapshots, Before, UInv, IInv, NumbersAreFresh, PlaceTypes,
           Ops
  <1>5. QED
    BY <1>2, <1>3, <1>4 DEF RollbackStart, IsLatest, Snapshots, dirs, records

\* UndoHolds is kept.
LEMMA UndoHoldsNext ==
    ASSUME Before, Stays, Firm, Firm', [UNext]_allvars
    PROVE  UndoHolds'
  <1> USE DEF UndoHolds
  <1>1. PlaceTypes /\ UndoHolds
    BY PlacesTyped DEF Before, UInv, Stays
  <1>2. upc' = "b_remove" => slot' # NoTree
    <2>1. CASE RollbackReturned /\ upc = "b_wait" /\ outcome = "rolled_back" /\ HasControl
      BY <1>1, <2>1 DEF RollbackReturned, HasControl, vars
    <2>2. ~RemoveSkill
      BY DEF RemoveSkill, Step, Stays, UndonePublished, SnapshotNamed, Before, UInv, Control,
             UndoTxSteps
    <2>3. CASE upc = "b_remove" /\ (PublisherStep \/ UNCHANGED allvars)
      <3>1. ~PublisherStep
        BY <2>3, WhoWaits
      <3>2. QED
        BY <1>1, <2>3, <3>1 DEF allvars, vars
    <2>4. QED
      BY <2>1, <2>2, <2>3, ComesToRemove
  <1>3. CASE upc' \notin {"b_wait", "m_wait"}
    BY <1>2, <1>3
  <1>4. CASE UNCHANGED allvars
    BY <1>1, <1>4 DEF allvars, vars, uvars
  <1>5. CASE CallRollback \/ RollbackCommand
    <2>1. RollbackStart /\ (upc' = "m_wait" => slot # NoTree)
      BY <1>5
         DEF CallRollback, RollbackCommand, Stays, EmptyHeld, Published, Before, UInv,
             StateFollowsStep, NoJournal
    <2>2. QED
      BY <1>1, <1>2, <2>1, RollbackChooses
  <1>6. CASE PublisherStep /\ upc \in {"b_wait", "m_wait"} /\ upc' = upc
    <2>1. /\ call.op = "rollback" /\ call.id \in Ops
          /\ pc \in RollbackSteps \cup RestoreSteps
          /\ pc \notin PublishSteps \cup UndoSteps \cup RecoverySteps
      BY <1>6, WhoWaits
    <2>2. upc = "m_wait" /\ slot = NoTree => pc \in {"r_restore", "displace", "reinstate"}
      BY <1>6
         DEF Stays, EmptyHeld, Published, Before, UInv, StateFollowsStep, NoJournal
    <2>3. CASE RollbackSnapshot
      BY <1>1, <1>2, <1>6, <2>1, <2>2, <2>3
         DEF RollbackSnapshot, Goto, Report, dirs, records, PlaceTypes, RestoreSteps
    <2>4. CASE RollbackRestore
      BY <1>1, <1>2, <1>6, <2>1, <2>2, <2>4
         DEF RollbackRestore, Goto, Report, dirs, records, PlaceTypes, RestoreSteps
    <2>5. CASE RollbackPoint
      BY <1>1, <1>2, <1>6, <2>1, <2>2, <2>5
         DEF RollbackPoint, Goto, Report, dirs, records, PlaceTypes, RestoreSteps
    <2>6. CASE RollbackLog
      BY <1>1, <1>2, <1>6, <2>1, <2>2, <2>6
         DEF RollbackLog, Goto, Report, dirs, records, PlaceTypes, RestoreSteps
    <2>7. CASE RollbackIndex
      BY <1>1, <1>2, <1>6, <2>1, <2>2, <2>7
         DEF RollbackIndex, Goto, Report, dirs, records, PlaceTypes, RestoreSteps
    <2>8. CASE Displace
      BY <1>1, <1>2, <1>6, <2>1, <2>2, <2>8
         DEF Displace, Goto, Report, dirs, records, PlaceTypes, RestoreSteps
    <2>9. CASE Reinstate
      BY <1>1, <1>2, <1>6, <2>1, <2>2, <2>9
         DEF Reinstate, Goto, Report, dirs, records, PlaceTypes, RestoreSteps
    <2>10. CASE Discard
      BY <1>1, <1>2, <1>6, <2>1, <2>2, <2>10
         DEF Discard, Goto, Report, dirs, records, PlaceTypes, RestoreSteps
    <2>11. CASE PutBack
      BY <1>1, <1>2, <1>6, <2>1, <2>2, <2>11
         DEF PutBack, Goto, Report, dirs, records, PlaceTypes, RestoreSteps
    <2>12. CASE RollbackFault /\ Spend(UpdateFaultWindow)
      BY <1>1, <1>2, <1>6, <2>1, <2>2, <2>12
         DEF RollbackFault, Goto, Report, dirs, records, PlaceTypes, RestoreSteps,
            Spend, UpdateFaultWindow, UpdateCosts, Firm
    <2>13. CASE UndoFault /\ Spend(UpdateFaultWindow)
      BY <1>1, <1>2, <1>6, <2>1, <2>2, <2>13
         DEF UndoFault, Goto, Report, dirs, records, PlaceTypes, RestoreSteps, Spend,
            UpdateFaultWindow, UpdateCosts, Firm
    <2>14. QED
      BY <1>6, <2>1, <2>3, <2>4, <2>5, <2>6, <2>7, <2>8, <2>9, <2>10, <2>11, <2>12,
         <2>13, RollingSteps
         DEF Rollback
  <1>7. QED
    BY <1>3, <1>4, <1>5, <1>6, CallsGoOn

\* The recovery goes on with a tree to bring back, or has brought it back.
LEMMA WaitingGoesOn ==
    ASSUME Before, PublisherStep, upc = "start", NEW n \in Ops, Waiting(n)
    PROVE  (Waiting(n)' /\ pc' # "idle") \/ slot' # NoTree
  <1> USE DEF Waiting
  <1>1. /\ PlaceTypes /\ pc \in RecoverySteps /\ journal[n] # "none" /\ call \in Calls
        /\ pc \in RecoverySteps \ {"recover"} => call.id \in Ops
        /\ pc \in {"rec_log", "rec_index"} => slot = call.id
        /\ \A m \in Ops : m # NoTree
        /\ journal \in [Ops -> Journals] /\ snap \in [Ops -> Trees]
    BY PlacesTyped, WhoWaits, MaxOpsAssumption
       DEF Before, UInv, IInv, TypeOK, CallMatchesStep, SlotFollowsStep, Ops, NoTree
  <1>2. ASSUME NEW m \in Ops, RecoverCommitted(m)
       PROVE (Waiting(n)' /\ pc' # "idle") \/ slot' # NoTree
    BY <1>1, CallChanges, <1>2
       DEF RecoverCommitted, Pick, Goto, Report, SetJournal, InGap, dirs, records,
          RecoverySteps, NoCall
  <1>3. ASSUME NEW m \in Ops, RecoverForward(m)
       PROVE (Waiting(n)' /\ pc' # "idle") \/ slot' # NoTree
    BY <1>1, CallChanges, <1>3
       DEF RecoverForward, Pick, Goto, Report, SetJournal, InGap, dirs, records,
          RecoverySteps, NoCall
  <1>4. ASSUME NEW m \in Ops, RecoverBack(m)
       PROVE (Waiting(n)' /\ pc' # "idle") \/ slot' # NoTree
    BY <1>1, CallChanges, <1>4
       DEF RecoverBack, Pick, Goto, Report, SetJournal, InGap, dirs, records,
          RecoverySteps, NoCall
  <1>5. ASSUME NEW m \in Ops, RecoverAbandon(m)
       PROVE (Waiting(n)' /\ pc' # "idle") \/ slot' # NoTree
    BY <1>1, CallChanges, <1>5
       DEF RecoverAbandon, Pick, Goto, Report, SetJournal, InGap, dirs, records,
          RecoverySteps, NoCall
  <1>6. ASSUME NEW m \in Ops, RecoverSwapped(m)
       PROVE (Waiting(n)' /\ pc' # "idle") \/ slot' # NoTree
    BY <1>1, CallChanges, <1>6
       DEF RecoverSwapped, Pick, Goto, Report, SetJournal, InGap, dirs, records,
          RecoverySteps, NoCall
  <1>7. ASSUME NEW m \in Ops, RecoverLost(m)
       PROVE (Waiting(n)' /\ pc' # "idle") \/ slot' # NoTree
    BY <1>1, CallChanges, <1>7
       DEF RecoverLost, Pick, Goto, Report, SetJournal, InGap, dirs, records,
          RecoverySteps, NoCall
  <1>8. ASSUME NEW m \in Ops, RecoverRefuse(m)
       PROVE (Waiting(n)' /\ pc' # "idle") \/ slot' # NoTree
    BY <1>1, CallChanges, <1>8
       DEF RecoverRefuse, Pick, Goto, Report, SetJournal, InGap, dirs, records,
          RecoverySteps, NoCall
  <1>9. CASE RecoverMark
    BY <1>1, <1>9
       DEF RecoverMark, Pick, Goto, Report, SetJournal, InGap, dirs, records,
          RecoverySteps, NoCall
  <1>10. CASE RecoverPoint
    BY <1>1, <1>10
       DEF RecoverPoint, Pick, Goto, Report, SetJournal, InGap, dirs, records,
          RecoverySteps, NoCall
  <1>11. CASE RecoverVerify
    BY <1>1, <1>11
       DEF RecoverVerify, Pick, Goto, Report, SetJournal, InGap, dirs, records,
          RecoverySteps, NoCall
  <1>12. CASE RecoverLog
    BY <1>1, <1>12
       DEF RecoverLog, Pick, Goto, Report, SetJournal, InGap, dirs, records,
          RecoverySteps, NoCall
  <1>13. CASE RecoverIndex
    BY <1>1, <1>13
       DEF RecoverIndex, Pick, Goto, Report, SetJournal, InGap, dirs, records,
          RecoverySteps, NoCall
  <1>14. CASE RecoverUnpoint
    BY <1>1, <1>14
       DEF RecoverUnpoint, Pick, Goto, Report, SetJournal, InGap, dirs, records,
          RecoverySteps, NoCall
  <1>15. CASE RecoverForget
    BY <1>1, <1>15
       DEF RecoverForget, Pick, Goto, Report, SetJournal, InGap, dirs, records,
          RecoverySteps, NoCall
  <1>16. CASE RecoverBlock
    BY <1>1, <1>16
       DEF RecoverBlock, Pick, Goto, Report, SetJournal, InGap, dirs, records,
          RecoverySteps, NoCall
  <1>17. CASE RecoverDone
    BY <1>1, <1>17
       DEF RecoverDone, Pick, Goto, Report, SetJournal, InGap, dirs, records,
          RecoverySteps, NoCall
  <1>18. CASE RecoverFault
    BY <1>1, <1>18
       DEF RecoverFault, Pick, Goto, Report, SetJournal, InGap, dirs, records,
          RecoverySteps, NoCall
  <1>19. CASE MarkFault
    BY <1>1, <1>19
       DEF MarkFault, Pick, Goto, Report, SetJournal, InGap, dirs, records,
          RecoverySteps, NoCall
  <1>20. QED
    BY <1>1, <1>2, <1>3, <1>4, <1>5, <1>6, <1>7, <1>8, <1>9, <1>10, <1>11, <1>12, <1>13,
       <1>14, <1>15, <1>16, <1>17, <1>18, <1>19, RecoveringSteps
       DEF Recover, RecoverJournal

\* How a rollback call ends for the use case, and a constructor's recovery.
LEMMA LeavesRollback ==
    ASSUME Before, [UNext]_allvars, upc \in {"m_wait", "down", "start"}
    PROVE  \/ PublisherStep /\ (upc = "m_wait" => upc' = "m_wait")
           \/ (RollbackReported \/ ResumeStart) /\ HasControl
           \/ UpdateCrash
           \/ upc = "down" /\ (UpdateProcessStart \/ EditIndex)
           \/ UNCHANGED allvars
  <1>1. PublisherStep /\ upc = "m_wait" => upc' = "m_wait"
    BY WhoWaits, RollbackProceeds DEF Before, UInv, PublisherStep, RollsBackOn
  <1>2. ~Execute /\ ~UndoTransaction /\ ~Commands
    BY DEF Execute, SaveSchema, BeginTransaction, MarkPublishing, CallPublish, MarkPublished,
           PublishRaised, DropTransaction, SaveUnits, MarkSchema, MarkCommitted,
           RemoveTransaction, ExecuteFault, UndoTransaction, RestoreSchema, CallRollback,
           RollbackReturned, NothingToRollBack, RemoveSkill, ForeignSkill, FinishRollback,
           UndoTxFault, BlockTransaction, Refuse, Commands, Build, UpdateStart, UpdateDecline,
           RollbackCommand, Step, Conclude
  <1>3. ResumePending => ResumeStart
    BY DEF ResumePending, ResumeTransaction, ResumeDrop, ResumeCommit, ResumeRollback,
           ResumeRefuse, Resume, CommitRecovered, RemoveRecovered, ResumeFault, ResumeDone,
           Refuse, Step
  <1>4. /\ RollbackReported => HasControl
        /\ ResumeStart => HasControl
        /\ UpdateProcessStart => upc = "down"
        /\ EditIndex => upc = "down"
        /\ ~UpdateExit
    BY DEF RollbackReported, ResumeStart, UpdateProcessStart, EditIndex, UpdateExit, Step,
           Conclude
  <1>5. QED
    BY <1>1, <1>2, <1>3, <1>4 DEF UNext, UpdateProgress

\* A journal that stands for the Skill goes when the Skill is back in place.
LEMMA HeldByJournal ==
    ASSUME Before, Stays, [UNext]_allvars, slot' = NoTree,
           NEW n \in Ops, tx[n].state \in Published \cup {"rollback_required"}
    PROVE  tx'[n].state \in Published \cup {"rollback_required"}
  <1> USE DEF Published
  <1>1. CASE tx'[n].state = tx[n].state
    BY <1>1
  <1>2. CASE JournalWritten(n) /\ (upc \in {"u_commit", "v_commit"} \/ FinishRollback)
    <2>1. slot # NoTree /\ upc \in {"u_commit", "v_commit", "b_remove"}
      BY <1>2, MaxOpsAssumption
         DEF Stays, UndoHolds, FinishRollback, Step, Conclude, Before, PublishedInPlace,
             JournalWritten, NoTree, Ops
    <2>2. ~PublisherStep /\ ~Build /\ ~RemoveSkill
      BY <2>1, WhoWaits DEF Build, RemoveSkill, Step
    <2>3. QED
      BY <2>1, <2>2, TreesStay
  <1>3. CASE JournalWritten(n) /\ upc \notin {"u_commit", "v_commit"} /\ ~FinishRollback
    BY <1>3
       DEF JournalWritten, Before, UInv, StateFollowsStep, NoJournal, MarkPublishing,
           RemoveTransaction, RemoveRecovered, DropTransaction, Step, Conclude
  <1>4. QED
    BY <1>1, <1>2, <1>3, JournalsWritten DEF Before

\* EmptyHeld is kept.
LEMMA EmptyHeldNext ==
    ASSUME Before, Stays, Firm, Firm', [UNext]_allvars
    PROVE  EmptyHeld'
  <1>1. SUFFICES ASSUME slot' = NoTree,
                        ~\E n \in Ops : tx'[n].state \in Published \cup {"rollback_required"}
                 PROVE  \/ upc' = "u_wait" /\ pc' \in {"mark_snapshotted", "swap", "abort",
                                                        "displace", "reinstate"}
                        \/ upc' = "m_wait" /\ pc' \in {"r_restore", "displace", "reinstate"}
                        \/ /\ upc' \in {"down", "start"} /\ pc' # "idle"
                           /\ \E n \in Ops : Waiting(n)'
    BY DEF EmptyHeld
  <1>2. ~\E n \in Ops : tx[n].state \in Published \cup {"rollback_required"}
    BY <1>1, HeldByJournal
  <1>3. /\ PlaceTypes
        /\ upc = "u_wait" /\ slot = NoTree =>
              pc \in {"mark_snapshotted", "swap", "abort", "displace", "reinstate"}
        /\ upc = "m_wait" /\ slot = NoTree => pc \in {"r_restore", "displace", "reinstate"}
        /\ upc \in {"down", "start"} /\ slot = NoTree =>
              pc # "idle" /\ \E n \in Ops : Waiting(n)
        /\ upc \notin {"u_wait", "m_wait", "down", "start"} => slot # NoTree
    BY <1>2, PlacesTyped DEF Before, UInv, Stays, EmptyHeld
  <1>4. upc \notin UndoTxSteps
    BY <1>2 DEF Stays, UndonePublished, Before, UInv, Control
  <1>5. CASE upc = "u_wait" /\ upc' = "u_wait" /\ PublisherStep
    <2>1. /\ call.op = "publish" /\ call.id = upd.n /\ upd.n \in Ops /\ upc = "u_wait"
          /\ pc \notin RollbackSteps \cup RecoverySteps /\ upd.before # NoTree
      BY <1>5, WhoWaits DEF Stays, FoundSkill
    <2>2. /\ pc = "abort" => /\ snap[upd.n] \in {upd.before, NoTree}
                             /\ snap[upd.n] = NoTree /\ ~call.swapped => slot = upd.before
                             /\ call.swapped => snap[upd.n] # NoTree
          /\ pc \in {"displace", "reinstate"} => snap[upd.n] = upd.before
          /\ pc # "unpublish" /\ pc # "putback"
          /\ upd.n # NoTree
      BY <1>5, <2>1, MaxOpsAssumption
         DEF Before, PublicationInv, WithdrawalFollows, FailureCosts, Firm, Ops, NoTree
    <2>3. CASE Compile
      BY <1>1, <1>3, <1>5, <2>1, <2>2, <2>3
         DEF Compile, Goto, Report, dirs, records, PlaceTypes
    <2>4. CASE BeginJournal
      BY <1>1, <1>3, <1>5, <2>1, <2>2, <2>4
         DEF BeginJournal, Goto, Report, dirs, records, PlaceTypes
    <2>5. CASE NameSnapshot
      BY <1>1, <1>3, <1>5, <2>1, <2>2, <2>5
         DEF NameSnapshot, Goto, Report, dirs, records, PlaceTypes
    <2>6. CASE TakeSnapshot
      BY <1>1, <1>3, <1>5, <2>1, <2>2, <2>6
         DEF TakeSnapshot, Goto, Report, dirs, records, PlaceTypes
    <2>7. CASE MarkSnapshotted
      BY <1>1, <1>3, <1>5, <2>1, <2>2, <2>7
         DEF MarkSnapshotted, Goto, Report, dirs, records, PlaceTypes
    <2>8. CASE Swap
      BY <1>1, <1>3, <1>5, <2>1, <2>2, <2>8
         DEF Swap, Goto, Report, dirs, records, PlaceTypes
    <2>9. CASE MarkSwapped
      BY <1>1, <1>3, <1>5, <2>1, <2>2, <2>9
         DEF MarkSwapped, Goto, Report, dirs, records, PlaceTypes
    <2>10. CASE WritePointer
      BY <1>1, <1>3, <1>5, <2>1, <2>2, <2>10
         DEF WritePointer, Goto, Report, dirs, records, PlaceTypes
    <2>11. CASE LogSuccess
      BY <1>1, <1>3, <1>5, <2>1, <2>2, <2>11
         DEF LogSuccess, Goto, Report, dirs, records, PlaceTypes
    <2>12. CASE UpdateIndex
      BY <1>1, <1>3, <1>5, <2>1, <2>2, <2>12
         DEF UpdateIndex, Goto, Report, dirs, records, PlaceTypes
    <2>13. CASE CommitJournal
      BY <1>1, <1>3, <1>5, <2>1, <2>2, <2>13
         DEF CommitJournal, Goto, Report, dirs, records, PlaceTypes
    <2>14. CASE ForgetJournal
      BY <1>1, <1>3, <1>5, <2>1, <2>2, <2>14
         DEF ForgetJournal, Goto, Report, dirs, records, PlaceTypes
    <2>15. CASE Abort
      BY <1>1, <1>3, <1>5, <2>1, <2>2, <2>15
         DEF Abort, Goto, Report, dirs, records, PlaceTypes
    <2>16. CASE Displace
      BY <1>1, <1>3, <1>5, <2>1, <2>2, <2>16
         DEF Displace, Goto, Report, dirs, records, PlaceTypes
    <2>17. CASE Reinstate
      BY <1>1, <1>3, <1>5, <2>1, <2>2, <2>17
         DEF Reinstate, Goto, Report, dirs, records, PlaceTypes
    <2>18. CASE Discard
      BY <1>1, <1>3, <1>5, <2>1, <2>2, <2>18
         DEF Discard, Goto, Report, dirs, records, PlaceTypes
    <2>19. CASE PutBack
      BY <1>1, <1>3, <1>5, <2>1, <2>2, <2>19
         DEF PutBack, Goto, Report, dirs, records, PlaceTypes
    <2>20. CASE Unpublish
      BY <1>1, <1>3, <1>5, <2>1, <2>2, <2>20
         DEF Unpublish, Goto, Report, dirs, records, PlaceTypes
    <2>21. CASE ForgetFailed
      BY <1>1, <1>3, <1>5, <2>1, <2>2, <2>21
         DEF ForgetFailed, Goto, Report, dirs, records, PlaceTypes
    <2>22. CASE Repoint
      BY <1>1, <1>3, <1>5, <2>1, <2>2, <2>22
         DEF Repoint, Goto, Report, dirs, records, PlaceTypes
    <2>23. CASE LogFailure
      BY <1>1, <1>3, <1>5, <2>1, <2>2, <2>23
         DEF LogFailure, Goto, Report, dirs, records, PlaceTypes
    <2>24. CASE IndexFailure
      BY <1>1, <1>3, <1>5, <2>1, <2>2, <2>24
         DEF IndexFailure, Goto, Report, dirs, records, PlaceTypes
    <2>25. CASE PublishFault /\ Spend(UpdateFaultWindow)
      BY <1>1, <1>3, <1>5, <2>1, <2>2, <2>25
         DEF PublishFault, Goto, Report, dirs, records, PlaceTypes, Spend,
            UpdateFaultWindow, UpdateCosts, Firm
    <2>26. CASE UndoFault /\ Spend(UpdateFaultWindow)
      BY <1>1, <1>3, <1>5, <2>1, <2>2, <2>26
         DEF UndoFault, Goto, Report, dirs, records, PlaceTypes, Spend,
            UpdateFaultWindow, UpdateCosts, Firm
    <2>27. QED
      BY <1>5, <2>1, <2>3, <2>4, <2>5, <2>6, <2>7, <2>8, <2>9, <2>10, <2>11, <2>12,
         <2>13, <2>14, <2>15, <2>16, <2>17, <2>18, <2>19, <2>20, <2>21, <2>22, <2>23,
         <2>24, <2>25, <2>26, PublicationSteps
         DEF Publish, Compensate
  <1>6. CASE upc = "u_wait" /\ upc' # "u_wait"
    <2>1. upc = "u_wait" /\ upd.n \in Ops /\ upd.before # NoTree
      BY <1>6 DEF Stays, FoundSkill, Before, UInv, Control, ExecuteSteps
    <2>2. CASE UpdateCrash
      <3>1. /\ UNCHANGED <<slot, snap, journal>> /\ <<upc, pc>> \notin UpdateCrashWindow["stays"]
            /\ upc' = "down" /\ pc' = "down"
        BY <2>2 DEF UpdateCrash, Crash, dirs, records, Spend, UpdateCosts, Firm
      <3>2. pc = "reinstate"
        BY <1>1, <1>3, <2>1, <3>1 DEF UpdateCrashWindow
      <3>3. snap[upd.n] # NoTree /\ journal[upd.n] \in {"named", "snapshotted", "swapped"}
        BY <2>1, <3>2
           DEF Before, PublicationInv, WithdrawalFollows, Stays, JournalFollowsPublication
      <3>4. PICK n \in Ops : n = upd.n
        BY <2>1
      <3>5. Waiting(n)'
        BY <3>1, <3>3, <3>4 DEF Waiting
      <3>6. QED
        BY <3>1, <3>5
    <2>3. ~MarkPublished /\ ~PublishRaised /\ ~ExecuteFault
      <3>1. CASE pc = "idle"
        <4>1. slot # NoTree /\ ~PublisherStep /\ ~Build /\ ~RemoveSkill
          BY <1>3, <2>1, <3>1, WhoWaits DEF Build, RemoveSkill, Step
        <4>2. QED
          BY <1>1, <4>1, TreesStay
      <3>2. CASE pc # "idle"
        BY <3>2, <2>1
           DEF MarkPublished, PublishRaised, ExecuteFault, Step, Conclude, HasControl
      <3>3. QED
        BY <3>1, <3>2
    <2>4. QED
      BY <1>6, <2>2, <2>3, LeavesPublication
  <1>7. CASE upc = "m_wait"
    <2>1. CASE PublisherStep /\ upc' = "m_wait"
      <3>1. /\ call.op = "rollback" /\ call.id \in Ops /\ upc = "m_wait"
            /\ pc \notin PublishSteps \cup UndoSteps \cup RecoverySteps
        BY <1>7, <2>1, WhoWaits
      <3>2. /\ pc = "r_restore" => snap[call.latest] # NoTree
            /\ pc \in {"r_restore", "displace", "reinstate"} => snap[call.id] # NoTree
            /\ pc # "putback"
        BY <1>7 DEF Stays, UndoHolds, Before, UInv, IInv, SlotFollowsStep
      <3>3. CASE RollbackSnapshot
        BY <1>1, <1>3, <2>1, <3>1, <3>2, <3>3
           DEF RollbackSnapshot, Goto, Report, dirs, records, PlaceTypes
      <3>4. CASE RollbackRestore
        BY <1>1, <1>3, <2>1, <3>1, <3>2, <3>4
           DEF RollbackRestore, Goto, Report, dirs, records, PlaceTypes
      <3>5. CASE RollbackPoint
        BY <1>1, <1>3, <2>1, <3>1, <3>2, <3>5
           DEF RollbackPoint, Goto, Report, dirs, records, PlaceTypes
      <3>6. CASE RollbackLog
        BY <1>1, <1>3, <2>1, <3>1, <3>2, <3>6
           DEF RollbackLog, Goto, Report, dirs, records, PlaceTypes
      <3>7. CASE RollbackIndex
        BY <1>1, <1>3, <2>1, <3>1, <3>2, <3>7
           DEF RollbackIndex, Goto, Report, dirs, records, PlaceTypes
      <3>8. CASE Displace
        BY <1>1, <1>3, <2>1, <3>1, <3>2, <3>8
           DEF Displace, Goto, Report, dirs, records, PlaceTypes
      <3>9. CASE Reinstate
        BY <1>1, <1>3, <2>1, <3>1, <3>2, <3>9
           DEF Reinstate, Goto, Report, dirs, records, PlaceTypes
      <3>10. CASE Discard
        BY <1>1, <1>3, <2>1, <3>1, <3>2, <3>10
           DEF Discard, Goto, Report, dirs, records, PlaceTypes
      <3>11. CASE PutBack
        BY <1>1, <1>3, <2>1, <3>1, <3>2, <3>11
           DEF PutBack, Goto, Report, dirs, records, PlaceTypes
      <3>12. CASE RollbackFault /\ Spend(UpdateFaultWindow)
        BY <1>1, <1>3, <2>1, <3>1, <3>2, <3>12
           DEF RollbackFault, Goto, Report, dirs, records, PlaceTypes, Spend,
              UpdateFaultWindow, UpdateCosts, Firm
      <3>13. CASE UndoFault /\ Spend(UpdateFaultWindow)
        BY <1>1, <1>3, <2>1, <3>1, <3>2, <3>13
           DEF UndoFault, Goto, Report, dirs, records, PlaceTypes, Spend,
              UpdateFaultWindow, UpdateCosts, Firm
      <3>14. QED
        BY <2>1, <3>1, <3>3, <3>4, <3>5, <3>6, <3>7, <3>8, <3>9, <3>10, <3>11, <3>12,
           <3>13, RollingSteps
           DEF Rollback
    <2>2. CASE UpdateCrash
      BY <1>1, <1>3, <1>7, <2>2
         DEF UpdateCrash, Crash, dirs, UpdateCrashWindow, Spend, UpdateCosts, Firm, HasControl
    <2>3. ~((RollbackReported \/ ResumeStart) /\ HasControl)
      BY <1>1, <1>3, <1>7 DEF RollbackReported, ResumeStart, HasControl, Step, vars
    <2>4. CASE UNCHANGED allvars
      BY <1>1, <1>3, <1>7, <2>4 DEF allvars, vars, uvars
    <2>5. QED
      BY <1>7, <2>1, <2>2, <2>3, <2>4, LeavesRollback
  <1>8. CASE upc \in {"down", "start"}
    <2>1. CASE PublisherStep /\ slot # NoTree
      <3>1. upc = "start" /\ pc \in RecoverySteps
        BY <1>8, <2>1, WhoWaits
      <3>2. slot # NoTree /\ \A m \in Ops : m # NoTree
        BY <2>1, MaxOpsAssumption DEF Ops, NoTree
      <3>3. ASSUME NEW m \in Ops, RecoverCommitted(m) PROVE FALSE
        BY <1>1, <1>3, <3>2, <3>3 DEF RecoverCommitted, Pick, InGap, PlaceTypes, dirs
      <3>4. ASSUME NEW m \in Ops, RecoverForward(m) PROVE FALSE
        BY <1>1, <1>3, <3>2, <3>4 DEF RecoverForward, Pick, InGap, PlaceTypes, dirs
      <3>5. ASSUME NEW m \in Ops, RecoverBack(m) PROVE FALSE
        BY <1>1, <1>3, <3>2, <3>5 DEF RecoverBack, Pick, InGap, PlaceTypes, dirs
      <3>6. ASSUME NEW m \in Ops, RecoverAbandon(m) PROVE FALSE
        BY <1>1, <1>3, <3>2, <3>6 DEF RecoverAbandon, Pick, InGap, PlaceTypes, dirs
      <3>7. ASSUME NEW m \in Ops, RecoverSwapped(m) PROVE FALSE
        BY <1>1, <1>3, <3>2, <3>7 DEF RecoverSwapped, Pick, InGap, PlaceTypes, dirs
      <3>8. ASSUME NEW m \in Ops, RecoverLost(m) PROVE FALSE
        BY <1>1, <1>3, <3>2, <3>8 DEF RecoverLost, Pick, InGap, PlaceTypes, dirs
      <3>9. ASSUME NEW m \in Ops, RecoverRefuse(m) PROVE FALSE
        BY <1>1, <1>3, <3>2, <3>9 DEF RecoverRefuse, Pick, InGap, PlaceTypes, dirs
      <3>10. CASE RecoverMark
        BY <1>1, <1>3, <3>2, <3>10 DEF RecoverMark, Pick, InGap, PlaceTypes, dirs
      <3>11. CASE RecoverPoint
        BY <1>1, <1>3, <3>2, <3>11 DEF RecoverPoint, Pick, InGap, PlaceTypes, dirs
      <3>12. CASE RecoverVerify
        BY <1>1, <1>3, <3>2, <3>12 DEF RecoverVerify, Pick, InGap, PlaceTypes, dirs
      <3>13. CASE RecoverLog
        BY <1>1, <1>3, <3>2, <3>13 DEF RecoverLog, Pick, InGap, PlaceTypes, dirs
      <3>14. CASE RecoverIndex
        BY <1>1, <1>3, <3>2, <3>14 DEF RecoverIndex, Pick, InGap, PlaceTypes, dirs
      <3>15. CASE RecoverUnpoint
        BY <1>1, <1>3, <3>2, <3>15 DEF RecoverUnpoint, Pick, InGap, PlaceTypes, dirs
      <3>16. CASE RecoverForget
        BY <1>1, <1>3, <3>2, <3>16 DEF RecoverForget, Pick, InGap, PlaceTypes, dirs
      <3>17. CASE RecoverBlock
        BY <1>1, <1>3, <3>2, <3>17 DEF RecoverBlock, Pick, InGap, PlaceTypes, dirs
      <3>18. CASE RecoverDone
        BY <1>1, <1>3, <3>2, <3>18 DEF RecoverDone, Pick, InGap, PlaceTypes, dirs
      <3>19. CASE RecoverFault
        BY <1>1, <1>3, <3>2, <3>19 DEF RecoverFault, Pick, InGap, PlaceTypes, dirs
      <3>20. CASE MarkFault
        BY <1>1, <1>3, <3>2, <3>20 DEF MarkFault, Pick, InGap, PlaceTypes, dirs
      <3>21. QED
        BY <2>1, <3>1, <3>3, <3>4, <3>5, <3>6, <3>7, <3>8, <3>9, <3>10, <3>11, <3>12,
           <3>13, <3>14, <3>15, <3>16, <3>17, <3>18, <3>19, <3>20, RecoveringSteps
           DEF Recover, RecoverJournal
    <2>2. CASE PublisherStep /\ slot = NoTree
      <3>1. PICK n \in Ops : Waiting(n)
        BY <1>3, <1>8, <2>2
      <3>2. upc = "start" /\ upc' \in {"down", "start"}
        BY <1>8, <2>2, WhoWaits
      <3>3. Waiting(n)' /\ pc' # "idle"
        BY <1>1, <2>2, <3>1, <3>2, WaitingGoesOn
      <3>4. QED
        BY <3>2, <3>3
    <2>3. CASE ~PublisherStep
      <3>1. slot = NoTree /\ UNCHANGED <<snap, journal>>
        <4>1. ~Build /\ ~RemoveSkill
          BY <1>8 DEF Build, RemoveSkill, Step
        <4>2. QED
          BY <1>1, <2>3, <4>1, TreesStay
      <3>2. PICK n \in Ops : Waiting(n) /\ pc # "idle"
        BY <1>3, <1>8, <3>1
      <3>3. /\ upc' \in {"down", "start"} /\ pc' # "idle"
            /\ (call' = call /\ pc' = pc) \/ pc' \in {"down", "recover"}
        BY <1>8, <2>3, <3>2, LeavesRollback
           DEF HasControl, UpdateCrash, Crash, UpdateProcessStart, Start, EditIndex, uvars,
               allvars, vars
      <3>4. Waiting(n)'
        BY <3>1, <3>2, <3>3 DEF Waiting
      <3>5. QED
        BY <3>3, <3>4
    <2>4. QED
      BY <2>1, <2>2, <2>3
  <1>9. CASE upc \notin {"u_wait", "m_wait", "down", "start"}
    <2>1. ~PublisherStep
      <3>1. upc # "b_wait"
        BY <1>4 DEF UndoTxSteps
      <3>2. QED
        BY <1>9, <3>1, WhoWaits
    <2>2. ~RemoveSkill
      BY <1>4 DEF RemoveSkill, Step, UndoTxSteps
    <2>3. ~Build
      BY <1>1 DEF Build, NoTree
    <2>4. QED
      BY <1>1, <1>3, <1>9, <2>1, <2>2, <2>3, TreesStay
  <1>10. upc = "u_wait" /\ upc' = "u_wait" => PublisherStep \/ UNCHANGED allvars
    BY CallsGoOn
  <1>11. CASE UNCHANGED allvars
    BY <1>1, <1>3, <1>6, <1>7, <1>8, <1>9, <1>11 DEF allvars, vars, uvars
  <1>12. QED
    BY <1>5, <1>6, <1>7, <1>8, <1>9, <1>10, <1>11

\* Every step keeps what is said of the place of the Skill.
LEMMA StaysInvNext ==
    ASSUME Before, StaysInv, [UNext]_allvars
    PROVE  StaysInv'
  <1> SUFFICES ASSUME Firm' PROVE Stays'
    BY DEF StaysInv
  <1>1. CASE Build
    BY <1>1, MaxOpsAssumption
       DEF Build, Step, Stays, SnapshotNamed, UndonePublished, PublishingGone, FoundSkill,
           JournalFollowsPublication, EmptyHeld, UndoHolds, Before, UInv,
           StateFollowsStep, NoJournal, Published, UndoTxSteps, NoTree
  <1>2. CASE ~Build
    <2>1. Firm /\ Stays
      BY <1>2, CostGrows, NothingYetNext DEF Before, Firm, StaysInv
    <2>2. SnapshotNamed'
      BY <2>1, SnapshotNamedNext DEF Stays
    <2>3. UndonePublished' /\ FoundSkill'
      BY <2>1, UndonePublishedNext, FoundSkillNext
    <2>4. PublishingGone' /\ JournalFollowsPublication'
      BY <2>1, PublishingGoneNext, JournalFollowsPublicationNext
    <2>5. EmptyHeld' /\ UndoHolds'
      BY <2>1, EmptyHeldNext, UndoHoldsNext
    <2>6. QED
      BY <2>2, <2>3, <2>4, <2>5 DEF Stays
  <1>3. QED
    BY <1>1, <1>2

-----------------------------------------------------------------------------
(* The Skill is backed by its records. *)

\* A tree without an update of its own to finish: a committed one, or none.
Sound(t) == t \in done \cup {NoTree}

\* The states of an update that a start of the service will finish or refuse.
InFlight == {"publishing", "skill_published", "schema_committed", "committed",
             "rollback_required"}

\* The Skill is committed, or the journal of its update is still there.
SlotAccounted ==
    Sound(slot) \/ \E n \in Ops : slot = n /\ tx[n].state \in InFlight

\* So are the snapshots, until an update was withdrawn: but for the Skill that a
\* rollback is withdrawing.
SnapshotsAccounted ==
    "withdrawn" \notin cost =>
        \A m \in Ops : Sound(snap[m]) \/ (upc = "b_wait" /\ m = call.id /\ snap[m] = upd.n)

\* A rollback has the number of no publication.
RollbackNumber ==
    /\ upc \in {"b_wait", "m_wait"} => journal[call.id] = "none"
    /\ upc = "b_wait" =>
         upd.n < call.id /\ tx[upd.n].state \in Published /\ tx[upd.n].snapshot

\* What a rollback that withdraws an update has set aside and put back.
WithdrawingFollows ==
    upc = "b_wait" =>
        /\ pc # "putback"
        /\ Sound(snap[call.id]) \/ snap[call.id] = upd.n
        /\ pc \in {"r_snapshot", "discard"} => snap[call.id] = NoTree
        /\ pc \in {"r_snapshot", "r_restore"} => Sound(snap[call.latest]) /\ call.latest # call.id
        /\ pc \in {"r_point", "r_log", "r_index"} => Sound(slot)
        /\ pc = "idle" =>
             \/ outcome = "rolled_back" /\ Sound(slot)
             \/ outcome = "rollback_failed" /\ snap[call.id] = NoTree

\* A rollback by hand moves committed trees only.
ManualSound == upc = "m_wait" => "withdrawn" \notin cost /\ Sound(call.moved)

\* A journal that is about to go is not the journal of the Skill.
DroppedElsewhere ==
    /\ upc = "b_remove" => Sound(slot)
    /\ upc = "v_remove" /\ tx[upd.n].state # "committed" => slot # upd.n
    /\ upc = "u_drop" => slot # upd.n /\ upd.n \notin staging

\* An update finds a committed Skill, or none.
FoundSound ==
    upc \in {"u_save", "u_begin", "u_publishing", "u_publish", "u_wait"} => Sound(upd.before)

\* The snapshot of an update holds what it found, and is the newest one.
SnapshotSound ==
    /\ \A n \in Ops : tx[n].state \in {"none", "prepared", "publishing"} => ~tx[n].snapshot
    /\ \A n \in Ops : tx[n].state \in Published \cup {"publishing"} => Sound(snap[n])
    /\ upc # "b_remove" =>
         \A n \in Ops : tx[n].state \in Published =>
             \A m \in Ops : m > n => snap[m] = NoTree \/ (upc = "b_wait" /\ m = call.id)

\* What the recovery of the publisher brings back, or rolls forward to.
RecoverySound ==
    \A m \in Ops :
        /\ journal[m] \in {"named", "snapshotted", "swapped"} => Sound(snap[m])
        /\ journal[m] \in {"named", "snapshotted"} /\ snap[m] # NoTree /\ m \in staging =>
               tx[m].state = "publishing"

\* All of it.
Accounted ==
    /\ SlotAccounted /\ SnapshotsAccounted /\ RollbackNumber /\ WithdrawingFollows
    /\ ManualSound /\ DroppedElsewhere /\ FoundSound /\ SnapshotSound /\ RecoverySound

\* The part of the invariant about the records of the Skill.
BackedInv == "backed" \notin cost => Accounted

-----------------------------------------------------------------------------
(* The trees a step of the publisher moves. *)

\* In a publication.
PublicationMoves ==
    /\ \A m \in Ops : m # upd.n => snap'[m] = snap[m]
    /\ \/ slot' = slot /\ snap'[upd.n] = snap[upd.n]
       \/ slot' = NoTree /\ snap'[upd.n] \in {snap[upd.n], upd.before}
       \/ slot' = upd.n /\ snap'[upd.n] = snap[upd.n]
       \/ slot' = upd.before /\ snap'[upd.n] = NoTree
       \/ pc = "putback"

\* A step of a publication moves no others.
LEMMA PublicationMovesTrees ==
    ASSUME Before, PublisherStep, upc = "u_wait"
    PROVE  PublicationMoves
  <1>1. /\ PlaceTypes
        /\ call.op = "publish" /\ call.id = upd.n /\ upd.n \in Ops
        /\ pc \notin RollbackSteps \cup RecoverySteps
        /\ pc = "snapshot" => slot = upd.before
        /\ pc = "reinstate" => snap[upd.n] = upd.before
    BY PlacesTyped, WhoWaits
       DEF Before, UInv, BeforeFollowsStep, PublicationInv, WithdrawalFollows
  <1>2. CASE Compile
    BY <1>1, <1>2 DEF Compile, dirs, PlaceTypes, PublicationMoves
  <1>3. CASE BeginJournal
    BY <1>1, <1>3 DEF BeginJournal, dirs, PlaceTypes, PublicationMoves
  <1>4. CASE NameSnapshot
    BY <1>1, <1>4 DEF NameSnapshot, dirs, PlaceTypes, PublicationMoves
  <1>5. CASE TakeSnapshot
    BY <1>1, <1>5 DEF TakeSnapshot, dirs, PlaceTypes, PublicationMoves
  <1>6. CASE MarkSnapshotted
    BY <1>1, <1>6 DEF MarkSnapshotted, dirs, PlaceTypes, PublicationMoves
  <1>7. CASE Swap
    BY <1>1, <1>7 DEF Swap, dirs, PlaceTypes, PublicationMoves
  <1>8. CASE MarkSwapped
    BY <1>1, <1>8 DEF MarkSwapped, dirs, PlaceTypes, PublicationMoves
  <1>9. CASE WritePointer
    BY <1>1, <1>9 DEF WritePointer, dirs, PlaceTypes, PublicationMoves
  <1>10. CASE LogSuccess
    BY <1>1, <1>10 DEF LogSuccess, dirs, PlaceTypes, PublicationMoves
  <1>11. CASE UpdateIndex
    BY <1>1, <1>11 DEF UpdateIndex, dirs, PlaceTypes, PublicationMoves
  <1>12. CASE CommitJournal
    BY <1>1, <1>12 DEF CommitJournal, dirs, PlaceTypes, PublicationMoves
  <1>13. CASE ForgetJournal
    BY <1>1, <1>13 DEF ForgetJournal, dirs, PlaceTypes, PublicationMoves
  <1>14. CASE Abort
    BY <1>1, <1>14 DEF Abort, dirs, PlaceTypes, PublicationMoves
  <1>15. CASE Displace
    BY <1>1, <1>15 DEF Displace, dirs, PlaceTypes, PublicationMoves
  <1>16. CASE Reinstate
    BY <1>1, <1>16 DEF Reinstate, dirs, PlaceTypes, PublicationMoves
  <1>17. CASE Discard
    BY <1>1, <1>17 DEF Discard, dirs, PlaceTypes, PublicationMoves
  <1>18. CASE PutBack
    BY <1>1, <1>18 DEF PutBack, dirs, PlaceTypes, PublicationMoves
  <1>19. CASE Unpublish
    BY <1>1, <1>19 DEF Unpublish, dirs, PlaceTypes, PublicationMoves
  <1>20. CASE ForgetFailed
    BY <1>1, <1>20 DEF ForgetFailed, dirs, PlaceTypes, PublicationMoves
  <1>21. CASE Repoint
    BY <1>1, <1>21 DEF Repoint, dirs, PlaceTypes, PublicationMoves
  <1>22. CASE LogFailure
    BY <1>1, <1>22 DEF LogFailure, dirs, PlaceTypes, PublicationMoves
  <1>23. CASE IndexFailure
    BY <1>1, <1>23 DEF IndexFailure, dirs, PlaceTypes, PublicationMoves
  <1>24. CASE PublishFault
    BY <1>1, <1>24 DEF PublishFault, dirs, PlaceTypes, PublicationMoves
  <1>25. CASE UndoFault
    BY <1>1, <1>25 DEF UndoFault, dirs, PlaceTypes, PublicationMoves
  <1>26. QED
    BY <1>1, <1>2, <1>3, <1>4, <1>5, <1>6, <1>7, <1>8, <1>9, <1>10, <1>11, <1>12, <1>13,
       <1>14, <1>15, <1>16, <1>17, <1>18, <1>19, <1>20, <1>21, <1>22, <1>23, <1>24,
       <1>25, PublicationSteps
       DEF Publish, Compensate

\* In a rollback.
RollbackMoves ==
    /\ UNCHANGED <<staging, journal>>
    /\ call'.id = call.id /\ call'.latest = call.latest
    /\ \/ UNCHANGED <<slot, snap>>
       \/ slot' = NoTree /\ snap' = snap
       \/ pc = "r_snapshot" /\ slot' = NoTree /\ snap' = [snap EXCEPT ![call.id] = slot]
       \/ pc = "r_restore" /\ slot' = snap[call.latest]
                           /\ snap' = [snap EXCEPT ![call.latest] = NoTree]
       \/ pc = "reinstate" /\ slot' = snap[call.id]
                           /\ snap' = [snap EXCEPT ![call.id] = NoTree]
       \/ pc = "putback" /\ slot' = call.moved /\ snap' = snap
    /\ call'.moved \in {call.moved, slot}

\* A step of a rollback moves no others.
LEMMA RollbackMovesTrees ==
    ASSUME Before, PublisherStep, upc \in {"b_wait", "m_wait"}
    PROVE  RollbackMoves
  <1>1. /\ PlaceTypes /\ call.op = "rollback" /\ call.id \in Ops
        /\ pc \notin PublishSteps \cup UndoSteps \cup RecoverySteps
    BY PlacesTyped, WhoWaits DEF Before, UInv
  <1>2. CASE RollbackSnapshot
    BY <1>1, CallChanges, <1>2
       DEF RollbackSnapshot, dirs, records, PlaceTypes, RollbackMoves
  <1>3. CASE RollbackRestore
    BY <1>1, CallChanges, <1>3
       DEF RollbackRestore, dirs, records, PlaceTypes, RollbackMoves
  <1>4. CASE RollbackPoint
    BY <1>1, CallChanges, <1>4
       DEF RollbackPoint, dirs, records, PlaceTypes, RollbackMoves
  <1>5. CASE RollbackLog
    BY <1>1, CallChanges, <1>5 DEF RollbackLog, dirs, records, PlaceTypes, RollbackMoves
  <1>6. CASE RollbackIndex
    BY <1>1, CallChanges, <1>6
       DEF RollbackIndex, dirs, records, PlaceTypes, RollbackMoves
  <1>7. CASE Displace
    BY <1>1, CallChanges, <1>7 DEF Displace, dirs, records, PlaceTypes, RollbackMoves
  <1>8. CASE Reinstate
    BY <1>1, CallChanges, <1>8 DEF Reinstate, dirs, records, PlaceTypes, RollbackMoves
  <1>9. CASE Discard
    BY <1>1, CallChanges, <1>9 DEF Discard, dirs, records, PlaceTypes, RollbackMoves
  <1>10. CASE PutBack
    BY <1>1, CallChanges, <1>10 DEF PutBack, dirs, records, PlaceTypes, RollbackMoves
  <1>11. CASE RollbackFault
    BY <1>1, CallChanges, <1>11
       DEF RollbackFault, dirs, records, PlaceTypes, RollbackMoves
  <1>12. CASE UndoFault
    BY <1>1, CallChanges, <1>12 DEF UndoFault, dirs, records, PlaceTypes, RollbackMoves
  <1>13. QED
    BY <1>1, <1>2, <1>3, <1>4, <1>5, <1>6, <1>7, <1>8, <1>9, <1>10, <1>11, <1>12,
       RollingSteps
       DEF Rollback

\* In the recovery of a constructor.
RecoveryMoves ==
    /\ staging' \subseteq staging
    /\ \A m \in Ops :
          /\ snap'[m] \in {snap[m], NoTree}
          /\ \/ journal'[m] = journal[m]
             \/ journal'[m] \in {"none", "rollback_required"}
             \/ journal[m] \in {"named", "snapshotted"} /\ journal'[m] = "swapped"
    /\ \/ slot' = slot
       \/ \E m \in Ops : /\ journal[m] \in {"named", "snapshotted"} /\ snap[m] # NoTree
                         /\ m \in staging /\ slot' = m
       \/ \E m \in Ops : /\ journal[m] \in {"named", "snapshotted", "swapped"}
                         /\ slot' = snap[m]

\* A step of the recovery moves no others.
LEMMA RecoveryMovesTrees ==
    ASSUME Before, PublisherStep, upc = "start"
    PROVE  RecoveryMoves
  <1>1. /\ PlaceTypes /\ pc \in RecoverySteps
        /\ pc \in RecoverySteps \ {"recover"} => call.id \in Ops
        /\ pc = "rec_mark" => journal[call.id] \in {"named", "snapshotted"}
    BY PlacesTyped, WhoWaits DEF Before, UInv, IInv, CallMatchesStep, JournalsSettled
  <1>2. ASSUME NEW m \in Ops, RecoverCommitted(m) PROVE RecoveryMoves
    BY <1>1, <1>2
       DEF RecoverCommitted, Pick, InGap, SetJournal, dirs, records, PlaceTypes,
          RecoverySteps, RecoveryMoves
  <1>3. ASSUME NEW m \in Ops, RecoverForward(m) PROVE RecoveryMoves
    BY <1>1, <1>3
       DEF RecoverForward, Pick, InGap, SetJournal, dirs, records, PlaceTypes,
          RecoverySteps, RecoveryMoves
  <1>4. ASSUME NEW m \in Ops, RecoverBack(m) PROVE RecoveryMoves
    BY <1>1, <1>4
       DEF RecoverBack, Pick, InGap, SetJournal, dirs, records, PlaceTypes,
          RecoverySteps, RecoveryMoves
  <1>5. ASSUME NEW m \in Ops, RecoverAbandon(m) PROVE RecoveryMoves
    BY <1>1, <1>5
       DEF RecoverAbandon, Pick, InGap, SetJournal, dirs, records, PlaceTypes,
          RecoverySteps, RecoveryMoves
  <1>6. ASSUME NEW m \in Ops, RecoverSwapped(m) PROVE RecoveryMoves
    BY <1>1, <1>6
       DEF RecoverSwapped, Pick, InGap, SetJournal, dirs, records, PlaceTypes,
          RecoverySteps, RecoveryMoves
  <1>7. ASSUME NEW m \in Ops, RecoverLost(m) PROVE RecoveryMoves
    BY <1>1, <1>7
       DEF RecoverLost, Pick, InGap, SetJournal, dirs, records, PlaceTypes,
          RecoverySteps, RecoveryMoves
  <1>8. ASSUME NEW m \in Ops, RecoverRefuse(m) PROVE RecoveryMoves
    BY <1>1, <1>8
       DEF RecoverRefuse, Pick, InGap, SetJournal, dirs, records, PlaceTypes,
          RecoverySteps, RecoveryMoves
  <1>9. CASE RecoverMark
    BY <1>1, <1>9
       DEF RecoverMark, Pick, InGap, SetJournal, dirs, records, PlaceTypes,
          RecoverySteps, RecoveryMoves
  <1>10. CASE RecoverPoint
    BY <1>1, <1>10
       DEF RecoverPoint, Pick, InGap, SetJournal, dirs, records, PlaceTypes,
          RecoverySteps, RecoveryMoves
  <1>11. CASE RecoverVerify
    BY <1>1, <1>11
       DEF RecoverVerify, Pick, InGap, SetJournal, dirs, records, PlaceTypes,
          RecoverySteps, RecoveryMoves
  <1>12. CASE RecoverLog
    BY <1>1, <1>12
       DEF RecoverLog, Pick, InGap, SetJournal, dirs, records, PlaceTypes,
          RecoverySteps, RecoveryMoves
  <1>13. CASE RecoverIndex
    BY <1>1, <1>13
       DEF RecoverIndex, Pick, InGap, SetJournal, dirs, records, PlaceTypes,
          RecoverySteps, RecoveryMoves
  <1>14. CASE RecoverUnpoint
    BY <1>1, <1>14
       DEF RecoverUnpoint, Pick, InGap, SetJournal, dirs, records, PlaceTypes,
          RecoverySteps, RecoveryMoves
  <1>15. CASE RecoverForget
    BY <1>1, <1>15
       DEF RecoverForget, Pick, InGap, SetJournal, dirs, records, PlaceTypes,
          RecoverySteps, RecoveryMoves
  <1>16. CASE RecoverBlock
    BY <1>1, <1>16
       DEF RecoverBlock, Pick, InGap, SetJournal, dirs, records, PlaceTypes,
          RecoverySteps, RecoveryMoves
  <1>17. CASE RecoverDone
    BY <1>1, <1>17
       DEF RecoverDone, Pick, InGap, SetJournal, dirs, records, PlaceTypes,
          RecoverySteps, RecoveryMoves
  <1>18. CASE RecoverFault
    BY <1>1, <1>18
       DEF RecoverFault, Pick, InGap, SetJournal, dirs, records, PlaceTypes,
          RecoverySteps, RecoveryMoves
  <1>19. CASE MarkFault
    BY <1>1, <1>19
       DEF MarkFault, Pick, InGap, SetJournal, dirs, records, PlaceTypes, RecoverySteps,
          RecoveryMoves
  <1>20. QED
    BY <1>1, <1>2, <1>3, <1>4, <1>5, <1>6, <1>7, <1>8, <1>9, <1>10, <1>11, <1>12, <1>13,
       <1>14, <1>15, <1>16, <1>17, <1>18, <1>19, RecoveringSteps
       DEF Recover, RecoverJournal

-----------------------------------------------------------------------------
(* What every step keeps of the records of the Skill. *)

\* The state before a step, of which the lemmas below say what it leads to.
Accounting == Before /\ Accounted /\ "backed" \notin cost' /\ ~Build

\* What such a step leaves alone.
LEMMA AccountsOpen ==
    ASSUME Accounting, [UNext]_allvars
    PROVE  /\ done \subseteq done' /\ "backed" \notin cost
           /\ "withdrawn" \in cost => "withdrawn" \in cost'
           /\ PlaceTypes
           /\ \A t : Sound(t) => t \in done' \cup {NoTree}
           /\ \A m, n \in Ops : tx[m].state # "none" /\ tx[n].state # "none" => m = n
           /\ upc \notin {"start", "u_wait", "b_wait", "m_wait"} => ~PublisherStep
  <1>1. done \subseteq done' /\ cost \subseteq cost'
    BY DoneGrows, CostGrows DEF Accounting
  <1>2. upc \notin {"start", "u_wait", "b_wait", "m_wait"} => ~PublisherStep
    BY WhoWaits DEF Accounting
  <1>3. QED
    BY <1>1, <1>2, PlacesTyped
       DEF Accounting, Sound, Before, UInv, StateFollowsStep

\* The Skill is accounted for when its journal goes.
LEMMA SlotKeepsAccount ==
    ASSUME Accounting, [UNext]_allvars, slot' = slot
    PROVE  SlotAccounted'
  <1>1. CASE Sound(slot)
    BY <1>1, AccountsOpen DEF SlotAccounted, Sound
  <1>2. ASSUME NEW n \in Ops, slot = n, tx[n].state \in InFlight
        PROVE  SlotAccounted'
    <2>1. CASE tx'[n].state = tx[n].state
      BY <1>2, <2>1 DEF SlotAccounted
    <2>2. CASE JournalWritten(n)
      <3>1. CASE tx'[n].state \in InFlight
        BY <1>2, <3>1 DEF SlotAccounted
      <3>2. CASE upc = "u_begin"
        BY <1>2, <3>2 DEF Accounting, Before, UInv, StateFollowsStep, NoJournal, InFlight
      <3>3. CASE RemoveTransaction
        BY <1>2, <2>2, <3>3 DEF RemoveTransaction, JournalWritten, SlotAccounted, Sound
      <3>4. CASE RemoveRecovered \/ FinishRollback \/ DropTransaction
        BY <1>2, <2>2, <3>4, AccountsOpen
           DEF RemoveRecovered, FinishRollback, DropTransaction, Step, Conclude, JournalWritten,
               SlotAccounted, Sound, Accounting, Accounted, DroppedElsewhere
      <3>5. QED
        BY <2>2, <3>1, <3>2, <3>3, <3>4 DEF JournalWritten, InFlight
    <2>3. QED
      BY <2>1, <2>2, JournalsWritten DEF Accounting, Before
  <1>3. QED
    BY <1>1, <1>2 DEF Accounting, Accounted, SlotAccounted

\* SlotAccounted is kept.
LEMMA SlotAccountedNext ==
    ASSUME Accounting, [UNext]_allvars
    PROVE  SlotAccounted'
  <1>1. CASE slot' = slot
    BY <1>1, SlotKeepsAccount
  <1>2. CASE slot' = NoTree
    BY <1>2 DEF SlotAccounted, Sound
  <1>3. ASSUME PublisherStep, slot' # slot PROVE SlotAccounted'
    <2>1. tx' = tx /\ upc \in {"start", "u_wait", "b_wait", "m_wait"}
      BY <1>3, WhoWaits DEF Accounting
    <2>2. CASE upc = "u_wait"
      <3>1. /\ upd.n \in Ops /\ tx'[upd.n].state = "publishing" /\ Sound(upd.before)
            /\ pc # "putback"
        BY <2>1, <2>2, AccountsOpen
           DEF Accounting, Accounted, FoundSound, Before, UInv, Control, ExecuteSteps,
               StateFollowsStep, PublicationInv, FailureCosts
      <3>2. slot' = NoTree \/ slot' = upd.n \/ slot' = upd.before
        BY <1>3, <2>2, <3>1, PublicationMovesTrees DEF Accounting, PublicationMoves
      <3>3. QED
        BY <3>1, <3>2, AccountsOpen DEF SlotAccounted, Sound, InFlight
    <2>3. CASE upc = "b_wait"
      <3>1. /\ upd.n \in Ops /\ tx'[upd.n].state \in Published
            /\ Sound(snap[call.id]) \/ snap[call.id] = upd.n
            /\ pc = "r_restore" => Sound(snap[call.latest])
            /\ pc # "putback"
        BY <2>1, <2>3
           DEF Accounting, Accounted, RollbackNumber, WithdrawingFollows, Before, UInv,
               Control, UndoTxSteps
      <3>2. slot' = NoTree \/ Sound(slot') \/ slot' = upd.n
        BY <1>3, <2>3, <3>1, RollbackMovesTrees DEF Accounting, RollbackMoves
      <3>3. QED
        BY <3>1, <3>2, AccountsOpen DEF SlotAccounted, Sound, InFlight, Published
    <2>4. CASE upc = "m_wait"
      <3>1. /\ call.id \in Ops /\ (pc = "r_restore" => call.latest \in Ops)
            /\ Sound(call.moved) /\ \A m \in Ops : Sound(snap[m])
        BY <1>3, <2>4, WhoWaits, AccountsOpen
           DEF Accounting, Accounted, ManualSound, SnapshotsAccounted, PlaceTypes
      <3>2. slot' = NoTree \/ Sound(slot')
        BY <1>3, <2>4, <3>1, RollbackMovesTrees DEF Accounting, RollbackMoves
      <3>3. QED
        BY <3>2, AccountsOpen DEF SlotAccounted, Sound
    <2>5. CASE upc = "start"
      BY <1>3, <2>1, <2>5, RecoveryMovesTrees, AccountsOpen
         DEF Accounting, Accounted, RecoverySound, RecoveryMoves, SlotAccounted, Sound, InFlight
    <2>6. QED
      BY <2>1, <2>2, <2>3, <2>4, <2>5
  <1>4. CASE RemoveSkill
    BY <1>2, <1>4 DEF RemoveSkill
  <1>5. QED
    BY <1>1, <1>3, <1>4, TreesStay DEF Accounting

\* The use case gets control back from a rollback, or is killed in it.
LEMMA LeavesWithdrawal ==
    ASSUME Before, [UNext]_allvars, upc = "b_wait", upc' # "b_wait"
    PROVE  RollbackReturned \/ UpdateCrash
  <1>1. ~PublisherStep
    BY WhoWaits, RollbackProceeds DEF Before, UInv, PublisherStep, RollsBackOn
  <1>2. ~Execute /\ ~ResumePending /\ ~RollbackReported
    BY DEF Execute, SaveSchema, BeginTransaction, MarkPublishing, CallPublish, MarkPublished,
           PublishRaised, DropTransaction, SaveUnits, MarkSchema, MarkCommitted,
           RemoveTransaction, ExecuteFault, ResumePending, ResumeTransaction, ResumeStart,
           ResumeDrop, ResumeCommit, ResumeRollback, ResumeRefuse, Resume, CommitRecovered,
           RemoveRecovered, ResumeFault, ResumeDone, Refuse, RollbackReported, Step, Conclude
  <1>3. UndoTransaction => RollbackReturned
    BY DEF UndoTransaction, RestoreSchema, CallRollback, NothingToRollBack, RemoveSkill,
           ForeignSkill, FinishRollback, UndoTxFault, BlockTransaction, Refuse, Step, Conclude
  <1>4. ~Commands /\ ~UpdateProcessStart /\ ~UpdateExit /\ ~EditIndex /\ ~UNCHANGED allvars
    BY DEF Commands, Build, UpdateStart, UpdateDecline, RollbackCommand, UpdateProcessStart,
           UpdateExit, EditIndex, Step, Conclude, allvars, uvars
  <1>5. QED
    BY <1>1, <1>2, <1>3, <1>4 DEF UNext, UpdateProgress

\* A rollback that is left without a report costs, or has set nothing aside.
LEMMA WithdrawalLeft ==
    ASSUME Accounting, [UNext]_allvars, upc = "b_wait", upc' # "b_wait"
    PROVE  /\ UNCHANGED <<slot, snap, staging, displaced, journal>>
           /\ \/ upc' = "b_remove" /\ "withdrawn" \in cost' /\ Sound(slot)
              \/ upc' # "b_remove" /\ snap[call.id] = NoTree
  <1>1. ~PublisherStep /\ ~Build /\ ~RemoveSkill
    BY WhoWaits, RollbackProceeds
       DEF Accounting, Before, UInv, PublisherStep, RollsBackOn, RemoveSkill, Step
  <1>2. CASE RollbackReturned
    BY <1>1, <1>2, TreesStay
       DEF RollbackReturned, Step, HasControl, Accounting, Accounted, WithdrawingFollows
  <1>3. CASE UpdateCrash
    <2>1. <<upc, pc>> \notin UpdateCrashWindow["backed"] /\ upc' = "down"
      BY <1>3 DEF UpdateCrash, Spend, UpdateCosts, Accounting
    <2>2. pc \in {"r_snapshot", "discard"}
      <3>1. pc \in RollbackSteps \cup RestoreSteps \cup {"idle"}
        BY DEF Accounting, Before, UInv, Control, IInv, TypeOK, CallMatchesStep, Steps,
               JournalsSettled
      <3>2. pc # "putback"
        BY DEF Accounting, Accounted, WithdrawingFollows
      <3>3. QED
        BY <2>1, <3>1, <3>2 DEF UpdateCrashWindow, RollbackSteps, RestoreSteps
    <2>3. QED
      BY <1>1, <2>1, <2>2, TreesStay DEF Accounting, Accounted, WithdrawingFollows
  <1>4. QED
    BY <1>2, <1>3, LeavesWithdrawal DEF Accounting

\* SnapshotsAccounted is kept.
LEMMA SnapshotsAccountedNext ==
    ASSUME Accounting, [UNext]_allvars
    PROVE  SnapshotsAccounted'
  <1>1. SUFFICES ASSUME "withdrawn" \notin cost', NEW m \in Ops
                 PROVE  \/ snap'[m] \in done' \cup {NoTree}
                        \/ upc' = "b_wait" /\ m = call'.id /\ snap'[m] = upd'.n
    BY DEF SnapshotsAccounted, Sound
  <1>2. /\ Sound(snap[m]) \/ (upc = "b_wait" /\ m = call.id /\ snap[m] = upd.n)
        /\ snap \in [Ops -> Trees] /\ m \in Ops
    BY <1>1, AccountsOpen DEF Accounting, Accounted, SnapshotsAccounted, PlaceTypes
  <1>3. CASE PublisherStep /\ upc = "u_wait"
    <2>1. Sound(upd.before) /\ pc # "putback"
      BY <1>3, AccountsOpen
         DEF Accounting, Accounted, FoundSound, Before, PublicationInv, FailureCosts
    <2>2. snap'[m] \in {snap[m], upd.before, NoTree}
      BY <1>2, <1>3, <2>1, PublicationMovesTrees DEF Accounting, PublicationMoves
    <2>3. QED
      BY <1>2, <1>3, <2>1, <2>2, AccountsOpen DEF Sound
  <1>4. CASE PublisherStep /\ upc = "b_wait"
    <2>1. upc' = "b_wait" /\ upd' = upd /\ call'.id = call.id
      BY <1>4, WhoWaits, RollbackProceeds
         DEF Accounting, Before, UInv, PublisherStep, RollsBackOn
    <2>2. Sound(slot) \/ slot = upd.n
      BY <1>4, AccountsOpen
         DEF Accounting, Accounted, SlotAccounted, RollbackNumber, InFlight, Published, Before,
             UInv, Control, UndoTxSteps
    <2>3. snap'[m] \in {snap[m], NoTree} \/ (m = call.id /\ snap'[m] = slot)
      BY <1>2, <1>4, RollbackMovesTrees DEF Accounting, RollbackMoves
    <2>4. QED
      BY <1>2, <2>1, <2>2, <2>3, AccountsOpen DEF Sound
  <1>5. CASE PublisherStep /\ upc = "m_wait"
    <2>1. Sound(slot)
      BY <1>5
         DEF Accounting, Accounted, SlotAccounted, InFlight, Before, UInv, StateFollowsStep,
             NoJournal
    <2>2. snap'[m] \in {snap[m], NoTree, slot}
      BY <1>2, <1>5, RollbackMovesTrees DEF Accounting, RollbackMoves
    <2>3. QED
      BY <1>2, <1>5, <2>1, <2>2, AccountsOpen DEF Sound
  <1>6. CASE PublisherStep /\ upc = "start"
    BY <1>2, <1>6, RecoveryMovesTrees, AccountsOpen DEF Accounting, RecoveryMoves, Sound
  <1>7. CASE ~PublisherStep
    <2>1. snap' = snap
      BY <1>7, TreesStay DEF Accounting, RemoveSkill
    <2>2. CASE upc # "b_wait"
      BY <1>2, <2>1, <2>2, AccountsOpen DEF Sound
    <2>3. CASE upc = "b_wait" /\ upc' # "b_wait"
      BY <1>1, <1>2, <2>1, <2>3, WithdrawalLeft, AccountsOpen DEF Sound
    <2>4. CASE upc = "b_wait" /\ upc' = "b_wait"
      BY <1>2, <1>7, <2>4, CallsGoOn, AccountsOpen DEF allvars, vars, uvars, Sound
    <2>5. QED
      BY <2>2, <2>3, <2>4
  <1>8. QED
    BY <1>3, <1>4, <1>5, <1>6, <1>7, AccountsOpen

\* RollbackNumber is kept.
LEMMA RollbackNumberNext ==
    ASSUME Accounting, [UNext]_allvars
    PROVE  RollbackNumber'
  <1> USE DEF RollbackNumber
  <1>1. RollbackNumber
    BY DEF Accounting, Accounted
  <1>2. CASE upc' \notin {"b_wait", "m_wait"}
    BY <1>2
  <1>3. CASE CallRollback
    <2>1. /\ upc = "b_slot" /\ upc' = "b_wait" /\ tx' = tx /\ upd' = upd
          /\ tx[upd.n].snapshot /\ RollbackStart
      BY <1>3 DEF CallRollback, journals
    <2>2. /\ upd.n \in Ops /\ tx[upd.n].state \in Published /\ upd.n <= clock
          /\ clock \in Nat /\ upd.n \in Nat
      BY <2>1, AccountsOpen
         DEF Accounting, Accounted, SnapshotSound, Published, Before, UInv, Control,
             StateFollowsStep, UndoTxSteps, Numbers, PlaceTypes
    <2>3. QED
      BY <2>1, <2>2, RollbackChooses DEF Accounting
  <1>4. CASE RollbackCommand
    <2>1. upc' = "m_wait" /\ RollbackStart
      BY <1>4 DEF RollbackCommand
    <2>2. QED
      BY <2>1, RollbackChooses DEF Accounting
  <1>5. CASE PublisherStep /\ upc \in {"b_wait", "m_wait"} /\ upc' = upc
    <2>1. tx' = tx /\ upd' = upd /\ journal' = journal /\ call'.id = call.id
      BY <1>5, WhoWaits, RollbackMovesTrees DEF Accounting, RollbackMoves
    <2>2. QED
      BY <1>1, <1>5, <2>1
  <1>6. CASE UNCHANGED allvars
    BY <1>1, <1>6 DEF allvars, vars, uvars
  <1>7. QED
    BY <1>2, <1>3, <1>4, <1>5, <1>6, CallsGoOn

\* The rollback of an update brings back what the update found.
LEMMA WithdrawalChooses ==
    ASSUME Accounting, CallRollback, [UNext]_allvars
    PROVE  Sound(snap[call'.latest])
  <1>1. /\ upc = "b_slot" /\ RollbackStart /\ TakeNewest(snap[upd.n] # NoTree)
        /\ tx[upd.n].snapshot /\ upd.n \in Ops
    BY DEF CallRollback, Accounting, Before, UInv, Control, UndoTxSteps
  <1>2. /\ call'.latest \in Ops /\ snap[call'.latest] # NoTree
        /\ snap[upd.n] # NoTree => upd.n <= call'.latest
    BY <1>1, RollbackChooses DEF Accounting
  <1>3. CASE "withdrawn" \notin cost
    BY <1>1, <1>2, <1>3 DEF Accounting, Accounted, SnapshotsAccounted
  <1>4. CASE snap[upd.n] # NoTree
    <2>1. tx[upd.n].state \in Published
      BY <1>1
         DEF Accounting, Accounted, SnapshotSound, Published, Before, UInv, StateFollowsStep,
             UndoTxSteps
    <2>2. ~(call'.latest > upd.n)
      BY <1>1, <1>2, <2>1 DEF Accounting, Accounted, SnapshotSound
    <2>3. call'.latest = upd.n
      BY <1>1, <1>2, <1>4, <2>2, AccountsOpen DEF PlaceTypes
    <2>4. QED
      BY <1>1, <2>1, <2>3 DEF Accounting, Accounted, SnapshotSound
  <1>5. QED
    BY <1>1, <1>3, <1>4 DEF TakeNewest, Accounting

\* WithdrawingFollows is kept.
LEMMA WithdrawingFollowsNext ==
    ASSUME Accounting, [UNext]_allvars
    PROVE  WithdrawingFollows'
  <1> USE DEF WithdrawingFollows, Sound
  <1>1. WithdrawingFollows /\ PlaceTypes /\ done \subseteq done'
    BY AccountsOpen DEF Accounting, Accounted
  <1>2. CASE upc' # "b_wait"
    BY <1>2
  <1>3. CASE CallRollback
    <2>1. RollbackStart /\ Sound(snap[call'.latest])
      BY <1>3, WithdrawalChooses DEF CallRollback
    <2>2. QED
      BY <1>1, <2>1, RollbackChooses DEF Accounting
  <1>4. CASE UNCHANGED allvars
    BY <1>1, <1>4 DEF allvars, vars, uvars
  <1>5. CASE PublisherStep /\ upc = "b_wait" /\ upc' = "b_wait"
    <2>1. /\ call.op = "rollback" /\ call.id \in Ops /\ upd' = upd
          /\ pc \in RollbackSteps \cup RestoreSteps
          /\ pc \notin PublishSteps \cup UndoSteps \cup RecoverySteps
          /\ "backed" \notin cost'
      BY <1>5, WhoWaits DEF Accounting
    <2>2. Sound(slot) \/ slot = upd.n
      BY <1>5, AccountsOpen
         DEF Accounting, Accounted, SlotAccounted, RollbackNumber, InFlight, Published, Before,
             UInv, Control, UndoTxSteps
    <2>3. pc = "r_restore" => call.latest \in Ops
      BY <1>1 DEF PlaceTypes
    <2>4. CASE RollbackSnapshot
      BY <1>1, <1>5, <2>1, <2>2, <2>3, <2>4
         DEF RollbackSnapshot, Goto, Report, dirs, records, PlaceTypes, RestoreSteps
    <2>5. CASE RollbackRestore
      BY <1>1, <1>5, <2>1, <2>2, <2>3, <2>5
         DEF RollbackRestore, Goto, Report, dirs, records, PlaceTypes, RestoreSteps
    <2>6. CASE RollbackPoint
      BY <1>1, <1>5, <2>1, <2>2, <2>3, <2>6
         DEF RollbackPoint, Goto, Report, dirs, records, PlaceTypes, RestoreSteps
    <2>7. CASE RollbackLog
      BY <1>1, <1>5, <2>1, <2>2, <2>3, <2>7
         DEF RollbackLog, Goto, Report, dirs, records, PlaceTypes, RestoreSteps
    <2>8. CASE RollbackIndex
      BY <1>1, <1>5, <2>1, <2>2, <2>3, <2>8
         DEF RollbackIndex, Goto, Report, dirs, records, PlaceTypes, RestoreSteps
    <2>9. CASE Displace
      BY <1>1, <1>5, <2>1, <2>2, <2>3, CallChanges, <2>9
         DEF Displace, Goto, Report, dirs, records, PlaceTypes, RestoreSteps
    <2>10. CASE Reinstate
      BY <1>1, <1>5, <2>1, <2>2, <2>3, <2>10
         DEF Reinstate, Goto, Report, dirs, records, PlaceTypes, RestoreSteps
    <2>11. CASE Discard
      BY <1>1, <1>5, <2>1, <2>2, <2>3, <2>11
         DEF Discard, Goto, Report, dirs, records, PlaceTypes, RestoreSteps
    <2>12. CASE PutBack
      BY <1>1, <1>5, <2>1, <2>2, <2>3, <2>12
         DEF PutBack, Goto, Report, dirs, records, PlaceTypes, RestoreSteps
    <2>13. CASE RollbackFault /\ Spend(UpdateFaultWindow)
      BY <1>1, <1>5, <2>1, <2>2, <2>3, <2>13
         DEF RollbackFault, Goto, Report, dirs, records, PlaceTypes, RestoreSteps,
            Spend, UpdateFaultWindow, UpdateCosts
    <2>14. ~(UndoFault /\ Spend(UpdateFaultWindow))
      <3>1. UndoFault => pc \in {"displace", "reinstate"}
        BY <1>1, <1>5, <2>1 DEF UndoFault, UndoSteps
      <3>2. pc \in {"displace", "reinstate"} => <<upc, pc>> \in UpdateFaultWindow["backed"]
        BY <1>5 DEF UpdateFaultWindow
      <3>3. QED
        BY <2>1, <3>1, <3>2 DEF Spend, UpdateCosts
    <2>15. QED
      BY <1>5, <2>1, <2>4, <2>5, <2>6, <2>7, <2>8, <2>9, <2>10, <2>11, <2>12, <2>13,
         <2>14, RollingSteps
         DEF Rollback
  <1>6. QED
    BY <1>2, <1>3, <1>4, <1>5, CallsGoOn

\* ManualSound is kept.
LEMMA ManualSoundNext ==
    ASSUME Accounting, [UNext]_allvars
    PROVE  ManualSound'
  <1> USE DEF ManualSound, Sound
  <1>1. ManualSound /\ PlaceTypes /\ done \subseteq done'
    BY AccountsOpen DEF Accounting, Accounted
  <1>2. CASE upc' # "m_wait"
    BY <1>2
  <1>3. CASE RollbackCommand
    <2>1. "withdrawn" \notin cost'
      BY <1>3 DEF RollbackCommand, TakeNewest, Accounting
    <2>2. call'.moved = NoTree
      <3>1. PICK n \in Ops : call' = [NoCall EXCEPT !.op = "rollback", !.id = clock + 1,
                                                    !.latest = n, !.before = slot]
        BY <1>3 DEF RollbackCommand, RollbackStart
      <3>2. QED
        BY <1>1, <3>1, CallChanges DEF PlaceTypes
    <2>3. QED
      BY <2>1, <2>2
  <1>4. CASE PublisherStep /\ upc = "m_wait" /\ upc' = "m_wait"
    <2>1. "withdrawn" \in cost' => "withdrawn" \in cost
      BY <1>4 DEF PublisherStep, Spend, UpdateCosts
    <2>2. Sound(slot)
      BY <1>4
         DEF Accounting, Accounted, SlotAccounted, InFlight, Before, UInv, StateFollowsStep,
             NoJournal
    <2>3. call'.moved \in {call.moved, slot}
      BY <1>4, RollbackMovesTrees DEF Accounting, RollbackMoves
    <2>4. QED
      BY <1>1, <1>4, <2>1, <2>2, <2>3
  <1>5. CASE UNCHANGED allvars
    BY <1>1, <1>5 DEF allvars, vars, uvars
  <1>6. QED
    BY <1>2, <1>3, <1>4, <1>5, CallsGoOn

\* Where a journal is about to go.
LEMMA ComesToForget ==
    ASSUME [UNext]_allvars
    PROVE  /\ upc' = "v_remove" =>
                \/ \E n \in Ops : ResumeDrop(n)
                \/ CommitRecovered
                \/ upc = "v_remove" /\ (PublisherStep \/ UNCHANGED allvars)
           /\ upc' = "u_drop" =>
                \/ PublishRaised
                \/ ExecuteFault /\ upc = "u_publishing"
                \/ upc = "u_drop" /\ (PublisherStep \/ UNCHANGED allvars)
  <1>1. CASE Execute
    <2>1. CASE PublishRaised
      BY <2>1 DEF PublishRaised, Step
    <2>2. CASE ExecuteFault
      BY <2>2 DEF ExecuteFault, Step, Conclude
    <2>3. QED
      BY <1>1, <2>1, <2>2
         DEF Execute, SaveSchema, BeginTransaction, MarkPublishing, CallPublish, MarkPublished,
             DropTransaction, SaveUnits, MarkSchema, MarkCommitted, RemoveTransaction,
             Step, Conclude
  <1>2. CASE UndoTransaction
    BY <1>2
       DEF UndoTransaction, RestoreSchema, CallRollback, RollbackReturned, NothingToRollBack,
           RemoveSkill, ForeignSkill, FinishRollback, UndoTxFault, BlockTransaction, Refuse,
           Step, Conclude
  <1>3. CASE ResumePending
    <2>1. ASSUME NEW n \in Ops, ResumeDrop(n) PROVE upc' = "v_remove"
      BY <2>1 DEF ResumeDrop, Resume, Step
    <2>2. CASE CommitRecovered
      BY <2>2 DEF CommitRecovered, Step
    <2>3. QED
      BY <1>3, <2>1, <2>2
         DEF ResumePending, ResumeTransaction, ResumeStart, ResumeCommit, ResumeRollback,
             ResumeRefuse, Resume, RemoveRecovered, ResumeFault, ResumeDone, Refuse, Step
  <1>4. CASE RollbackReported \/ Commands
    BY <1>4
       DEF RollbackReported, Commands, Build, UpdateStart, UpdateDecline, RollbackCommand,
           Step, Conclude
  <1>5. CASE UpdateProcessStart \/ UpdateCrash \/ UpdateExit \/ EditIndex
    BY <1>5 DEF UpdateProcessStart, UpdateCrash, UpdateExit, EditIndex, uvars
  <1>6. QED
    BY <1>1, <1>2, <1>3, <1>4, <1>5 DEF UNext, UpdateProgress, PublisherStep, allvars, uvars

\* DroppedElsewhere is kept.
LEMMA DroppedElsewhereNext ==
    ASSUME Accounting, [UNext]_allvars
    PROVE  DroppedElsewhere'
  <1> USE DEF DroppedElsewhere
  <1>1. DroppedElsewhere /\ PlaceTypes /\ done \subseteq done'
    BY AccountsOpen DEF Accounting, Accounted
  <1>2. \A n \in Ops : tx[n].state = "prepared" => slot # n
    BY <1>1, AccountsOpen
       DEF Accounting, Accounted, SlotAccounted, Sound, InFlight, Before, UInv, Numbers,
           PlaceTypes, Ops, NoTree
  <1>3. upc' = "b_remove" => slot' \in done' \cup {NoTree}
    <2>1. CASE RollbackReturned /\ upc = "b_wait" /\ outcome = "rolled_back" /\ HasControl
      BY <1>1, <2>1
         DEF Accounting, Accounted, WithdrawingFollows, Sound, RollbackReturned, HasControl, vars
    <2>2. CASE RemoveSkill
      BY <2>2 DEF RemoveSkill
    <2>3. CASE upc = "b_remove" /\ UNCHANGED allvars
      BY <1>1, <2>3 DEF allvars, vars, uvars, Sound
    <2>4. QED
      BY <2>1, <2>2, <2>3, ComesToRemove, AccountsOpen
  <1>4. upc' = "v_remove" => tx'[upd'.n].state = "committed" \/ slot' # upd'.n
    <2>1. ASSUME NEW n \in Ops, ResumeDrop(n)
          PROVE  tx'[upd'.n].state = "committed" \/ slot' # upd'.n
      <3>1. upd'.n = n /\ tx' = tx /\ slot' = slot
        BY <2>1 DEF ResumeDrop, Resume, journals, vars
      <3>2. tx[n].state \in {"committed", "prepared"} \/ slot # n
        BY <2>1 DEF ResumeDrop, TransactionVisible
      <3>3. QED
        BY <1>2, <3>1, <3>2
    <2>2. ASSUME CommitRecovered PROVE tx'[upd'.n].state = "committed"
      <3>1. upd.n \in Ops /\ upd' = upd /\ tx \in [Ops -> Txs] /\ SetState(upd.n, "committed")
        BY <2>2 DEF CommitRecovered, Step, Accounting, Before, UInv, UTypeOK, Control
      <3>2. QED
        BY <3>1, StateWritten DEF TxStates
    <2>3. CASE upc = "v_remove" /\ UNCHANGED allvars
      BY <1>1, <2>3 DEF allvars, vars, uvars
    <2>4. QED
      BY <2>1, <2>2, <2>3, ComesToForget, AccountsOpen
  <1>5. upc' = "u_drop" => slot' # upd'.n /\ upd'.n \notin staging'
    <2>1. CASE PublishRaised
      <3>1. /\ upc = "u_wait" /\ pc = "idle" /\ outcome # "published"
            /\ UNCHANGED <<slot, staging, upd>>
        BY <2>1 DEF PublishRaised, Step, HasControl, vars, dirs
      <3>2. slot = upd.before
        BY <3>1, AccountsOpen
           DEF Accounting, Before, PublicationInv, ReportFollows, FailureCosts
      <3>3. upd.before < upd.n /\ upd.before \in Nat /\ upd.n \in Nat
        BY <3>1, UpdFields, MaxOpsAssumption
           DEF Accounting, Before, UInv, UTypeOK, Control, ExecuteSteps, FoundIsOlder, Trees
      <3>4. upd.n \notin staging
        BY <3>1 DEF Accounting, Before, PublicationInv, StagingCleaned
      <3>5. QED
        BY <3>1, <3>2, <3>3, <3>4
    <2>2. CASE ExecuteFault /\ upc = "u_publishing"
      <3>1. /\ tx[upd.n].state = "prepared" /\ upd.n = clock + 1 /\ upd.n \in Ops
            /\ UNCHANGED <<slot, staging, upd>>
        BY <2>2
           DEF ExecuteFault, Accounting, Before, UInv, StateFollowsStep, Numbers, Control,
               ExecuteSteps, vars
      <3>2. upd.n \notin staging
        BY <1>1, <3>1 DEF Accounting, Before, TreesTaken, PlaceTypes
      <3>3. QED
        BY <1>2, <3>1, <3>2
    <2>3. CASE upc = "u_drop" /\ UNCHANGED allvars
      BY <1>1, <2>3 DEF allvars, vars, uvars
    <2>4. QED
      BY <2>1, <2>2, <2>3, ComesToForget, AccountsOpen
  <1>6. QED
    BY <1>3, <1>4, <1>5 DEF Sound

\* FoundSound is kept.
LEMMA FoundSoundNext ==
    ASSUME Accounting, [UNext]_allvars
    PROVE  FoundSound'
  <1> USE DEF FoundSound, Sound
  <1>1. FoundSound /\ done \subseteq done'
    BY AccountsOpen DEF Accounting, Accounted
  <1>2. upc = "ready" => Sound(slot)
    BY DEF Accounting, Accounted, SlotAccounted, InFlight, Before, UInv, StateFollowsStep,
           NoJournal
  <1>3. CASE UpdateStart
    BY <1>1, <1>2, <1>3 DEF UpdateStart, Step
  <1>4. CASE Execute
    BY <1>1, <1>4
       DEF Execute, SaveSchema, BeginTransaction, MarkPublishing, CallPublish, MarkPublished,
           PublishRaised, DropTransaction, SaveUnits, MarkSchema, MarkCommitted,
           RemoveTransaction, ExecuteFault, Step, Conclude
  <1>5. CASE UndoTransaction
    BY <1>5
       DEF UndoTransaction, RestoreSchema, CallRollback, RollbackReturned, NothingToRollBack,
           RemoveSkill, ForeignSkill, FinishRollback, UndoTxFault, BlockTransaction, Refuse,
           Step, Conclude
  <1>6. CASE ResumePending
    BY <1>6
       DEF ResumePending, ResumeTransaction, ResumeStart, ResumeDrop, ResumeCommit,
           ResumeRollback, ResumeRefuse, Resume, CommitRecovered, RemoveRecovered,
           ResumeFault, ResumeDone, Refuse, Step
  <1>7. CASE PublisherStep \/ RollbackReported \/ UpdateDecline \/ RollbackCommand
               \/ UNCHANGED allvars
    BY <1>1, <1>7
       DEF PublisherStep, RollbackReported, UpdateDecline, RollbackCommand, Step, Conclude,
           allvars, uvars
  <1>8. CASE UpdateProcessStart \/ UpdateCrash \/ UpdateExit \/ EditIndex
    BY <1>1, <1>8 DEF UpdateProcessStart, UpdateCrash, UpdateExit, EditIndex, uvars
  <1>9. QED
    BY <1>3, <1>4, <1>5, <1>6, <1>7, <1>8 DEF UNext, UpdateProgress, Commands, Accounting

\* SnapshotSound is kept.
LEMMA SnapshotSoundNext ==
    ASSUME Accounting, [UNext]_allvars
    PROVE  SnapshotSound'
  <1>1. /\ SnapshotSound /\ PlaceTypes /\ done \subseteq done'
        /\ \A m, n \in Ops : tx[m].state # "none" /\ tx[n].state # "none" => m = n
    BY AccountsOpen DEF Accounting, Accounted
  <1>2. ASSUME NEW n \in Ops, tx'[n].state \in {"none", "prepared", "publishing"}
        PROVE  ~tx'[n].snapshot
    <2>1. CASE tx'[n].state = tx[n].state /\ tx'[n].snapshot = tx[n].snapshot
      BY <1>1, <1>2, <2>1 DEF SnapshotSound
    <2>2. CASE JournalWritten(n)
      <3>1. CASE tx'[n].snapshot = tx[n].snapshot /\ n = upd.n
                   /\ (upc \in {"u_begin", "u_drop"} \/ MarkPublishing)
        <4>1. tx[n].state \in {"none", "prepared", "publishing"}
          BY <3>1
             DEF Accounting, Before, UInv, StateFollowsStep, NoJournal, MarkPublishing, Step
        <4>2. QED
          BY <1>1, <3>1, <4>1 DEF SnapshotSound
      <3>2. QED
        BY <1>2, <2>2, <3>1 DEF JournalWritten, DropTransaction, Conclude
    <2>3. QED
      BY <2>1, <2>2, JournalsWritten DEF Accounting, Before
  <1>3. ASSUME NEW n \in Ops, tx'[n].state \in Published \cup {"publishing"}
        PROVE  \/ tx[n].state \in Published \cup {"publishing"}
               \/ MarkPublishing /\ n = upd.n
    <2>1. MarkPublished /\ n = upd.n => tx[n].state = "publishing"
      BY DEF MarkPublished, Step, Accounting, Before, UInv, StateFollowsStep
    <2>2. MarkSchema /\ n = upd.n => tx[n].state = "skill_published"
      BY DEF MarkSchema, Step, Accounting, Before, UInv, StateFollowsStep
    <2>3. QED
      BY <1>3, <2>1, <2>2, JournalsWritten DEF Accounting, Before, JournalWritten, Published
  <1>4. ASSUME NEW n \in Ops, tx[n].state \in Published \cup {"publishing"}
        PROVE  snap'[n] \in done' \cup {NoTree}
    <2>1. Sound(snap[n])
      BY <1>1, <1>4 DEF SnapshotSound
    <2>2. CASE PublisherStep /\ upc = "u_wait"
      <3>1. Sound(upd.before) /\ pc # "putback"
        BY <2>2, AccountsOpen
           DEF Accounting, Accounted, FoundSound, Before, PublicationInv, FailureCosts
      <3>2. snap'[n] \in {snap[n], upd.before, NoTree}
        BY <2>2, <3>1, PublicationMovesTrees DEF Accounting, PublicationMoves
      <3>3. QED
        BY <1>1, <2>1, <3>1, <3>2 DEF Sound
    <2>3. CASE PublisherStep /\ upc = "b_wait"
      <3>1. n = upd.n /\ n # call.id
        BY <1>1, <1>4, <2>3
           DEF Accounting, Accounted, RollbackNumber, Published, Before, UInv, Control,
               UndoTxSteps, PlaceTypes
      <3>2. snap'[n] \in {snap[n], NoTree}
        BY <1>1, <2>3, <3>1, RollbackMovesTrees DEF Accounting, RollbackMoves, PlaceTypes
      <3>3. QED
        BY <1>1, <2>1, <3>2 DEF Sound
    <2>4. upc # "m_wait"
      BY <1>4 DEF Published, Accounting, Before, UInv, StateFollowsStep, NoJournal
    <2>5. CASE PublisherStep /\ upc = "start"
      BY <1>1, <2>1, <2>5, RecoveryMovesTrees DEF Accounting, RecoveryMoves, Sound
    <2>6. CASE ~PublisherStep
      BY <1>1, <2>1, <2>6, TreesStay DEF Accounting, RemoveSkill, Sound
    <2>7. QED
      BY <2>2, <2>3, <2>4, <2>5, <2>6, AccountsOpen
  <1>5. ASSUME MarkPublishing, NEW n \in Ops, n = upd.n PROVE snap'[n] = NoTree
    BY <1>1, <1>5
       DEF MarkPublishing, Step, vars, Accounting, Before, UInv, Numbers, IInv,
           NumbersAreFresh, PlaceTypes
  <1>6. ASSUME upc' # "b_remove", NEW n \in Ops, tx'[n].state \in Published,
               NEW m \in Ops, m > n
        PROVE  snap'[m] = NoTree \/ (upc' = "b_wait" /\ m = call'.id)
    <2>1. CASE MarkPublished /\ n = upd.n
      <3>1. n = clock /\ snap' = snap /\ clock \in Nat /\ m \in Nat
        BY <1>1, <2>1
           DEF MarkPublished, Step, vars, Accounting, Before, UInv, Numbers, PlaceTypes
      <3>2. QED
        BY <1>6, <3>1 DEF Accounting, Before, UInv, IInv, NumbersAreFresh
    <2>2. CASE tx[n].state \in Published
      <3>1. upc # "b_remove" => snap[m] = NoTree \/ (upc = "b_wait" /\ m = call.id)
        BY <1>1, <1>6, <2>2 DEF SnapshotSound
      <3>2. CASE upc = "b_remove"
        <4>1. ~FinishRollback
          <5>1. FinishRollback => tx'[upd.n].state = "none"
            BY JournalRemoved
               DEF FinishRollback, Step, Conclude, Accounting, Before, UInv, UTypeOK, Control,
                   UndoTxSteps
          <5>2. n = upd.n
            BY <1>1, <2>2, <3>2
               DEF Published, Accounting, Before, UInv, Control, StateFollowsStep, UndoTxSteps
          <5>3. QED
            BY <1>6, <5>1, <5>2 DEF Published
        <4>2. ~UpdateCrash
          BY <3>2, AccountsOpen
             DEF UpdateCrash, HasControl, UpdateCrashWindow, Spend, UpdateCosts, Accounting,
                 Before, UInv, Control, Away
        <4>3. ~UndoTxFault
          <5>1. UndoTxFault => <<upc, pc>> = <<"b_remove", "idle">> /\ Spend(UpdateFaultWindow)
            BY <3>2 DEF UndoTxFault, Step, HasControl
          <5>2. <<"b_remove", "idle">> \in UpdateFaultWindow["backed"]
            BY DEF UpdateFaultWindow
          <5>3. QED
            BY <5>1, <5>2 DEF Spend, UpdateCosts, Accounting
        <4>4. QED
          BY <1>6, <3>2, <4>1, <4>2, <4>3, AccountsOpen
             DEF UNext, UpdateProgress, Execute, SaveSchema, BeginTransaction, MarkPublishing,
                 CallPublish, MarkPublished, PublishRaised, DropTransaction, SaveUnits,
                 MarkSchema, MarkCommitted, RemoveTransaction, ExecuteFault, UndoTransaction,
                 RestoreSchema, CallRollback, RollbackReturned, NothingToRollBack,
                 RemoveSkill, ForeignSkill, BlockTransaction, ResumePending,
                 ResumeTransaction, ResumeStart, ResumeDrop, ResumeCommit, ResumeRollback,
                 ResumeRefuse, Resume, CommitRecovered, RemoveRecovered, ResumeFault,
                 ResumeDone, RollbackReported, Commands, Build, UpdateStart, UpdateDecline,
                 RollbackCommand, UpdateProcessStart, UpdateExit, EditIndex, Refuse, Step,
                 Conclude, allvars, uvars
      <3>3. CASE PublisherStep /\ upc = "b_wait"
        <4>1. snap'[m] \in {snap[m], NoTree} \/ m = call.id
          BY <1>1, <3>3, WhoWaits, RollbackMovesTrees, RollbackProceeds
             DEF Accounting, Before, UInv, PublisherStep, RollsBackOn, RollbackMoves,
                 PlaceTypes
        <4>2. upc' = "b_wait" /\ call'.id = call.id
          BY <3>3, WhoWaits, RollbackProceeds
             DEF Accounting, Before, UInv, PublisherStep, RollsBackOn
        <4>3. QED
          BY <3>1, <3>3, <4>1, <4>2
      <3>4. CASE PublisherStep /\ upc = "start"
        BY <3>1, <3>4, RecoveryMovesTrees DEF Accounting, RecoveryMoves
      <3>5. upc \notin {"u_wait", "m_wait"}
        BY <1>1, <2>2
           DEF Published, Accounting, Before, UInv, Control, StateFollowsStep, NoJournal,
               ExecuteSteps
      <3>6. CASE ~PublisherStep /\ upc # "b_remove"
        <4>1. snap' = snap
          BY <3>6, TreesStay DEF Accounting, RemoveSkill
        <4>2. CASE upc = "b_wait" /\ upc' # "b_wait"
          <5>1. snap[call.id] = NoTree
            BY <1>6, <4>2, WithdrawalLeft
          <5>2. QED
            BY <3>1, <4>1, <4>2, <5>1
        <4>3. CASE upc = "b_wait" /\ upc' = "b_wait"
          BY <3>1, <3>6, <4>1, <4>3, CallsGoOn DEF allvars, vars
        <4>4. QED
          BY <3>1, <3>6, <4>1, <4>2, <4>3
      <3>7. QED
        BY <3>2, <3>3, <3>4, <3>5, <3>6, AccountsOpen
    <2>3. tx[n].state \in Published \/ (MarkPublished /\ n = upd.n)
      <3>1. MarkSchema /\ n = upd.n => tx[n].state = "skill_published"
        BY DEF MarkSchema, Step, Accounting, Before, UInv, StateFollowsStep
      <3>2. QED
        BY <1>6, <3>1, JournalsWritten DEF Accounting, Before, JournalWritten, Published
    <2>4. QED
      BY <2>1, <2>2, <2>3
  <1>7. QED
    BY <1>2, <1>3, <1>4, <1>5, <1>6 DEF SnapshotSound, Sound

\* RecoverySound is kept.
LEMMA RecoverySoundNext ==
    ASSUME Accounting, SnapshotSound', JournalsSettled', UInv', [UNext]_allvars
    PROVE  RecoverySound'
  <1> SUFFICES ASSUME NEW m \in Ops
               PROVE  /\ journal'[m] \in {"named", "snapshotted", "swapped"} =>
                             snap'[m] \in done' \cup {NoTree}
                      /\ journal'[m] \in {"named", "snapshotted"} /\ snap'[m] # NoTree
                           /\ m \in staging' => tx'[m].state = "publishing"
    BY DEF RecoverySound, Sound
  <1>1. /\ journal[m] \in {"named", "snapshotted", "swapped"} => snap[m] \in done' \cup {NoTree}
        /\ journal[m] \in {"named", "snapshotted"} /\ snap[m] # NoTree /\ m \in staging =>
               tx[m].state = "publishing"
    BY AccountsOpen DEF Accounting, Accounted, RecoverySound
  <1>2. CASE upc' \notin {"down", "start", "u_wait", "u_drop", "done"}
    BY <1>2 DEF JournalsSettled, SettledBut
  <1>3. CASE upc' = "u_wait"
    <2>1. journal'[m] # "none" => m = upd'.n
      BY <1>3 DEF JournalsSettled, SettledBut
    <2>2. tx'[upd'.n].state = "publishing"
      BY <1>3 DEF UInv, StateFollowsStep
    <2>3. m = upd'.n => snap'[m] \in done' \cup {NoTree}
      BY <2>2 DEF SnapshotSound, Sound
    <2>4. QED
      BY <2>1, <2>2, <2>3
  <1>4. CASE PublisherStep /\ upc' \in {"down", "start", "u_drop", "done"}
    <2>1. upc = "start" /\ tx' = tx
      BY <1>4, WhoWaits, RollbackProceeds, PublicationProceeds
         DEF Accounting, Before, UInv, PublisherStep, RollsBackOn, PublishesOn
    <2>2. RecoveryMoves
      BY <1>4, <2>1, RecoveryMovesTrees DEF Accounting
    <2>3. QED
      BY <1>1, <2>1, <2>2 DEF RecoveryMoves
  <1>5. CASE ~PublisherStep /\ upc' \in {"down", "start", "u_drop", "done"}
    <2>1. UNCHANGED <<snap, staging, journal>>
      BY <1>5, TreesStay DEF Accounting, RemoveSkill, Step
    <2>2. CASE tx'[m].state = tx[m].state
      BY <1>1, <2>1, <2>2
    <2>3. CASE JournalWritten(m)
      <3>1. upc \notin {"down", "start", "done"} /\ ~MarkPublished /\ upc # "u_wait"
        BY <1>5, <2>3
           DEF JournalWritten, MarkPublishing, MarkPublished, MarkSchema, RemoveTransaction,
               RemoveRecovered, FinishRollback, DropTransaction, BlockTransaction, Refuse,
               Step, Conclude
      <3>2. upc = "u_drop" => m \notin staging
        BY <2>3 DEF JournalWritten, Accounting, Accounted, DroppedElsewhere
      <3>3. upc # "u_drop" => journal[m] = "none"
        BY <3>1 DEF Accounting, Before, JournalsSettled, SettledBut
      <3>4. QED
        BY <1>1, <2>1, <3>2, <3>3
    <2>4. QED
      BY <2>2, <2>3, JournalsWritten DEF Accounting, Before
  <1>6. QED
    BY <1>2, <1>3, <1>4, <1>5

\* Every step keeps what is said of the records of the Skill.
LEMMA BackedInvNext ==
    ASSUME Before, JournalsSettled', UInv', BackedInv, [UNext]_allvars
    PROVE  BackedInv'
  <1> SUFFICES ASSUME "backed" \notin cost' PROVE Accounted'
    BY DEF BackedInv
  <1>1. Accounted
    BY CostGrows DEF BackedInv
  <1>2. CASE ~Build
    <2>1. Accounting
      BY <1>1, <1>2 DEF Accounting
    <2>2. SlotAccounted' /\ SnapshotsAccounted' /\ RollbackNumber'
      BY <2>1, SlotAccountedNext, SnapshotsAccountedNext, RollbackNumberNext
    <2>3. WithdrawingFollows' /\ ManualSound' /\ DroppedElsewhere'
      BY <2>1, WithdrawingFollowsNext, ManualSoundNext, DroppedElsewhereNext
    <2>4. FoundSound' /\ SnapshotSound'
      BY <2>1, FoundSoundNext, SnapshotSoundNext
    <2>5. RecoverySound'
      BY <2>1, <2>4, RecoverySoundNext
    <2>6. QED
      BY <2>2, <2>3, <2>4, <2>5 DEF Accounted
  <1>3. CASE Build
    <2>1. /\ upc = "ready" /\ upc' = "ready" /\ slot' = 1 /\ done' = {1} /\ clock = 0
          /\ snap' = snap /\ tx' = tx /\ journal' = journal /\ cost' = cost
      BY <1>3 DEF Build, Step, records
    <2>2. \A n \in Ops : snap[n] = NoTree
      BY <2>1, PlacesTyped DEF Before, UInv, TreesTaken, PlaceTypes
    <2>3. \A n \in Ops : tx[n].state = "none" /\ journal[n] = "none"
      BY <2>1 DEF Before, UInv, StateFollowsStep, NoJournal, JournalsSettled, SettledBut
    <2>4. SlotAccounted' /\ SnapshotsAccounted'
      BY <2>1, <2>2 DEF SlotAccounted, SnapshotsAccounted, Sound
    <2>5. RollbackNumber' /\ WithdrawingFollows' /\ ManualSound' /\ DroppedElsewhere' /\ FoundSound'
      BY <2>1
         DEF RollbackNumber, WithdrawingFollows, ManualSound, DroppedElsewhere, FoundSound
    <2>6. SnapshotSound' /\ RecoverySound'
      BY <1>1, <2>1, <2>2, <2>3
         DEF Accounted, SnapshotSound, RecoverySound, Published, Sound
    <2>7. QED
      BY <2>4, <2>5, <2>6 DEF Accounted
  <1>4. QED
    BY <1>2, <1>3

\* The inductive invariant: UInv, where the trees are, and what is said of the Skill.
SkillInv == Before /\ StaysInv /\ BackedInv

\* It holds before the first command.
LEMMA SkillInvInit ==
    ASSUME UInit
    PROVE  TreesTaken /\ FoundIsOlder /\ JournalsSettled /\ PublicationInv
             /\ PublishedInPlace /\ NothingYet /\ StaysInv /\ BackedInv
  <1>1. /\ upc = "down" /\ pc = "down" /\ slot = NoTree /\ staging = {} /\ done = {}
        /\ clock = 0 /\ call = NoCall /\ cost = {} /\ NoTree = 0
        /\ \A n \in Ops : /\ snap[n] = NoTree /\ journal[n] = "none"
                          /\ tx[n].state = "none" /\ ~tx[n].snapshot
    BY DEF UInit, Init, NoTx, NoTree
  <1>2. TreesTaken /\ FoundIsOlder /\ JournalsSettled
    BY <1>1
       DEF TreesTaken, FoundIsOlder, JournalsSettled, SettledBut, NoCall, RecoverySteps,
           ExecuteSteps, UndoTxSteps
  <1>3. PublicationInv /\ PublishedInPlace /\ NothingYet /\ StaysInv
    BY <1>1
       DEF PublicationInv, WithdrawalFollows, ReportFollows, FailureCosts, StagingCleaned,
           PublishedInPlace, NothingYet, NoJournal, ExecuteSteps, UndoTxSteps, StaysInv, Firm
  <1>4. BackedInv
    BY <1>1
       DEF BackedInv, Accounted, SlotAccounted, SnapshotsAccounted, RollbackNumber,
           WithdrawingFollows, ManualSound, DroppedElsewhere, FoundSound, SnapshotSound,
           RecoverySound, Published, Sound
  <1>5. QED
    BY <1>2, <1>3, <1>4

\* Every reachable state satisfies it, whatever a crash, an exception, a refused start or
\* a rollback by hand came between (publisher.py, update.py:336-518, 572-742).
THEOREM SkillInvariant == USpec => []SkillInv
  <1>1. UInit /\ UInv => SkillInv
    BY SkillInvInit DEF SkillInv, Before
  <1>2. SkillInv /\ UInv' /\ [UNext]_allvars => SkillInv'
    <2> SUFFICES ASSUME SkillInv, UInv', [UNext]_allvars PROVE SkillInv'
      OBVIOUS
    <2>1. TreesTaken' /\ FoundIsOlder' /\ JournalsSettled'
      BY TreesTakenNext, FoundIsOlderNext, JournalsSettledNext DEF SkillInv, Before
    <2>2. PublicationInv'
      BY PublicationInvNext DEF SkillInv, Before
    <2>3. PublishedInPlace' /\ NothingYet'
      BY PublishedInPlaceNext, NothingYetNext DEF SkillInv, Before, PublicationInv
    <2>4. StaysInv' /\ BackedInv'
      BY <2>1, StaysInvNext, BackedInvNext DEF SkillInv
    <2>5. QED
      BY <2>1, <2>2, <2>3, <2>4 DEF SkillInv, Before
  <1>3. QED
    BY <1>1, <1>2, UpdateInvariant, PTL DEF USpec

\* A Skill that was built is in place whenever a command may begin, across updates,
\* compensations, recoveries and rollbacks, but for a failure in its window
\* (publisher.py, update.py:336-518, 572-742).
THEOREM SkillAlwaysStays == USpec => []SkillStays
  <1>1. SkillInv => SkillStays
    <2> SUFFICES ASSUME SkillInv, upc = "ready", done # {}, "stays" \notin cost
                 PROVE  slot # NoTree
      BY DEF SkillStays, Accepting
    <2>1. EmptyHeld
      BY DEF SkillInv, StaysInv, Firm, Stays
    <2>2. \A n \in Ops : tx[n].state = "none"
      BY DEF SkillInv, Before, UInv, StateFollowsStep, NoJournal
    <2>3. QED
      BY <2>1, <2>2 DEF EmptyHeld, Published
  <1>2. QED
    BY <1>1, SkillInvariant, PTL

\* Whenever a command may begin, the records of the Skill in its slot are in the Schema,
\* but for a failure in its window or a rollback to a withdrawn tree
\* (publisher.py, update.py:336-518, 572-742).
THEOREM SkillAlwaysBacked == USpec => []SkillBacked
  <1>1. SkillInv => SkillBacked
    <2> SUFFICES ASSUME SkillInv, upc = "ready", slot # NoTree, "backed" \notin cost
                 PROVE  slot \in schema
      BY DEF SkillBacked, Accepting
    <2>1. SlotAccounted
      BY DEF SkillInv, BackedInv, Accounted
    <2>2. (\A n \in Ops : tx[n].state = "none") /\ schema = done
      BY DEF SkillInv, Before, UInv, StateFollowsStep, SchemaFollowsJournal, NoJournal
    <2>3. QED
      BY <2>1, <2>2 DEF SlotAccounted, InFlight, Sound
  <1>2. QED
    BY <1>1, SkillInvariant, PTL
=============================================================================
