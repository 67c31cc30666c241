--------------------------- MODULE ExtensionManager ---------------------------
(***************************************************************************)
(* ExtensionManager of extensions/installer.py over the ExtensionRegistry  *)
(* of extensions/registry.py, for one extension: install, upgrade,         *)
(* rollback and uninstall, their durable journals and payload backups, the *)
(* registry lock, and what the constructors do after a crash.              *)
(*                                                                         *)
(* One process at a time uses the registry, as commands typed one after    *)
(* the other do.  A process that dies in a locked section leaves its lock  *)
(* file, which others respect until it is a minute old.  The process may   *)
(* die at any step and the effect of any step may raise, leaving a         *)
(* directory tree partly copied or partly deleted.                         *)
(*                                                                         *)
(* An operation takes a fresh number, which names its journal and the      *)
(* content of the package it installs.                                     *)
(***************************************************************************)
EXTENDS Naturals, Sequences

CONSTANTS
    MaxVersion,    \* versions of the extension are 1..MaxVersion
    MaxTx,         \* bound on the number of operations
    MaxFailures    \* bound on the number of crashes and exceptions

ASSUME BoundsAssumption == MaxVersion \in Nat /\ MaxTx \in Nat /\ MaxFailures \in Nat

VARIABLES
    payload,       \* payload[v]: content of versions/<id>/<v>
    rec,           \* the extension's record in registry.json
    backup,        \* backup[t]: content of .transactions/extensions/<t>/backup
    journal,       \* .transactions/extensions/<t>.json
    lock,          \* .registry.lock: free, held, or left by a dead process
    mem,           \* the process's copy of the record
    loaded,        \* version whose contributions the process has committed
    pc,            \* next step
    cur,           \* locals of the operation or of the recovery in progress
    outcome,       \* what the last operation or constructor reported
    clock,         \* operations begun so far
    failures,      \* crashes and exceptions so far
    \* History variables.
    promised,      \* the record the last operation that succeeded left
    since,         \* and the number of that operation
    cost           \* guarantees that failures so far may have cost

disk    == <<payload, rec, backup, journal, lock>>
history == <<promised, since, cost>>
vars    == <<payload, rec, backup, journal, lock, mem, loaded, pc, cur, outcome,
             clock, failures, promised, since, cost>>

Versions == 1..MaxVersion
Txs      == 1..MaxTx
None     == 0
Partial  == MaxTx + 1
Contents == 0..(MaxTx + 1)

\* InstallRecord: versions, active version and payload hash inventory.
Records == [versions : SUBSET Versions, active : 0..MaxVersion,
            hashes : [Versions -> Contents]]
NoRec   == [versions |-> {}, active |-> None, hashes |-> [v \in Versions |-> None]]

States  == {"none", "prepared", "staged", "validated", "activation_started",
            "active_switched", "activated", "committed", "rollback_required",
            "rolled_back"}
OpKinds == {"none", "install", "upgrade", "rollback"}
Journals  == [state : States, op : OpKinds, version : 0..MaxVersion,
              prev : Records, backed : BOOLEAN]
NoJournal == [state |-> "none", op |-> "none", version |-> None, prev |-> NoRec,
              backed |-> FALSE]

\* The steps of _install_transaction and of rollback(), in the order they run; a
\* step with the name of a state writes the journal.
InstallOrder  == <<"staged", "validated", "lock", "backup", "name",
                   "activation_started", "remove", "copy", "record", "active",
                   "active_switched", "activate", "activated", "committed",
                   "unlock", "clean", "unlink">>
RollbackOrder == <<"lock", "validated", "activation_started", "active",
                   "active_switched", "activate", "activated", "committed",
                   "unlock", "clean", "unlink">>
UndoOrder     == <<"undo_lock", "undo_remove", "undo_copy", "undo_record",
                   "undo_mark", "undo_unlock", "undo_clean">>

StepsOf(order) == {order[i] : i \in DOMAIN order}

After(order, step) == order[1 + CHOOSE i \in DOMAIN order : order[i] = step]

OpSteps     == StepsOf(InstallOrder)
UndoSteps   == StepsOf(UndoOrder)
StartSteps  == {"load", "repair", "recover", "finish_clean", "finish_unlink",
                "settle_clean", "remark", "activate_all"}
RemoveSteps == {"un_lock", "un_remove", "un_save"}
Steps == {"down", "ready", "fail", "give_up"} \cup OpSteps \cup UndoSteps
           \cup StartSteps \cup RemoveSteps

Outcomes == {"none", "installed", "upgraded", "rolled back", "removed", "failed",
             "crashed", "refused", "error"}

Locals == [tx : 0..MaxTx, recovering : BOOLEAN, backed : BOOLEAN, todo : SUBSET Txs]
NoCur  == [tx |-> 0, recovering |-> FALSE, backed |-> FALSE, todo |-> {}]

Tx      == journal[cur.tx]
Version == Tx.version
Order   == IF Tx.op = "rollback" THEN RollbackOrder ELSE InstallOrder

Goto(step) == pc' = step /\ UNCHANGED outcome

Report(result) == pc' = "ready" /\ outcome' = result

\* _write_transaction writes the whole journal.
WriteState(state) ==
    journal' = [journal EXCEPT ![cur.tx].state = state, ![cur.tx].backed = cur.backed]

Verifies(r, v) ==
    /\ v \in r.versions
    /\ payload[v] \notin {None, Partial}
    /\ payload[v] = r.hashes[v]

\* What the step's assignments make of the copy in memory.
MemNow ==
    CASE pc = "remove" -> [mem EXCEPT !.versions = @ \cup {Version},
                                      !.active = IF mem = NoRec THEN Version ELSE @]
      [] pc = "record" -> [mem EXCEPT !.hashes[Version] = payload[Version]]
      [] pc = "active" -> [mem EXCEPT !.active = Version]
      [] pc = "undo_record" -> Tx.prev
      [] pc = "un_remove" -> NoRec
      [] OTHER -> mem

HasBackup == cur.backed /\ backup[cur.tx] # None

UndoRemovesAlways == TRUE

\* Whether the undo takes the target payload away.
UndoRemoves ==
    HasBackup \/ Tx.prev = NoRec \/ Version \notin Tx.prev.versions

CanFail == failures < MaxFailures /\ failures' = failures + 1

Costs == {"kept", "loaded"}

\* A journal that awaits recovery.
Pending(t) == journal[t].state \notin {"none", "rolled_back"}

\* What an exception may cost: contributions stay loaded once activated; a
\* clean-up that raises has a finished operation undone, from what is left of its
\* backup; uninstall has no journal.
FaultCosts ==
    CASE pc \in {"activated", "committed"} -> {"loaded"}
      [] pc \in {"clean", "unlink"} -> {"loaded", "kept"}
      [] pc \in {"undo_clean", "finish_clean", "settle_clean", "finish_unlink",
                 "un_remove", "un_save"} -> {"kept"}
      [] OTHER -> {}

\* What a crash may cost.
CrashCosts == IF pc \in {"un_remove", "un_save"} THEN {"kept"} ELSE {}

\* What an operation begun while a journal waits for recovery may cost: the record
\* it goes by may be stale, and the recovery will put an older one back.
BeginCosts == IF \E t \in Txs : Pending(t) THEN {"kept"} ELSE {}

\* What an undo may cost: the journal of rollback() has no record to put back.
UndoCosts == IF Tx.op = "rollback" THEN {"kept"} ELSE {}

Spend(costs) == cost' = cost \cup costs
-----------------------------------------------------------------------------
(* Changed forms of the code, for the mutants of PROJECT.json.               *)

\* The active payload is imported without being verified.
ActivateAllTrusting ==
    /\ pc = "recover"
    /\ cur.todo = {}
    /\ cur' = NoCur
    /\ Report("none")
    /\ loaded' = IF mem = NoRec THEN loaded ELSE mem.active
    /\ UNCHANGED <<disk, mem, clock, failures, history>>

\* The new version's contributions are not committed.
ActivateSkipped ==
    /\ pc = "activate"
    /\ Goto(After(Order, pc))
    /\ UNCHANGED <<disk, mem, loaded, cur, clock, failures, history>>

\* A journal that was rolled back stays among those to recover.
RecoverNextAgain ==
    /\ pc = "recover"
    /\ \E t \in cur.todo :
          /\ cur' = [tx |-> t, recovering |-> TRUE, backed |-> journal[t].backed,
                     todo |-> IF journal[t].state = "rolled_back" THEN cur.todo
                                                                 ELSE cur.todo \ {t}]
          /\ Goto(CASE journal[t].state \in {"committed", "activated"} -> "finish_clean"
                    [] journal[t].state = "rolled_back" -> "settle_clean"
                    [] OTHER -> "undo_lock")
    /\ UNCHANGED <<disk, mem, loaded, clock, failures, history>>
-----------------------------------------------------------------------------
Init ==
    /\ payload = [v \in Versions |-> None]
    /\ rec = NoRec
    /\ backup = [t \in Txs |-> None]
    /\ journal = [t \in Txs |-> NoJournal]
    /\ lock = "free"
    /\ mem = NoRec
    /\ loaded = None
    /\ pc = "down"
    /\ cur = NoCur
    /\ outcome = "none"
    /\ clock = 0
    /\ failures = 0
    /\ promised = NoRec
    /\ since = 0
    /\ cost = {}

-----------------------------------------------------------------------------
(* The constructors: load and repair the registry, recover the journals,     *)
(* activate what is active.                                                  *)

Start ==
    /\ pc = "down"
    /\ pc' = "load"
    /\ cur' = [NoCur EXCEPT !.todo = {t \in Txs : journal[t].state # "none"}]
    /\ outcome' = "none"
    /\ UNCHANGED <<disk, mem, loaded, clock, failures, history>>

\* Versions without a payload are dropped; the greatest string of those left
\* becomes active, any of them here.
Load ==
    /\ pc = "load"
    /\ LET available == {v \in rec.versions : payload[v] # None}
       IN  IF available = {} THEN mem' = NoRec
           ELSE IF rec.active \in available
                THEN mem' = [rec EXCEPT !.versions = available]
                ELSE \E v \in available :
                         mem' = [rec EXCEPT !.versions = available, !.active = v]
    /\ Goto(IF mem' = rec THEN "recover" ELSE "repair")
    /\ UNCHANGED <<disk, loaded, cur, clock, failures, history>>

SaveRepair ==
    /\ pc = "repair"
    /\ rec' = mem
    /\ Goto("recover")
    /\ UNCHANGED <<payload, backup, journal, lock, mem, loaded, cur, clock, failures, history>>

\* The next journal: finish what was committed or activated, clean up what was
\* rolled back, undo the rest.
RecoverNext ==
    /\ pc = "recover"
    /\ \E t \in cur.todo :
          /\ cur' = [tx |-> t, recovering |-> TRUE, backed |-> journal[t].backed,
                     todo |-> cur.todo \ {t}]
          /\ Goto(CASE journal[t].state \in {"committed", "activated"} -> "finish_clean"
                    [] journal[t].state = "rolled_back" -> "settle_clean"
                    [] OTHER -> "undo_lock")
    /\ UNCHANGED <<disk, mem, loaded, clock, failures, history>>

FinishClean ==
    /\ pc \in {"finish_clean", "settle_clean"}
    /\ backup' = [backup EXCEPT ![cur.tx] = IF cur.backed THEN None ELSE @]
    /\ Goto(IF pc = "finish_clean" THEN "finish_unlink" ELSE "recover")
    /\ UNCHANGED <<payload, rec, journal, lock, mem, loaded, cur, clock, failures, history>>

FinishUnlink ==
    /\ pc = "finish_unlink"
    /\ journal' = [journal EXCEPT ![cur.tx] = NoJournal]
    /\ promised' = IF cur.tx > since THEN rec ELSE promised
    /\ since' = IF cur.tx > since THEN cur.tx ELSE since
    /\ Goto("recover")
    /\ UNCHANGED <<payload, rec, backup, lock, mem, loaded, cur, clock, failures, cost>>

\* A journal whose recovery raised is kept for the next start; best effort.
Remark ==
    /\ pc = "remark"
    /\ \/ WriteState("rollback_required") /\ UNCHANGED failures
       \/ UNCHANGED journal /\ CanFail
    /\ Goto("recover")
    /\ UNCHANGED <<payload, rec, backup, lock, mem, loaded, cur, clock, history>>

RecoverFault ==
    /\ CanFail
    /\ cur.recovering
    /\ pc \in {"finish_clean", "settle_clean", "finish_unlink"}
    /\ \/ UNCHANGED backup
       \/ /\ pc # "finish_unlink"
          /\ HasBackup
          /\ backup' = [backup EXCEPT ![cur.tx] = Partial]
    /\ Goto("remark")
    /\ Spend(FaultCosts)
    /\ UNCHANGED <<payload, rec, journal, lock, mem, loaded, cur, clock, promised, since>>

\* Every active payload is verified, then imported.
ActivateAll ==
    /\ pc = "recover"
    /\ cur.todo = {}
    /\ cur' = NoCur
    /\ \/ /\ mem = NoRec
          /\ Report("none")
          /\ UNCHANGED loaded
       \/ /\ mem # NoRec
          /\ Verifies(mem, mem.active)
          /\ loaded' = mem.active
          /\ Report("none")
       \/ /\ mem # NoRec
          /\ pc' = "down"
          /\ outcome' = IF Verifies(mem, mem.active) THEN "error" ELSE "refused"
          /\ UNCHANGED loaded
    /\ UNCHANGED <<disk, mem, clock, failures, history>>

-----------------------------------------------------------------------------
(* Operations. *)

Begin(op, v, prev, step) ==
    /\ pc = "ready"
    /\ clock < MaxTx
    /\ clock' = clock + 1
    /\ journal' = [journal EXCEPT ![clock + 1] =
                      [state |-> "prepared", op |-> op, version |-> v,
                       prev |-> prev, backed |-> FALSE]]
    /\ cur' = [NoCur EXCEPT !.tx = clock + 1]
    /\ pc' = step
    /\ outcome' = "none"
    /\ Spend(BeginCosts)
    /\ UNCHANGED <<payload, rec, backup, lock, mem, loaded, failures, promised, since>>

Install == mem = NoRec /\ \E v \in Versions : Begin("install", v, NoRec, "staged")

\* With force, also the version that is active.
Upgrade == mem # NoRec /\ \E v \in Versions : Begin("upgrade", v, mem, "staged")

\* The newest version but the active one; its journal carries no previous record.
Rollback ==
    \E v \in mem.versions \ {mem.active} :
        /\ \A w \in mem.versions \ {mem.active} : w <= v
        /\ Verifies(mem, v)
        /\ Begin("rollback", v, NoRec, "lock")

\* A write of the journal.
Mark ==
    /\ pc \in OpSteps \cap States
    /\ WriteState(pc)
    /\ Goto(After(Order, pc))
    /\ UNCHANGED <<payload, rec, backup, lock, mem, loaded, cur, clock, failures, history>>

\* A lock file older than a minute is removed; the records are read again.
Lock ==
    /\ pc \in {"lock", "undo_lock", "un_lock"}
    /\ lock \in {"free", "stale"}
    /\ lock' = "held"
    /\ mem' = rec
    /\ Goto(CASE pc = "lock" -> After(Order, pc)
              [] pc = "undo_lock" -> After(UndoOrder, pc)
              [] OTHER -> "un_remove")
    /\ UNCHANGED <<payload, rec, backup, journal, loaded, cur, clock, failures, history>>

\* "timed out waiting for extension registry lock", after ten seconds.
LockTimeout ==
    /\ lock = "fresh"
    /\ \/ pc = "lock" /\ Goto("fail")
       \/ pc = "undo_lock" /\ Goto(IF cur.recovering THEN "remark" ELSE "give_up")
       \/ pc = "un_lock" /\ Report("failed")
    /\ UNCHANGED <<disk, mem, loaded, cur, clock, failures, history>>

\* A payload about to be replaced is copied aside.
Backup ==
    /\ pc = "backup"
    /\ \/ /\ payload[Version] = None
          /\ Goto("activation_started")
          /\ UNCHANGED <<backup, cur>>
       \/ /\ payload[Version] # None
          /\ backup' = [backup EXCEPT ![cur.tx] = payload[Version]]
          /\ cur' = [cur EXCEPT !.backed = TRUE]
          /\ Goto("name")
    /\ UNCHANGED <<payload, rec, journal, lock, mem, loaded, clock, failures, history>>

NameBackup ==
    /\ pc = "name"
    /\ WriteState(Tx.state)
    /\ Goto(After(Order, pc))
    /\ UNCHANGED <<payload, rec, backup, lock, mem, loaded, cur, clock, failures, history>>

\* _add_version_unlocked: the target directory is replaced by the package.
RemoveTarget ==
    /\ pc = "remove"
    /\ mem' = MemNow
    /\ payload' = [payload EXCEPT ![Version] = None]
    /\ Goto(After(Order, pc))
    /\ UNCHANGED <<rec, backup, journal, lock, loaded, cur, clock, failures, history>>

CopyTarget ==
    /\ pc = "copy"
    /\ payload' = [payload EXCEPT ![Version] = cur.tx]
    /\ Goto(After(Order, pc))
    /\ UNCHANGED <<rec, backup, journal, lock, mem, loaded, cur, clock, failures, history>>

\* The registry is saved with the new version, and then with it active.
SaveRecord ==
    /\ pc \in {"record", "active"}
    /\ pc = "active" => Version \in mem.versions
    /\ mem' = MemNow
    /\ rec' = mem'
    /\ Goto(After(Order, pc))
    /\ UNCHANGED <<payload, backup, journal, lock, loaded, cur, clock, failures, history>>

\* "unknown version": what rollback() chose is not in the records read since.
UnknownVersion ==
    /\ pc = "active"
    /\ Version \notin mem.versions
    /\ lock' = "free"
    /\ Goto("fail")
    /\ UNCHANGED <<payload, rec, backup, journal, mem, loaded, cur, clock, failures, history>>

Activate ==
    /\ pc = "activate"
    /\ loaded' = mem.active
    /\ Goto(After(Order, pc))
    /\ UNCHANGED <<disk, mem, cur, clock, failures, history>>

Unlock ==
    /\ pc = "unlock"
    /\ lock' = "free"
    /\ Goto(After(Order, pc))
    /\ UNCHANGED <<payload, rec, backup, journal, mem, loaded, cur, clock, failures, history>>

Clean ==
    /\ pc = "clean"
    /\ backup' = [backup EXCEPT ![cur.tx] = IF cur.backed THEN None ELSE @]
    /\ Goto(After(Order, pc))
    /\ UNCHANGED <<payload, rec, journal, lock, mem, loaded, cur, clock, failures, history>>

Finish ==
    /\ pc = "unlink"
    /\ journal' = [journal EXCEPT ![cur.tx] = NoJournal]
    /\ Report(CASE Tx.op = "install" -> "installed"
                [] Tx.op = "upgrade" -> "upgraded"
                [] OTHER -> "rolled back")
    /\ promised' = rec
    /\ since' = cur.tx
    /\ cur' = NoCur
    /\ UNCHANGED <<payload, rec, backup, lock, mem, loaded, clock, failures, cost>>

-----------------------------------------------------------------------------
(* A failed operation, and _rollback_unlocked.                             *)

\* A directory tree partly copied or deleted when its step did not end.
Torn ==
    \/ UNCHANGED <<payload, backup>>
    \/ /\ \/ pc \in {"copy", "undo_copy"}
          \/ pc \in {"remove", "undo_remove"} /\ payload[Version] # None
       /\ pc = "undo_remove" => UndoRemoves
       /\ pc = "undo_copy" => HasBackup
       /\ payload' = [payload EXCEPT ![Version] = Partial]
       /\ UNCHANGED backup
    \/ /\ \/ pc = "backup" /\ payload[Version] # None
          \/ pc \in {"clean", "undo_clean", "finish_clean", "settle_clean"} /\ HasBackup
       /\ backup' = [backup EXCEPT ![cur.tx] = Partial]
       /\ UNCHANGED payload
    \/ /\ pc = "un_remove"
       /\ payload' \in {[v \in Versions |-> IF v \in S THEN Partial ELSE None] :
                           S \in SUBSET {v \in Versions : payload[v] # None}}
       /\ UNCHANGED backup

\* The lock is released on the way out; a lock of a dead process times out.
OpFault ==
    /\ CanFail
    /\ pc \in OpSteps \ {"lock", "unlock"}
    /\ Torn
    /\ mem' = MemNow
    /\ lock' = IF lock = "held" THEN "free" ELSE lock
    /\ Goto("fail")
    /\ Spend(FaultCosts)
    /\ UNCHANGED <<rec, journal, loaded, cur, clock, promised, since>>

\* When this write raises too, its exception is the one the caller gets.
Fail ==
    /\ pc = "fail"
    /\ \/ WriteState("rollback_required") /\ Goto("undo_lock") /\ UNCHANGED <<cur, failures>>
       \/ Report("failed") /\ cur' = NoCur /\ UNCHANGED journal /\ CanFail
    /\ UNCHANGED <<payload, rec, backup, lock, mem, loaded, clock, history>>

UndoRemove ==
    /\ pc = "undo_remove"
    /\ payload' = [payload EXCEPT ![Version] = IF UndoRemoves THEN None ELSE @]
    /\ Goto(After(UndoOrder, pc))
    /\ Spend(UndoCosts)
    /\ UNCHANGED <<rec, backup, journal, lock, mem, loaded, cur, clock, failures, promised, since>>

UndoCopy ==
    /\ pc = "undo_copy"
    /\ payload' = [payload EXCEPT ![Version] = IF HasBackup THEN backup[cur.tx] ELSE @]
    /\ Goto(After(UndoOrder, pc))
    /\ UNCHANGED <<rec, backup, journal, lock, mem, loaded, cur, clock, failures, history>>

UndoRecord ==
    /\ pc = "undo_record"
    /\ mem' = MemNow
    /\ rec' = mem'
    /\ Goto(After(UndoOrder, pc))
    /\ UNCHANGED <<payload, backup, journal, lock, loaded, cur, clock, failures, history>>

UndoMark ==
    /\ pc = "undo_mark"
    /\ WriteState("rolled_back")
    /\ Goto(After(UndoOrder, pc))
    /\ UNCHANGED <<payload, rec, backup, lock, mem, loaded, cur, clock, failures, history>>

UndoUnlock ==
    /\ pc = "undo_unlock"
    /\ lock' = "free"
    /\ Goto(IF cur.recovering THEN "recover" ELSE "undo_clean")
    /\ UNCHANGED <<payload, rec, backup, journal, mem, loaded, cur, clock, failures, history>>

UndoClean ==
    /\ pc = "undo_clean"
    /\ backup' = [backup EXCEPT ![cur.tx] = IF cur.backed THEN None ELSE @]
    /\ Report("failed")
    /\ cur' = NoCur
    /\ UNCHANGED <<payload, rec, journal, lock, mem, loaded, clock, failures, history>>

UndoFault ==
    /\ CanFail
    /\ pc \in UndoSteps \ {"undo_lock", "undo_unlock"}
    /\ Torn
    /\ mem' = MemNow
    /\ lock' = IF lock = "held" THEN "free" ELSE lock
    /\ Goto(IF cur.recovering THEN "remark" ELSE "give_up")
    /\ Spend(FaultCosts)
    /\ UNCHANGED <<rec, journal, loaded, cur, clock, promised, since>>

\* The journal is kept for the next start.
GiveUp ==
    /\ pc = "give_up"
    /\ \/ WriteState("rollback_required") /\ UNCHANGED failures
       \/ UNCHANGED journal /\ CanFail
    /\ Report("failed")
    /\ cur' = NoCur
    /\ UNCHANGED <<payload, rec, backup, lock, mem, loaded, clock, history>>

-----------------------------------------------------------------------------
(* uninstall(): no journal. *)

Uninstall ==
    /\ pc = "ready"
    /\ mem # NoRec
    /\ clock < MaxTx
    /\ clock' = clock + 1
    /\ pc' = "un_lock"
    /\ outcome' = "none"
    /\ Spend(BeginCosts)
    /\ UNCHANGED <<disk, mem, loaded, cur, failures, promised, since>>

RemovePayloads ==
    /\ pc = "un_remove"
    /\ mem' = MemNow
    /\ payload' = [v \in Versions |-> None]
    /\ Goto("un_save")
    /\ UNCHANGED <<rec, backup, journal, lock, loaded, cur, clock, failures, history>>

SaveRemoval ==
    /\ pc = "un_save"
    /\ rec' = mem
    /\ lock' = "free"
    /\ Report("removed")
    /\ promised' = NoRec
    /\ since' = clock
    /\ UNCHANGED <<payload, backup, journal, mem, loaded, cur, clock, failures, cost>>

UninstallFault ==
    /\ CanFail
    /\ pc \in {"un_remove", "un_save"}
    /\ Torn
    /\ mem' = MemNow
    /\ lock' = IF lock = "held" THEN "free" ELSE lock
    /\ Report("failed")
    /\ Spend(FaultCosts)
    /\ UNCHANGED <<rec, journal, loaded, cur, clock, promised, since>>

-----------------------------------------------------------------------------
(* The process. *)

Crash ==
    /\ CanFail
    /\ pc \notin {"down", "ready"}
    /\ Torn
    /\ lock' = IF lock = "held" THEN "fresh" ELSE lock
    /\ pc' = "down"
    /\ outcome' = "crashed"
    /\ cur' = NoCur
    /\ mem' = NoRec
    /\ loaded' = None
    /\ Spend(CrashCosts)
    /\ UNCHANGED <<rec, journal, clock, promised, since>>

Exit ==
    /\ pc = "ready"
    /\ pc' = "down"
    /\ mem' = NoRec
    /\ loaded' = None
    /\ UNCHANGED <<disk, cur, outcome, clock, failures, history>>

\* A minute passes.
Age ==
    /\ lock = "fresh"
    /\ lock' = "stale"
    /\ UNCHANGED <<payload, rec, backup, journal, mem, loaded, pc, cur, outcome,
                   clock, failures, history>>

Recover ==
    \/ Load \/ SaveRepair \/ RecoverNext \/ FinishClean \/ FinishUnlink \/ Remark
    \/ RecoverFault \/ ActivateAll

Operate ==
    \/ Mark \/ Lock \/ LockTimeout \/ Backup \/ NameBackup \/ RemoveTarget
    \/ CopyTarget \/ SaveRecord \/ UnknownVersion \/ Activate \/ Unlock \/ Clean
    \/ Finish \/ OpFault

Undo ==
    \/ Fail \/ UndoRemove \/ UndoCopy \/ UndoRecord \/ UndoMark \/ UndoUnlock
    \/ UndoClean \/ UndoFault \/ GiveUp

Remove == RemovePayloads \/ SaveRemoval \/ UninstallFault

Progress == Recover \/ Operate \/ Undo \/ Remove

Commands == Install \/ Upgrade \/ Rollback \/ Uninstall

Next == Progress \/ Commands \/ Start \/ Crash \/ Exit \/ Age

Spec == Init /\ [][Next]_vars

FairSpec == Spec /\ WF_vars(Progress) /\ WF_vars(Start)

-----------------------------------------------------------------------------
TypeOK ==
    /\ payload \in [Versions -> Contents]
    /\ rec \in Records
    /\ backup \in [Txs -> Contents]
    /\ journal \in [Txs -> Journals]
    /\ lock \in {"free", "held", "fresh", "stale"}
    /\ mem \in Records
    /\ loaded \in 0..MaxVersion
    /\ pc \in Steps
    /\ cur \in Locals
    /\ outcome \in Outcomes
    /\ clock \in 0..MaxTx
    /\ failures \in 0..MaxFailures
    /\ promised \in Records
    /\ since \in 0..MaxTx
    /\ cost \subseteq Costs

Quiescent == pc = "ready" /\ \A t \in Txs : ~Pending(t)

\* When no journal waits for recovery, the registry is what the last operation that
\* succeeded left, each version it lists has the payload it hashed, and no other
\* payload is there: crashes and exceptions in install, upgrade and their undo take
\* place in full or not at all (installer.py:317-500).  Excepted are the windows of
\* the *Costs definitions.
RegistryKept ==
    Quiescent /\ "kept" \notin cost =>
        /\ rec = promised
        /\ \A v \in Versions : IF v \in rec.versions THEN Verifies(rec, v)
                                                    ELSE payload[v] = None

\* When no journal waits for recovery, the process runs the version the registry
\* calls active (installer.py:159-180, 308-315), except after an exception that
\* came once the contributions were committed.
LoadedIsActive ==
    Quiescent /\ "loaded" \notin cost /\ rec # NoRec => loaded = rec.active

\* Another operation's journal awaits recovery.
OthersPending == \E t \in Txs \ {cur.tx} : Pending(t)

\* A version comes into effect only with a complete payload that has the hashes of
\* the process's record, as _verify_payload demands, and only when that record is the
\* saved one.  Two things can go wrong only while the journal of an earlier failure
\* awaits recovery: rollback() verifies before it takes the lock, with a record which
\* that failure may have left half changed in memory, and then reads the records again
\* (installer.py:237-270); and a start activates what the process holds although an
\* undo raised (installer.py:467-500).
NothingUnverifiedRuns ==
    [][loaded' \notin {loaded, None} =>
          /\ Verifies(mem, loaded') \/ (pc = "activate" /\ Tx.op = "rollback" /\ OthersPending)
          /\ mem = rec \/ (pc = "recover" /\ \E t \in Txs : Pending(t))]_vars

\* Once crashes stop, the process again and again gets ready, or has refused to
\* start: recovery of the journals does not loop, and no one waits for the lock of
\* a dead process forever (registry.py:130-165, installer.py:467-500).
RecoveryEnds == <>[][~Crash]_vars => []<>(pc = "ready" \/ outcome \in {"refused", "error"})
=============================================================================
