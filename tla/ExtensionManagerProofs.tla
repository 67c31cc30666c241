----------------------- MODULE ExtensionManagerProofs -----------------------
(***************************************************************************)
(* What an installed extension is promised, for every MaxVersion, MaxTx and *)
(* MaxFailures: the registry is what the last operation that succeeded left, *)
(* the process runs the version it calls active, and nothing runs that was *)
(* not verified.                                                           *)
(*                                                                         *)
(* None of these is inductive.  IInv adds what every step may rely on: Shape *)
(* (types, whose journal the step in progress works on and how far it has  *)
(* come), MemorySaved and TargetVerified (when the record in memory is the *)
(* saved one and the target's payload matches it), LoadedInv, and KeptInv: *)
(* while no failure has cost the guarantee, at most the last operation's   *)
(* journal awaits recovery, and the previous version can be restored from  *)
(* what is on disk.                                                        *)
(*                                                                         *)
(* Each action has an effect lemma, which says what its step assigns with no *)
(* definition left to expand, and a lemma named after it that it keeps IInv. *)
(* The theorems are at the end.                                            *)
(***************************************************************************)
EXTENDS ExtensionManager, TLAPS

-----------------------------------------------------------------------------
(* The inductive invariant. *)

\* A journal that exists, and one that recovery brings forward instead of back.
Started(t) == journal[t].state # "none"
Finishing(t) == journal[t].state \in {"activated", "committed"}

\* Steps of a recovery, and steps with the records read under the lock.
FinishSteps == {"finish_clean", "finish_unlink"}
Undoing == {"undo_remove", "undo_copy", "undo_record", "undo_mark"}
Undone  == {"undo_unlock", "undo_clean"}
TxSteps == OpSteps \cup {"fail", "give_up", "remark", "settle_clean"}
             \cup UndoSteps \cup FinishSteps

\* Steps outside every transaction, and those of an operation after the switch.
AtRest  == {"down", "load", "repair", "ready"} \cup RemoveSteps
AfterSwitch == {"active_switched", "activate", "activated", "committed", "unlock",
                "clean", "unlink"}
Ran     == {"activated", "committed", "unlock", "clean", "unlink"}

\* A journal belongs to an operation that was begun, and says what it targets.
JournalsTyped ==
    /\ \A t \in Txs : ~Started(t) => journal[t] = NoJournal
    /\ \A t \in Txs : Started(t) =>
          /\ journal[t].op # "none"
          /\ journal[t].version \in Versions
          /\ journal[t].op # "upgrade" => journal[t].prev = NoRec
    /\ \A t \in Txs : t > clock => ~Started(t)
    /\ since <= clock

\* The step in progress has a journal, and it is the last one begun unless a
\* recovery works through the older ones.
CurTyped ==
    /\ cur.todo \subseteq {t \in Txs : Started(t)}
    /\ pc \in AtRest => cur.tx = 0 /\ ~cur.recovering
    /\ pc \in TxSteps => cur.tx \in Txs /\ cur.tx \notin cur.todo /\ Started(cur.tx)
    /\ pc \in TxSteps /\ ~cur.recovering => cur.tx = clock
    /\ pc \in OpSteps \cup {"fail", "give_up", "undo_clean"} => ~cur.recovering
    /\ pc \in {"remark", "settle_clean"} \cup FinishSteps => cur.recovering
    /\ pc \in OpSteps => pc \in StepsOf(Order)
    /\ pc = "recover" => cur.tx \notin cur.todo

\* How far the journal of the step in progress has come.
StateOfStep ==
    /\ pc \in OpSteps \cup {"fail", "undo_lock"} \cup Undoing \cup FinishSteps =>
         Pending(cur.tx)
    /\ pc \in OpSteps \ {"committed", "unlock", "clean", "unlink"} => ~Finishing(cur.tx)
    /\ pc \in UndoSteps => ~Finishing(cur.tx)
    /\ pc = "committed" => Tx.state = "activated"
    /\ pc \in {"unlock", "clean", "unlink"} => Tx.state = "committed"
    /\ pc \in FinishSteps => Finishing(cur.tx)
    /\ pc = "settle_clean" \/ pc \in Undone => Tx.state = "rolled_back"
    /\ pc = "give_up" => ~Finishing(cur.tx)

\* A journal that the recovery in progress leaves behind.
LeftBehind ==
    \E t \in Txs : /\ Pending(t)
                   /\ t \notin cur.todo
                   /\ pc \in TxSteps \ {"remark"} => t # cur.tx

\* When the record in memory is the one on disk.
MemorySaved ==
    /\ pc \in {"ready", "un_lock", "staged", "validated", "lock"} =>
           mem \in {rec, NoRec} \/ OthersPending
    /\ pc \in {"recover", "settle_clean", "remark"} \cup FinishSteps =>
           mem = rec \/ LeftBehind
    /\ pc = "undo_lock" /\ cur.recovering => mem = rec \/ LeftBehind
    /\ pc = "give_up" => mem = rec \/ Pending(cur.tx) \/ OthersPending
    /\ pc \in {"backup", "name", "activation_started", "remove", "active", "un_remove"}
              \cup AfterSwitch \cup Undoing \cup Undone => mem = rec
    /\ pc = "validated" /\ Tx.op = "rollback" => mem = rec
    /\ pc = "un_save" => mem = NoRec
    /\ pc = "repair" => mem # rec

\* What has been verified of the version that is about to be activated.
TargetVerified ==
    /\ pc \in {"active", "active_switched", "activate"} /\ Tx.op # "rollback" =>
           Verifies(mem, Version)
    /\ pc \in {"lock", "validated", "activation_started", "active", "active_switched",
               "activate"} /\ Tx.op = "rollback" =>
           OthersPending \/ (mem = rec /\ Verifies(mem, Version))
    /\ pc = "record" => payload[Version] = cur.tx
    /\ pc \in {"copy", "record"} => Version \in mem.versions
    /\ pc \in AfterSwitch => mem.active = Version

\* What the process runs, unless the registry changed under it: the active version,
\* and in an upgrade the one before it until the switch.
LoadedInv == "loaded" \notin cost =>
    /\ pc \in {"ready"} \cup RemoveSteps /\ ~OthersPending /\ rec # NoRec =>
           loaded = rec.active
    /\ pc \in TxSteps \ Ran /\ ~cur.recovering /\ ~OthersPending /\ Tx.op = "upgrade"
         => loaded = Tx.prev.active
    /\ pc \in Ran => loaded = rec.active
    /\ pc \in {"undo_mark"} \cup Undone => rec = Tx.prev
    /\ pc = "give_up" /\ ~Pending(cur.tx) => rec = Tx.prev

\* The payloads on disk are the versions of a record, each with its content, and
\* no others.
Whole(r) ==
    /\ r = NoRec \/ r.active \in r.versions
    /\ \A v \in Versions : IF v \in r.versions THEN Verifies(r, v) ELSE payload[v] = None

\* The journal of the last operation begun, and the version it writes.
Last == journal[clock]
Target == Last.version

\* The undo of the last operation can put back what was there before it.
Restorable ==
    /\ Last.prev = promised
    /\ promised = NoRec \/ promised.active \in promised.versions
    /\ \A v \in Versions \ {Target} :
          IF v \in promised.versions THEN Verifies(promised, v) ELSE payload[v] = None
    /\ IF Target \in promised.versions
       THEN IF Last.backed
            THEN /\ backup[clock] = promised.hashes[Target]
                 /\ backup[clock] \notin {None, Partial}
            ELSE Verifies(promised, Target)
       ELSE ~Last.backed

\* What holds while no failure has cost the guarantee: at most the last operation's
\* journal awaits recovery, and that operation is newer than the one that is promised.
OnlyLastPending == \A t \in Txs : Pending(t) => t = clock /\ since < clock

\* No journal awaits recovery.
NonePending == \A t \in Txs : ~Pending(t)

\* When none does, disk and record are whole; a finished operation leaves them whole.
WholeAtRest ==
    /\ NonePending /\ pc # "un_save" => rec = promised /\ Whole(rec)
    /\ clock \in Txs /\ Finishing(clock) => Whole(rec)
    /\ pc = "repair" => clock \in Txs /\ Pending(clock) /\ ~Finishing(clock)
    /\ pc \in {"ready", "un_lock"} => mem = rec \/ ~NonePending
    /\ pc \in RemoveSteps => NonePending
    /\ pc = "un_save" => \A v \in Versions : payload[v] = None

\* An operation whose undo may still run can be undone.
LastRestorable ==
    clock \in Txs /\ Pending(clock) /\ Last.op # "rollback"
    /\ (Finishing(clock) => pc \in {"committed", "fail"}) => Restorable

\* What an operation has put on disk by each of its steps.
OpKept ==
    /\ pc \in OpSteps /\ Tx.op = "rollback" => Whole(rec) /\ ~cur.backed /\ ~Tx.backed
    /\ pc \in {"staged", "validated", "lock", "backup", "name", "activation_started",
               "remove"} /\ Tx.op # "rollback" =>
           rec = promised /\ Whole(rec)
    /\ pc \in {"staged", "validated", "lock", "backup"} => ~cur.backed /\ ~Tx.backed
    /\ pc = "name" => /\ Version \in promised.versions /\ cur.backed /\ ~Tx.backed
                      /\ backup[cur.tx] = payload[Version]
    /\ pc \in {"activation_started", "remove", "copy", "record", "active"} \cup AfterSwitch
         /\ Tx.op # "rollback" =>
           /\ cur.backed = Tx.backed
           /\ pc \notin {"unlock", "clean", "unlink"} /\ Version \in promised.versions =>
                  cur.backed
    /\ pc \in {"copy", "record"} =>
          /\ mem.versions = promised.versions \cup {Version}
          /\ mem.active \in mem.versions
          /\ \A w \in Versions \ {Version} : mem.hashes[w] = promised.hashes[w]
    /\ pc \in {"active"} \cup AfterSwitch => Whole(rec)

\* What an undo has put back by each of its steps.
UndoKept ==
    /\ pc = "fail" => \/ cur.backed = Tx.backed
                      \/ /\ cur.backed
                         /\ Version \in promised.versions
                         /\ backup[cur.tx] = promised.hashes[Version]
    /\ pc \in {"remark", "give_up"} => Pending(cur.tx) /\ ~Finishing(cur.tx)
    /\ pc \in {"remark", "give_up", "undo_lock"} \cup Undoing => cur.backed = Tx.backed
    /\ pc \in {"undo_copy", "undo_record", "undo_mark"} => Tx.op # "rollback"
    /\ pc = "undo_copy" =>
          \/ HasBackup
          \/ IF Version \in promised.versions THEN Verifies(promised, Version)
                                              ELSE payload[Version] = None
    /\ pc \in {"undo_record", "undo_mark"} => Whole(promised)
    /\ pc = "undo_mark" => rec = promised

\* All of it, while no failure has cost the guarantee.
KeptInv == "kept" \notin cost =>
    OnlyLastPending /\ WholeAtRest /\ LastRestorable /\ OpKept /\ UndoKept

\* What holds whatever failed.
Shape == TypeOK /\ JournalsTyped /\ CurTyped /\ StateOfStep

-----------------------------------------------------------------------------
(* Lemmas about the orders of the steps, the records and the journals. *)

\* Each step of an order has one place in it.
LEMMA InstallAfter ==
    /\ After(InstallOrder, "staged") = "validated"
    /\ After(InstallOrder, "validated") = "lock"
    /\ After(InstallOrder, "lock") = "backup"
    /\ After(InstallOrder, "backup") = "name"
    /\ After(InstallOrder, "name") = "activation_started"
    /\ After(InstallOrder, "activation_started") = "remove"
    /\ After(InstallOrder, "remove") = "copy"
    /\ After(InstallOrder, "copy") = "record"
    /\ After(InstallOrder, "record") = "active"
    /\ After(InstallOrder, "active") = "active_switched"
    /\ After(InstallOrder, "active_switched") = "activate"
    /\ After(InstallOrder, "activate") = "activated"
    /\ After(InstallOrder, "activated") = "committed"
    /\ After(InstallOrder, "committed") = "unlock"
    /\ After(InstallOrder, "unlock") = "clean"
    /\ After(InstallOrder, "clean") = "unlink"
<1>1. DOMAIN InstallOrder = 1..17  BY DEF InstallOrder
<1>2. ASSUME NEW k \in 1..16
      PROVE  After(InstallOrder, InstallOrder[k]) = InstallOrder[k + 1]
  <2>1. \A i \in 1..17 : InstallOrder[i] = InstallOrder[k] => i = k
    BY SMTT(60) DEF InstallOrder
  <2>2. (CHOOSE i \in DOMAIN InstallOrder : InstallOrder[i] = InstallOrder[k]) = k
    BY <1>1, <2>1
  <2>3. After(InstallOrder, InstallOrder[k]) = InstallOrder[1 + k]  BY <2>2 DEF After
  <2> QED  BY <2>3, 1 + k = k + 1
<1> QED  BY <1>2 DEF InstallOrder

\* The steps of rollback().
LEMMA RollbackAfter ==
    /\ After(RollbackOrder, "lock") = "validated"
    /\ After(RollbackOrder, "validated") = "activation_started"
    /\ After(RollbackOrder, "activation_started") = "active"
    /\ After(RollbackOrder, "active") = "active_switched"
    /\ After(RollbackOrder, "active_switched") = "activate"
    /\ After(RollbackOrder, "activate") = "activated"
    /\ After(RollbackOrder, "activated") = "committed"
    /\ After(RollbackOrder, "committed") = "unlock"
    /\ After(RollbackOrder, "unlock") = "clean"
    /\ After(RollbackOrder, "clean") = "unlink"
<1>1. DOMAIN RollbackOrder = 1..11  BY DEF RollbackOrder
<1>2. ASSUME NEW k \in 1..10
      PROVE  After(RollbackOrder, RollbackOrder[k]) = RollbackOrder[k + 1]
  <2>1. \A i \in 1..11 : RollbackOrder[i] = RollbackOrder[k] => i = k
    BY SMTT(60) DEF RollbackOrder
  <2>2. (CHOOSE i \in DOMAIN RollbackOrder : RollbackOrder[i] = RollbackOrder[k]) = k
    BY <1>1, <2>1
  <2>3. After(RollbackOrder, RollbackOrder[k]) = RollbackOrder[1 + k]  BY <2>2 DEF After
  <2> QED  BY <2>3, 1 + k = k + 1
<1> QED  BY <1>2 DEF RollbackOrder

\* The steps of an undo.
LEMMA UndoAfter ==
    /\ After(UndoOrder, "undo_lock") = "undo_remove"
    /\ After(UndoOrder, "undo_remove") = "undo_copy"
    /\ After(UndoOrder, "undo_copy") = "undo_record"
    /\ After(UndoOrder, "undo_record") = "undo_mark"
    /\ After(UndoOrder, "undo_mark") = "undo_unlock"
    /\ After(UndoOrder, "undo_unlock") = "undo_clean"
<1>1. DOMAIN UndoOrder = 1..7  BY DEF UndoOrder
<1>2. ASSUME NEW k \in 1..6
      PROVE  After(UndoOrder, UndoOrder[k]) = UndoOrder[k + 1]
  <2>1. \A i \in 1..7 : UndoOrder[i] = UndoOrder[k] => i = k  BY SMTT(60) DEF UndoOrder
  <2>2. (CHOOSE i \in DOMAIN UndoOrder : UndoOrder[i] = UndoOrder[k]) = k  BY <1>1, <2>1
  <2>3. After(UndoOrder, UndoOrder[k]) = UndoOrder[1 + k]  BY <2>2 DEF After
  <2> QED  BY <2>3, 1 + k = k + 1
<1> QED  BY <1>2 DEF UndoOrder

\* The steps, by name.
LEMMA StepsByName ==
    /\ StepsOf(InstallOrder) =
         {"staged", "validated", "lock", "backup", "name", "activation_started", "remove",
          "copy", "record", "active", "active_switched", "activate", "activated",
          "committed", "unlock", "clean", "unlink"}
    /\ StepsOf(RollbackOrder) =
         {"lock", "validated", "activation_started", "active", "active_switched",
          "activate", "activated", "committed", "unlock", "clean", "unlink"}
    /\ UndoSteps =
         {"undo_lock", "undo_remove", "undo_copy", "undo_record", "undo_mark",
          "undo_unlock", "undo_clean"}
    /\ OpSteps = StepsOf(InstallOrder)
    /\ OpSteps \cap States =
         {"staged", "validated", "activation_started", "active_switched", "activated",
          "committed"}
<1>1. StepsOf(InstallOrder) =
         {"staged", "validated", "lock", "backup", "name", "activation_started", "remove",
          "copy", "record", "active", "active_switched", "activate", "activated",
          "committed", "unlock", "clean", "unlink"}
  <2>1. DOMAIN InstallOrder = 1..17  BY DEF InstallOrder
  <2> QED  BY <2>1, SMTT(30) DEF StepsOf, InstallOrder
<1>2. StepsOf(RollbackOrder) =
         {"lock", "validated", "activation_started", "active", "active_switched",
          "activate", "activated", "committed", "unlock", "clean", "unlink"}
  <2>1. DOMAIN RollbackOrder = 1..11  BY DEF RollbackOrder
  <2> QED  BY <2>1, SMTT(30) DEF StepsOf, RollbackOrder
<1>3. UndoSteps =
         {"undo_lock", "undo_remove", "undo_copy", "undo_record", "undo_mark",
          "undo_unlock", "undo_clean"}
  <2>1. DOMAIN UndoOrder = 1..7  BY DEF UndoOrder
  <2> QED  BY <2>1, SMTT(30) DEF UndoSteps, StepsOf, UndoOrder
<1>4. OpSteps = StepsOf(InstallOrder)  BY DEF OpSteps
<1> QED  BY <1>1, <1>2, <1>3, <1>4 DEF States

\* A record's parts, and the records that the code makes of one.
LEMMA RecordParts ==
    ASSUME NEW r \in Records
    PROVE  /\ r.versions \in SUBSET Versions
           /\ r.active \in 0..MaxVersion
           /\ r.hashes \in [Versions -> Contents]
           /\ \A S \in SUBSET Versions : [r EXCEPT !.versions = S] \in Records
           /\ \A v \in 0..MaxVersion : [r EXCEPT !.active = v] \in Records
           /\ \A S \in SUBSET Versions, v \in 0..MaxVersion :
                 [r EXCEPT !.versions = S, !.active = v] \in Records
           /\ \A v \in Versions, c \in Contents : [r EXCEPT !.hashes[v] = c] \in Records
  BY DEF Records

\* The empty record and the empty journal.
LEMMA Empties ==
    /\ NoRec \in Records
    /\ NoJournal \in Journals
    /\ NoJournal.state = "none"
    /\ NoCur.tx = 0 /\ ~NoCur.recovering /\ ~NoCur.backed /\ NoCur.todo = {}
    /\ NoCur \in Locals
<1>1. NoRec \in Records
  BY BoundsAssumption DEF NoRec, Records, Versions, Contents, None
<1> HIDE DEF NoRec
<1> QED
  BY <1>1, BoundsAssumption DEF NoJournal, Journals, States, OpKinds, None, NoCur, Locals, Txs

\* A journal's parts.
LEMMA JournalParts ==
    ASSUME NEW j \in Journals
    PROVE  /\ j.state \in States /\ j.op \in OpKinds /\ j.version \in 0..MaxVersion
           /\ j.prev \in Records /\ j.backed \in BOOLEAN
  BY DEF Journals

\* What a write of the journal changes.
LEMMA Written ==
    ASSUME TypeOK, cur.tx \in Txs, NEW s \in States, WriteState(s)
    PROVE  /\ journal' \in [Txs -> Journals]
           /\ \A t \in Txs : t # cur.tx => journal'[t] = journal[t]
           /\ journal'[cur.tx].state = s
           /\ journal'[cur.tx].backed = cur.backed
           /\ journal'[cur.tx].op = journal[cur.tx].op
           /\ journal'[cur.tx].version = journal[cur.tx].version
           /\ journal'[cur.tx].prev = journal[cur.tx].prev
<1>1. cur.backed \in BOOLEAN  BY DEF TypeOK, Locals
<1>2. journal[cur.tx] \in Journals  BY DEF TypeOK
<1>3. [journal[cur.tx] EXCEPT !.state = s, !.backed = cur.backed] \in Journals
  BY <1>1, <1>2 DEF Journals
<1> QED  BY <1>1, <1>2, <1>3 DEF TypeOK, WriteState, Journals

\* What the operation or the recovery in progress works on.
TxTyped ==
    /\ cur.tx \in Txs /\ Started(cur.tx) /\ (~cur.recovering => cur.tx = clock)
    /\ Tx \in Journals /\ Tx.prev \in Records /\ Tx.state \in States
    /\ Version \in Versions
    /\ cur \in Locals /\ cur.backed \in BOOLEAN /\ cur.recovering \in BOOLEAN
    /\ mem \in Records /\ payload[Version] \in Contents
    /\ cur.tx \in Contents /\ cur.tx \notin {None, Partial}

\* A step with a journal works on a typed one.
LEMMA InTx ==
    ASSUME Shape, pc \in TxSteps
    PROVE  TxTyped
<1>1. cur.tx \in Txs /\ Started(cur.tx) /\ (~cur.recovering => cur.tx = clock)
  BY DEF Shape, CurTyped
<1>2. Tx \in Journals /\ Version \in Versions
  BY <1>1 DEF Shape, TypeOK, JournalsTyped, Tx, Version
<1>3. cur \in Locals /\ mem \in Records /\ payload[Version] \in Contents
  BY <1>2 DEF Shape, TypeOK
<1>4. cur.tx \in Contents /\ cur.tx \notin {None, Partial}
  BY <1>1, BoundsAssumption DEF Txs, Contents, None, Partial
<1> QED  BY <1>1, <1>2, <1>3, <1>4, JournalParts DEF Locals, TxTyped

\* A step of an operation is one of its order, and the operation is the last begun.
LEMMA InOp ==
    ASSUME Shape, pc \in OpSteps
    PROVE  /\ TxTyped /\ ~cur.recovering /\ cur.tx = clock
           /\ pc \in {"staged", "backup", "name", "remove", "copy", "record"} =>
                Tx.op # "rollback"
           /\ Order = IF Tx.op = "rollback" THEN RollbackOrder ELSE InstallOrder
<1>1. pc \in TxSteps  BY DEF TxSteps
<1>2. ~cur.recovering /\ pc \in StepsOf(Order)  BY DEF Shape, CurTyped
<1>3. cur.tx = clock /\ TxTyped  BY <1>1, <1>2, InTx DEF TxTyped
<1>4. pc \in {"staged", "backup", "name", "remove", "copy", "record"} => Tx.op # "rollback"
  BY <1>2, StepsByName DEF Order
<1> QED  BY <1>2, <1>3, <1>4 DEF Order

\* The inductive invariant.
IInv == Shape /\ MemorySaved /\ TargetVerified /\ LoadedInv /\ KeptInv

\* Whether a backup was taken is a truth value, in memory and in the journal.
LEMMA Flags ==
    ASSUME Shape, pc \in TxSteps
    PROVE  cur.backed \in BOOLEAN /\ Tx.backed \in BOOLEAN
  BY InTx, JournalParts DEF TxTyped

\* The record that a step's assignments make in memory.
LEMMA MemNowIs ==
    ASSUME TxTyped
    PROVE  /\ MemNow \in Records
           /\ pc = "remove" => /\ MemNow.versions = mem.versions \cup {Version}
                               /\ MemNow.hashes = mem.hashes
                               /\ MemNow.active = IF mem = NoRec THEN Version ELSE mem.active
           /\ pc = "record" => /\ MemNow.versions = mem.versions
                               /\ MemNow.active = mem.active
                               /\ MemNow.hashes[Version] = payload[Version]
                               /\ \A v \in Versions \ {Version} : MemNow.hashes[v] = mem.hashes[v]
           /\ pc = "active" => /\ MemNow.versions = mem.versions
                               /\ MemNow.active = Version
                               /\ MemNow.hashes = mem.hashes
           /\ pc = "undo_record" => MemNow = Tx.prev
<1>1. /\ mem \in Records /\ Version \in Versions /\ payload[Version] \in Contents
      /\ Tx.prev \in Records
  BY DEF TxTyped
<1>2. Version \in 0..MaxVersion  BY <1>1, BoundsAssumption DEF Versions
<1>3. mem.versions \cup {Version} \in SUBSET Versions  BY <1>1, RecordParts
<1>4. CASE pc = "remove"
  <2>1. MemNow = [mem EXCEPT !.versions = mem.versions \cup {Version},
                             !.active = IF mem = NoRec THEN Version ELSE mem.active]
    BY <1>4 DEF MemNow
  <2>2. mem.active \in 0..MaxVersion  BY <1>1, RecordParts
  <2> QED  BY <1>1, <1>2, <1>3, <1>4, <2>1, <2>2 DEF Records
<1>5. CASE pc = "record"
  <2>1. MemNow = [mem EXCEPT !.hashes[Version] = payload[Version]]  BY <1>5 DEF MemNow
  <2> QED  BY <1>1, <1>5, <2>1 DEF Records
<1>6. CASE pc = "active"
  <2>1. MemNow = [mem EXCEPT !.active = Version]  BY <1>6 DEF MemNow
  <2> QED  BY <1>1, <1>2, <1>6, <2>1 DEF Records
<1>7. CASE pc = "undo_record"
  BY <1>1, <1>7 DEF MemNow
<1>8. CASE pc \notin {"remove", "record", "active", "undo_record"}
  BY <1>1, <1>8, Empties DEF MemNow
<1> QED  BY <1>4, <1>5, <1>6, <1>7, <1>8

\* What begins an operation.
LEMMA BeginEffect ==
    ASSUME Shape, NEW op \in OpKinds, NEW v \in Versions, NEW prev \in Records,
           NEW step, Begin(op, v, prev, step)
    PROVE  /\ pc = "ready" /\ pc' = step
           /\ clock' = clock + 1 /\ clock' \in Txs
           /\ cur' = [NoCur EXCEPT !.tx = clock']
           /\ cur'.tx = clock' /\ ~cur'.recovering /\ ~cur'.backed /\ cur'.todo = {}
           /\ cur' \in Locals
           /\ journal'[clock'].state = "prepared" /\ journal'[clock'].op = op
           /\ journal'[clock'].prev = prev /\ ~journal'[clock'].backed
           /\ journal'[clock'].version = v
           /\ \A t \in Txs : t # clock' => journal'[t] = journal[t]
           /\ journal' \in [Txs -> Journals]
           /\ outcome' \in Outcomes
           /\ cost' \subseteq Costs /\ cost \subseteq cost'
                /\ ("kept" \notin cost' => NonePending)
           /\ UNCHANGED <<payload, rec, backup, lock, mem, loaded, failures, promised, since>>
<1> DEFINE j == [state |-> "prepared", op |-> op, version |-> v, prev |-> prev,
      backed |-> FALSE]
<1>1. j \in Journals
  BY BoundsAssumption DEF Journals, States, Versions
<1>2. clock \in 0..MaxTx /\ journal \in [Txs -> Journals] /\ cost \subseteq Costs
  BY DEF Shape, TypeOK
<1>3. pc = "ready" /\ pc' = step /\ clock' = clock + 1 /\ clock < MaxTx /\ outcome' = "none"
      /\ UNCHANGED <<payload, rec, backup, lock, mem, loaded, failures, promised, since>>
  BY DEF Begin
<1>4. clock' \in Txs  BY <1>2, <1>3, BoundsAssumption DEF Txs
<1>5. journal' = [journal EXCEPT ![clock'] = j]  BY <1>3 DEF Begin
<1>6. cur' = [NoCur EXCEPT !.tx = clock']  BY <1>3 DEF Begin
<1>7. cur'.tx = clock' /\ ~cur'.recovering /\ ~cur'.backed /\ cur'.todo = {}
        /\ cur' \in Locals
  <2>1. clock' \in 0..MaxTx  BY <1>4, BoundsAssumption DEF Txs
  <2>2. cur' = [tx |-> clock', recovering |-> FALSE, backed |-> FALSE, todo |-> {}]
    BY <1>6 DEF NoCur
  <2> QED  BY <2>1, <2>2 DEF Locals
<1>8. cost' \subseteq Costs /\ cost \subseteq cost' /\ ("kept" \notin cost' => NonePending)
  BY <1>2 DEF Begin, Spend, BeginCosts, NonePending, Costs
<1>9. j.state = "prepared" /\ j.op = op /\ j.prev = prev /\ ~j.backed /\ j.version = v
  OBVIOUS
<1> HIDE DEF j
<1> QED  BY <1>1, <1>2, <1>3, <1>4, <1>5, <1>6, <1>7, <1>8, <1>9 DEF Outcomes

\* A step that leaves alone what the undo needs leaves it possible.
LEMMA RestorableKept ==
    ASSUME Restorable, clock' = clock, promised' = promised,
           journal'[clock].prev = Last.prev, journal'[clock].version = Target,
           journal'[clock].backed = Last.backed,
           Last.backed => backup'[clock] = backup[clock],
           \A v \in Versions \ {Target} : payload'[v] = payload[v],
           payload'[Target] = payload[Target] \/ Last.backed
             \/ Target \notin promised.versions
    PROVE  Restorable'
  BY DEF Restorable, Last, Target, Verifies

\* The operation in progress is the only one that awaits recovery, so it is the last.
LEMMA PendingIsLast ==
    ASSUME OnlyLastPending, cur.tx \in Txs, Pending(cur.tx)
    PROVE  /\ cur.tx = clock /\ clock \in Txs /\ Pending(clock) /\ ~NonePending
           /\ Tx = Last /\ Version = Target
  BY DEF OnlyLastPending, NonePending, Tx, Last, Version, Target

\* What Start does.
LEMMA StartEffect ==
    ASSUME Shape, Start
    PROVE  /\ pc = "down" /\ pc' = "load"
           /\ cur'.tx = 0 /\ ~cur'.recovering /\ cur' \in Locals
           /\ cur'.todo = {t \in Txs : Started(t)}
           /\ outcome' \in Outcomes
           /\ UNCHANGED <<payload, rec, backup, journal, lock, mem, loaded, clock, failures,
                          promised, since, cost>>
  BY Empties, StepsByName DEF Start, Outcomes, Started, Locals, disk, history, Shape

\* What Load does.
LEMMA LoadEffect ==
    ASSUME Shape, Load
    PROVE  /\ pc = "load" /\ pc' \in {"recover", "repair"}
           /\ mem' \in Records
           /\ pc' = "recover" <=> mem' = rec
           /\ Whole(rec) => mem' = rec
           /\ UNCHANGED <<payload, rec, backup, journal, lock, loaded, cur, outcome, clock,
                          failures, promised, since, cost>>
<1>1. rec \in Records /\ pc = "load"  BY DEF Shape, TypeOK, Load
<1> DEFINE available == {v \in rec.versions : payload[v] # None}
<1>2. available \in SUBSET Versions  BY <1>1, RecordParts
<1>3. mem' \in Records
  <2>1. CASE available = {}
    BY <2>1, Empties DEF Load
  <2>2. CASE available # {} /\ rec.active \in available
    <3>1. mem' = [rec EXCEPT !.versions = available]  BY <2>2 DEF Load
    <3> QED  BY <1>1, <1>2, <3>1, RecordParts
  <2>3. CASE available # {} /\ rec.active \notin available
    <3>1. PICK v \in available : mem' = [rec EXCEPT !.versions = available, !.active = v]
      BY <2>3 DEF Load
    <3>2. v \in 0..MaxVersion  BY <1>2, BoundsAssumption DEF Versions
    <3> QED  BY <1>1, <1>2, <3>1, <3>2, RecordParts
  <2> QED  BY <2>1, <2>2, <2>3
<1>4. pc' \in {"recover", "repair"} /\ (pc' = "recover" <=> mem' = rec)
  BY DEF Load, Goto
<1>5. Whole(rec) => mem' = rec
  <2> SUFFICES ASSUME Whole(rec) PROVE mem' = rec
    OBVIOUS
  <2>1. available = rec.versions  BY <1>1, RecordParts DEF Whole, Verifies
  <2>2. CASE rec = NoRec
    BY <2>1, <2>2 DEF NoRec, Load
  <2>3. CASE rec # NoRec
    <3>1. rec.active \in available  BY <2>1, <2>3 DEF Whole
    <3>2. mem' = [rec EXCEPT !.versions = available]  BY <3>1 DEF Load
    <3>3. [rec EXCEPT !.versions = rec.versions] = rec  BY <1>1 DEF Records
    <3> QED  BY <2>1, <3>2, <3>3
  <2> QED  BY <2>2, <2>3
<1>6. UNCHANGED <<payload, rec, backup, journal, lock, loaded, cur, outcome, clock, failures,
                  promised, since, cost>>
  BY DEF Load, Goto, disk, history
<1> QED  BY <1>1, <1>3, <1>4, <1>5, <1>6

\* What SaveRepair does.
LEMMA SaveRepairEffect ==
    ASSUME Shape, SaveRepair
    PROVE  /\ pc = "repair" /\ pc' = "recover"
           /\ rec' = mem
           /\ UNCHANGED <<payload, backup, journal, lock, mem, loaded, cur, outcome, clock,
                          failures, promised, since, cost>>
  BY StepsByName DEF SaveRepair, Goto, history, Shape

\* What RecoverNext does.
LEMMA RecoverNextEffect ==
    ASSUME Shape, RecoverNext
    PROVE  /\ pc = "recover" /\ cur'.tx \in cur.todo
           /\ Started(cur'.tx)
           /\ cur'.recovering /\ cur' \in Locals /\ cur'.backed = journal[cur'.tx].backed
           /\ cur'.todo = cur.todo \ {cur'.tx}
           /\ \/ pc' = "finish_clean" /\ Finishing(cur'.tx)
              \/ pc' = "settle_clean" /\ journal[cur'.tx].state = "rolled_back"
              \/ pc' = "undo_lock" /\ Pending(cur'.tx) /\ ~Finishing(cur'.tx)
           /\ UNCHANGED <<payload, rec, backup, journal, lock, mem, loaded, outcome, clock,
                          failures, promised, since, cost>>
<1>1. PICK t \in cur.todo :
          /\ cur' = [tx |-> t, recovering |-> TRUE, backed |-> journal[t].backed,
                     todo |-> cur.todo \ {t}]
          /\ Goto(CASE journal[t].state \in {"committed", "activated"} -> "finish_clean"
                    [] journal[t].state = "rolled_back" -> "settle_clean"
                    [] OTHER -> "undo_lock")
  BY DEF RecoverNext
<1>2. t \in Txs /\ Started(t) /\ cur.todo \subseteq Txs  BY DEF Shape, CurTyped
<1>3. journal[t].backed \in BOOLEAN  BY <1>2, JournalParts DEF Shape, TypeOK
<1>4. cur'.tx = t /\ cur'.recovering /\ cur'.backed = journal[t].backed
        /\ cur'.todo = cur.todo \ {t}
  BY <1>1
<1>5. cur' \in Locals  BY <1>1, <1>2, <1>3, BoundsAssumption DEF Locals, Txs
<1>6. \/ pc' = "finish_clean" /\ Finishing(t)
      \/ pc' = "settle_clean" /\ journal[t].state = "rolled_back"
      \/ pc' = "undo_lock" /\ Pending(t) /\ ~Finishing(t)
  BY <1>1, <1>2 DEF Goto, Finishing, Pending, Started
<1>7. pc = "recover" /\ UNCHANGED <<payload, rec, backup, journal, lock, mem, loaded, outcome,
                                    clock, failures, promised, since, cost>>
  BY <1>1 DEF RecoverNext, Goto, disk, history
<1> QED  BY <1>2, <1>4, <1>5, <1>6, <1>7

\* What FinishClean does.
LEMMA FinishCleanEffect ==
    ASSUME Shape, FinishClean
    PROVE  /\ \/ pc = "finish_clean" /\ pc' = "finish_unlink"
              \/ pc = "settle_clean" /\ pc' = "recover"
           /\ cur.tx \in Txs /\ cur.recovering
           /\ \A t \in Txs : t # cur.tx => backup'[t] = backup[t]
           /\ backup' \in [Txs -> Contents]
           /\ UNCHANGED <<payload, rec, journal, lock, mem, loaded, cur, outcome, clock,
                          failures, promised, since, cost>>
<1>1. pc \in {"finish_clean", "settle_clean"}  BY StepsByName DEF FinishClean
<1>2. TxTyped /\ pc \in TxSteps
  BY <1>1, InTx, StepsByName DEF TxSteps, FinishSteps
<1>3. \/ pc = "finish_clean" /\ pc' = "finish_unlink"
      \/ pc = "settle_clean" /\ pc' = "recover"
  BY <1>1, <1>2 DEF FinishClean, Goto, Report, disk, history
<1>4. cur.tx \in Txs /\ cur.recovering
  BY <1>1, <1>2 DEF TxTyped, Shape, CurTyped, TxSteps, FinishSteps
<1>5. \A t \in Txs : t # cur.tx => backup'[t] = backup[t]
  BY <1>1, <1>2, BoundsAssumption
     DEF FinishClean, Goto, Report, disk, history, TxTyped, Shape, TypeOK, Contents, None,
         Partial
<1>6. backup' \in [Txs -> Contents]
  BY <1>1, <1>2, BoundsAssumption
     DEF FinishClean, Goto, Report, disk, history, TxTyped, Shape, TypeOK, Contents, None,
         Partial
<1>7. UNCHANGED <<payload, rec, journal, lock, mem, loaded, cur, outcome, clock, failures,
                  promised, since, cost>>
  BY <1>1, <1>2 DEF FinishClean, Goto, Report, disk, history
<1> QED  BY <1>3, <1>4, <1>5, <1>6, <1>7

\* What FinishUnlink does.
LEMMA FinishUnlinkEffect ==
    ASSUME Shape, FinishUnlink
    PROVE  /\ pc = "finish_unlink" /\ pc' = "recover"
           /\ cur.tx \in Txs /\ cur.recovering /\ cur.tx \notin cur.todo
           /\ journal'[cur.tx] = NoJournal
           /\ \A t \in Txs : t # cur.tx => journal'[t] = journal[t]
           /\ journal' \in [Txs -> Journals]
           /\ IF cur.tx > since THEN promised' = rec /\ since' = cur.tx ELSE UNCHANGED <<
                                                                                         promised,
                                                                                         since>>
           /\ UNCHANGED <<payload, rec, backup, lock, mem, loaded, cur, outcome, clock,
                          failures, cost>>
<1>1. pc = "finish_unlink"  BY StepsByName DEF FinishUnlink
<1>2. TxTyped /\ pc \in TxSteps
  BY <1>1, InTx, StepsByName DEF TxSteps, FinishSteps
<1>3. pc = "finish_unlink" /\ pc' = "recover"
  BY <1>1, <1>2 DEF FinishUnlink, Goto, Report, disk, history
<1>4. cur.tx \in Txs /\ cur.recovering /\ cur.tx \notin cur.todo
  BY <1>1, <1>2 DEF TxTyped, Shape, CurTyped, TxSteps, FinishSteps
<1>5. journal'[cur.tx] = NoJournal
  BY <1>1, <1>2, Written, Empties
     DEF FinishUnlink, Goto, Report, disk, history, TxTyped, Shape, TypeOK, Tx, Version,
         States
<1>6. \A t \in Txs : t # cur.tx => journal'[t] = journal[t]
  BY <1>1, <1>2, Written, Empties
     DEF FinishUnlink, Goto, Report, disk, history, TxTyped, Shape, TypeOK, Tx, Version,
         States
<1>7. journal' \in [Txs -> Journals]
  BY <1>1, <1>2, Written, Empties
     DEF FinishUnlink, Goto, Report, disk, history, TxTyped, Shape, TypeOK, Tx, Version,
         States
<1>8. IF cur.tx > since THEN promised' = rec /\ since' = cur.tx ELSE UNCHANGED <<promised,
                                                                                 since>>
  BY <1>1, <1>2 DEF FinishUnlink, Goto, Report, disk, history
<1>9. UNCHANGED <<payload, rec, backup, lock, mem, loaded, cur, outcome, clock, failures,
                  cost>>
  BY <1>1, <1>2 DEF FinishUnlink, Goto, Report, disk, history
<1> QED  BY <1>3, <1>4, <1>5, <1>6, <1>7, <1>8, <1>9

\* What Remark does.
LEMMA RemarkEffect ==
    ASSUME Shape, Remark
    PROVE  /\ pc = "remark" /\ pc' = "recover"
           /\ cur.tx \in Txs /\ Started(cur.tx) /\ cur.recovering /\ cur.tx \notin cur.todo
           /\ failures' \in 0..MaxFailures
           /\ \/ /\ journal' \in [Txs -> Journals]
                 /\ \A t \in Txs : t # cur.tx => journal'[t] = journal[t]
                 /\ journal'[cur.tx].state = "rollback_required"
                 /\ journal'[cur.tx].backed = cur.backed
                 /\ journal'[cur.tx].op = Tx.op /\ journal'[cur.tx].version = Version
                 /\ journal'[cur.tx].prev = Tx.prev
              \/ UNCHANGED journal
           /\ UNCHANGED <<payload, rec, backup, lock, mem, loaded, cur, outcome, clock,
                          promised, since, cost>>
<1>1. pc = "remark"  BY StepsByName DEF Remark
<1>2. TxTyped /\ pc \in TxSteps
  BY <1>1, InTx, StepsByName DEF TxSteps, FinishSteps
<1>3. pc = "remark" /\ pc' = "recover"
  BY <1>1, <1>2 DEF Remark, Goto, Report, disk, history
<1>4. cur.tx \in Txs /\ Started(cur.tx) /\ cur.recovering /\ cur.tx \notin cur.todo
  BY <1>1, <1>2 DEF TxTyped, Shape, CurTyped, TxSteps, FinishSteps
<1>5. failures' \in 0..MaxFailures
  BY <1>1, <1>2, BoundsAssumption
     DEF Remark, Goto, Report, disk, history, CanFail, Shape, TypeOK
<1>6. \/ /\ journal' \in [Txs -> Journals]
         /\ \A t \in Txs : t # cur.tx => journal'[t] = journal[t]
         /\ journal'[cur.tx].state = "rollback_required"
         /\ journal'[cur.tx].backed = cur.backed
         /\ journal'[cur.tx].op = Tx.op /\ journal'[cur.tx].version = Version
         /\ journal'[cur.tx].prev = Tx.prev
      \/ UNCHANGED journal
  BY <1>1, <1>2, Written, Empties
     DEF Remark, Goto, Report, disk, history, TxTyped, Shape, TypeOK, Tx, Version, States
<1>7. UNCHANGED <<payload, rec, backup, lock, mem, loaded, cur, outcome, clock, promised,
                  since, cost>>
  BY <1>1, <1>2 DEF Remark, Goto, Report, disk, history
<1> QED  BY <1>3, <1>4, <1>5, <1>6, <1>7

\* What RecoverFault does.
LEMMA RecoverFaultEffect ==
    ASSUME Shape, RecoverFault
    PROVE  /\ pc \in {"finish_clean", "settle_clean", "finish_unlink"} /\ pc' = "remark"
           /\ cur.tx \in Txs /\ cur.recovering /\ cur.tx \notin cur.todo
           /\ backup' \in [Txs -> Contents]
           /\ failures' \in 0..MaxFailures
           /\ cost' \subseteq Costs /\ cost \subseteq cost' /\ "kept" \in cost'
           /\ UNCHANGED <<payload, rec, journal, lock, mem, loaded, cur, outcome, clock,
                          promised, since>>
<1>1. pc \in {"finish_clean", "settle_clean", "finish_unlink"}
  BY StepsByName DEF RecoverFault
<1>2. TxTyped /\ pc \in TxSteps
  BY <1>1, InTx, StepsByName DEF TxSteps, FinishSteps
<1>3. pc \in {"finish_clean", "settle_clean", "finish_unlink"} /\ pc' = "remark"
  BY <1>1, <1>2 DEF RecoverFault, Goto, Report, disk, history
<1>4. cur.tx \in Txs /\ cur.recovering /\ cur.tx \notin cur.todo
  BY <1>1, <1>2 DEF TxTyped, Shape, CurTyped, TxSteps, FinishSteps
<1>5. backup' \in [Txs -> Contents]
  BY <1>1, <1>2, BoundsAssumption
     DEF RecoverFault, Goto, Report, disk, history, TxTyped, Shape, TypeOK, Contents, None,
         Partial, FaultCosts, Costs, Spend, HasBackup
<1>6. failures' \in 0..MaxFailures
  BY <1>1, <1>2, BoundsAssumption
     DEF RecoverFault, Goto, Report, disk, history, CanFail, Shape, TypeOK, FaultCosts, Costs,
         Spend, HasBackup
<1>7. cost' \subseteq Costs /\ cost \subseteq cost' /\ "kept" \in cost'
  BY <1>1, <1>2, BoundsAssumption
     DEF RecoverFault, Goto, Report, disk, history, CanFail, Shape, TypeOK, FaultCosts, Costs,
         Spend, HasBackup
<1>8. UNCHANGED <<payload, rec, journal, lock, mem, loaded, cur, outcome, clock, promised,
                  since>>
  BY <1>1, <1>2 DEF RecoverFault, Goto, Report, disk, history
<1> QED  BY <1>3, <1>4, <1>5, <1>6, <1>7, <1>8

\* What ActivateAll does.
LEMMA ActivateAllEffect ==
    ASSUME Shape, ActivateAll
    PROVE  /\ pc = "recover" /\ pc' \in {"ready", "down"}
           /\ cur.todo = {}
           /\ cur' = NoCur
           /\ outcome' \in Outcomes
           /\ loaded' \in 0..MaxVersion
           /\ pc' = "ready" => loaded' = (IF mem = NoRec THEN loaded ELSE mem.active)
           /\ UNCHANGED <<payload, rec, backup, journal, lock, mem, clock, failures, promised,
                          since, cost>>
<1>1. mem.active \in 0..MaxVersion /\ loaded \in 0..MaxVersion
  BY RecordParts DEF Shape, TypeOK
<1> QED  BY <1>1 DEF ActivateAll, Report, Outcomes, disk, history

\* What Install does.
LEMMA InstallEffect ==
    ASSUME Shape, Install
    PROVE  /\ pc = "ready" /\ pc' = "staged"
           /\ clock' = clock + 1 /\ clock' \in Txs
           /\ cur' = [NoCur EXCEPT !.tx = clock']
           /\ cur'.tx = clock' /\ ~cur'.recovering /\ ~cur'.backed /\ cur'.todo = {}
           /\ cur' \in Locals
           /\ journal'[clock'].state = "prepared" /\ journal'[clock'].op = "install"
           /\ journal'[clock'].prev = NoRec /\ ~journal'[clock'].backed
           /\ journal'[clock'].version \in Versions
           /\ \A t \in Txs : t # clock' => journal'[t] = journal[t]
           /\ journal' \in [Txs -> Journals]
           /\ outcome' \in Outcomes
           /\ cost' \subseteq Costs /\ cost \subseteq cost'
                /\ ("kept" \notin cost' => NonePending)
           /\ mem = NoRec
           /\ UNCHANGED <<payload, rec, backup, lock, mem, loaded, failures, promised, since>>
<1>1. PICK v \in Versions : Begin("install", v, NoRec, "staged")  BY DEF Install
<1> QED  BY <1>1, BeginEffect, Empties DEF Install, OpKinds

\* What Upgrade does.
LEMMA UpgradeEffect ==
    ASSUME Shape, Upgrade
    PROVE  /\ pc = "ready" /\ pc' = "staged"
           /\ clock' = clock + 1 /\ clock' \in Txs
           /\ cur' = [NoCur EXCEPT !.tx = clock']
           /\ cur'.tx = clock' /\ ~cur'.recovering /\ ~cur'.backed /\ cur'.todo = {}
           /\ cur' \in Locals
           /\ journal'[clock'].state = "prepared" /\ journal'[clock'].op = "upgrade"
           /\ journal'[clock'].prev = mem /\ ~journal'[clock'].backed
           /\ journal'[clock'].version \in Versions
           /\ \A t \in Txs : t # clock' => journal'[t] = journal[t]
           /\ journal' \in [Txs -> Journals]
           /\ outcome' \in Outcomes
           /\ cost' \subseteq Costs /\ cost \subseteq cost'
                /\ ("kept" \notin cost' => NonePending)
           /\ mem # NoRec
           /\ UNCHANGED <<payload, rec, backup, lock, mem, loaded, failures, promised, since>>
<1>1. PICK v \in Versions : Begin("upgrade", v, mem, "staged")  BY DEF Upgrade
<1>2. mem \in Records  BY DEF Shape, TypeOK
<1> QED  BY <1>1, <1>2, BeginEffect DEF Upgrade, OpKinds

\* What Rollback does.
LEMMA RollbackEffect ==
    ASSUME Shape, Rollback
    PROVE  /\ pc = "ready" /\ pc' = "lock"
           /\ clock' = clock + 1 /\ clock' \in Txs
           /\ cur' = [NoCur EXCEPT !.tx = clock']
           /\ cur'.tx = clock' /\ ~cur'.recovering /\ ~cur'.backed /\ cur'.todo = {}
           /\ cur' \in Locals
           /\ journal'[clock'].state = "prepared" /\ journal'[clock'].op = "rollback"
           /\ journal'[clock'].prev = NoRec /\ ~journal'[clock'].backed
           /\ journal'[clock'].version \in Versions
           /\ \A t \in Txs : t # clock' => journal'[t] = journal[t]
           /\ journal' \in [Txs -> Journals]
           /\ outcome' \in Outcomes
           /\ cost' \subseteq Costs /\ cost \subseteq cost'
                /\ ("kept" \notin cost' => NonePending)
           /\ Verifies(mem, journal'[clock'].version)
           /\ UNCHANGED <<payload, rec, backup, lock, mem, loaded, failures, promised, since>>
<1>1. PICK v \in mem.versions \ {mem.active} :
             Verifies(mem, v) /\ Begin("rollback", v, NoRec, "lock")
  BY DEF Rollback
<1>2. v \in Versions  BY <1>1, RecordParts DEF Shape, TypeOK
<1> QED  BY <1>1, <1>2, BeginEffect, Empties DEF OpKinds

\* What Mark does.
LEMMA MarkEffect ==
    ASSUME Shape, Mark
    PROVE  /\ cur.tx \in Txs /\ cur.tx = clock /\ Started(cur.tx) /\ ~cur.recovering
           /\ \/ pc = "staged" /\ pc' = "validated" /\ Tx.op # "rollback"
              \/ pc = "validated" /\ pc' = "lock" /\ Tx.op # "rollback"
              \/ pc = "validated" /\ pc' = "activation_started" /\ Tx.op = "rollback"
              \/ pc = "activation_started" /\ pc' = "remove" /\ Tx.op # "rollback"
              \/ pc = "activation_started" /\ pc' = "active" /\ Tx.op = "rollback"
              \/ pc = "active_switched" /\ pc' = "activate"
              \/ pc = "activated" /\ pc' = "committed"
              \/ pc = "committed" /\ pc' = "unlock"
           /\ journal' \in [Txs -> Journals]
           /\ \A t \in Txs : t # cur.tx => journal'[t] = journal[t]
           /\ journal'[cur.tx].state = pc /\ journal'[cur.tx].backed = cur.backed
           /\ journal'[cur.tx].op = Tx.op /\ journal'[cur.tx].version = Version
           /\ journal'[cur.tx].prev = Tx.prev
           /\ UNCHANGED <<payload, rec, backup, lock, mem, loaded, cur, outcome, clock,
                          failures, promised, since, cost>>
<1>1. pc \in {"staged", "validated", "activation_started", "active_switched", "activated",
        "committed"}
  BY StepsByName DEF Mark
<1>2. TxTyped /\ ~cur.recovering /\ cur.tx = clock /\ pc \in OpSteps
  BY <1>1, InOp, StepsByName
<1>3. WriteState(pc)  BY DEF Mark
<1>4. cur.tx \in Txs /\ cur.tx = clock /\ Started(cur.tx) /\ ~cur.recovering
  BY <1>1, <1>2 DEF TxTyped
<1>5. \/ pc = "staged" /\ pc' = "validated" /\ Tx.op # "rollback"
      \/ pc = "validated" /\ pc' = "lock" /\ Tx.op # "rollback"
      \/ pc = "validated" /\ pc' = "activation_started" /\ Tx.op = "rollback"
      \/ pc = "activation_started" /\ pc' = "remove" /\ Tx.op # "rollback"
      \/ pc = "activation_started" /\ pc' = "active" /\ Tx.op = "rollback"
      \/ pc = "active_switched" /\ pc' = "activate"
      \/ pc = "activated" /\ pc' = "committed"
      \/ pc = "committed" /\ pc' = "unlock"
  BY <1>1, <1>2, InstallAfter, RollbackAfter, InOp DEF Mark, Goto, Report, disk, history
<1>6. journal' \in [Txs -> Journals]
  BY <1>1, <1>2, <1>3, Written DEF TxTyped, Shape, Tx, Version, States
<1>7. \A t \in Txs : t # cur.tx => journal'[t] = journal[t]
  BY <1>1, <1>2, <1>3, Written DEF TxTyped, Shape, Tx, Version, States
<1>8. journal'[cur.tx].state = pc /\ journal'[cur.tx].backed = cur.backed
  BY <1>1, <1>2, <1>3, Written DEF TxTyped, Shape, Tx, Version, States
<1>9. journal'[cur.tx].op = Tx.op /\ journal'[cur.tx].version = Version
        /\ journal'[cur.tx].prev = Tx.prev
  BY <1>1, <1>2, <1>3, Written DEF TxTyped, Shape, Tx, Version, States
<1>10. UNCHANGED <<payload, rec, backup, lock, mem, loaded, cur, outcome, clock, failures,
                   promised, since, cost>>
  BY <1>1, <1>2 DEF Mark, Goto, Report, disk, history
<1> QED  BY <1>4, <1>5, <1>6, <1>7, <1>8, <1>9, <1>10

\* What Lock does.
LEMMA LockEffect ==
    ASSUME Shape, Lock
    PROVE  /\ \/ pc = "lock" /\ pc' = "backup" /\ Tx.op # "rollback" /\ cur.tx \in Txs
                   /\ cur.tx = clock /\ Started(cur.tx) /\ ~cur.recovering
              \/ pc = "lock" /\ pc' = "validated" /\ Tx.op = "rollback" /\ cur.tx \in Txs
                   /\ cur.tx = clock /\ Started(cur.tx) /\ ~cur.recovering
              \/ pc = "undo_lock" /\ pc' = "undo_remove" /\ cur.tx \in Txs
              \/ pc = "un_lock" /\ pc' = "un_remove"
           /\ mem' = rec
           /\ lock' = "held"
           /\ UNCHANGED <<payload, rec, backup, journal, loaded, cur, outcome, clock,
                          failures, promised, since, cost>>
<1>1. mem' = rec /\ lock' = "held" /\ UNCHANGED <<payload, rec, backup, journal, loaded, cur,
                                                  outcome, clock, failures, promised, since,
                                                  cost>>
  BY DEF Lock, Goto, history
<1>2. CASE pc = "lock"
  <2>1. TxTyped /\ ~cur.recovering /\ cur.tx = clock  BY <1>2, InOp, StepsByName
  <2>2. pc' = After(Order, "lock")  BY <1>2 DEF Lock, Goto
  <2> QED  BY <1>1, <1>2, <2>1, <2>2, InstallAfter, RollbackAfter DEF Order, TxTyped
<1>3. CASE pc = "undo_lock"
  <2>1. TxTyped  BY <1>3, InTx, StepsByName DEF TxSteps
  <2>2. pc' = After(UndoOrder, "undo_lock")  BY <1>3 DEF Lock, Goto
  <2> QED  BY <1>1, <1>3, <2>1, <2>2, UndoAfter DEF TxTyped
<1>4. CASE pc = "un_lock"
  BY <1>1, <1>4 DEF Lock, Goto
<1> QED  BY <1>2, <1>3, <1>4 DEF Lock

\* What LockTimeout does.
LEMMA LockTimeoutEffect ==
    ASSUME Shape, LockTimeout
    PROVE  /\ \/ pc = "lock" /\ pc' = "fail" /\ UNCHANGED outcome /\ cur.tx \in Txs
                   /\ cur.tx = clock /\ Started(cur.tx) /\ ~cur.recovering
              \/ pc = "undo_lock" /\ pc' = "remark" /\ UNCHANGED outcome /\ cur.recovering
                   /\ cur.tx \in Txs
              \/ pc = "undo_lock" /\ pc' = "give_up" /\ UNCHANGED outcome /\ cur.tx \in Txs
                   /\ cur.tx = clock /\ Started(cur.tx) /\ ~cur.recovering
              \/ pc = "un_lock" /\ pc' = "ready" /\ outcome' = "failed"
           /\ UNCHANGED <<payload, rec, backup, journal, lock, mem, loaded, cur, clock,
                          failures, promised, since, cost>>
<1>1. UNCHANGED <<payload, rec, backup, journal, lock, mem, loaded, cur, clock, failures,
                  promised, since, cost>>
  BY DEF LockTimeout, disk, history
<1>2. CASE pc = "lock"
  <2>1. TxTyped /\ ~cur.recovering /\ cur.tx = clock  BY <1>2, InOp, StepsByName
  <2> QED  BY <1>1, <1>2, <2>1 DEF LockTimeout, Goto, TxTyped
<1>3. CASE pc = "undo_lock"
  <2>1. TxTyped  BY <1>3, InTx, StepsByName DEF TxSteps
  <2> QED  BY <1>1, <1>3, <2>1 DEF LockTimeout, Goto, TxTyped
<1>4. CASE pc = "un_lock"
  BY <1>1, <1>4 DEF LockTimeout, Report
<1> QED  BY <1>2, <1>3, <1>4 DEF LockTimeout

\* What Backup does.
LEMMA BackupEffect ==
    ASSUME Shape, Backup
    PROVE  /\ pc = "backup" /\ Version \in Versions /\ Tx.op # "rollback"
           /\ cur.tx \in Txs /\ cur.tx = clock /\ Started(cur.tx) /\ ~cur.recovering
           /\ \/ payload[Version] = None /\ pc' = "activation_started" /\ UNCHANGED <<backup,
                                                                                      cur>>
              \/ /\ payload[Version] # None
                 /\ pc' = "name"
                 /\ backup'[cur.tx] = payload[Version]
                 /\ \A t \in Txs : t # cur.tx => backup'[t] = backup[t]
                 /\ cur'.backed /\ cur'.tx = cur.tx /\ ~cur'.recovering
                 /\ cur'.todo = cur.todo
           /\ backup' \in [Txs -> Contents]
           /\ cur' \in Locals
           /\ UNCHANGED <<payload, rec, journal, lock, mem, loaded, outcome, clock, failures,
                          promised, since, cost>>
<1>1. pc = "backup"  BY StepsByName DEF Backup
<1>2. TxTyped /\ ~cur.recovering /\ cur.tx = clock /\ pc \in OpSteps
  BY <1>1, InOp, StepsByName
<1>3. pc = "backup" /\ Version \in Versions /\ Tx.op # "rollback"
  BY <1>1, <1>2, InOp DEF Backup, TxTyped
<1>4. cur.tx \in Txs /\ cur.tx = clock /\ Started(cur.tx) /\ ~cur.recovering
  BY <1>1, <1>2 DEF TxTyped
<1>5. \/ payload[Version] = None /\ pc' = "activation_started" /\ UNCHANGED <<backup, cur>>
      \/ /\ payload[Version] # None
         /\ pc' = "name"
         /\ backup'[cur.tx] = payload[Version]
         /\ \A t \in Txs : t # cur.tx => backup'[t] = backup[t]
         /\ cur'.backed /\ cur'.tx = cur.tx /\ ~cur'.recovering /\ cur'.todo = cur.todo
  <2>1. backup \in [Txs -> Contents] /\ cur.tx \in Txs  BY <1>2 DEF Shape, TypeOK, TxTyped
  <2>2. CASE payload[Version] = None /\ Goto("activation_started") /\ UNCHANGED <<backup,
                                                                                  cur>>
    BY <2>2 DEF Goto
  <2>3. CASE /\ payload[Version] # None
             /\ backup' = [backup EXCEPT ![cur.tx] = payload[Version]]
             /\ cur' = [cur EXCEPT !.backed = TRUE]
             /\ Goto("name")
    BY <1>2, <2>1, <2>3 DEF Goto, TxTyped, Locals
  <2> QED  BY <2>2, <2>3 DEF Backup
<1>6. backup' \in [Txs -> Contents]
  BY <1>1, <1>2, BoundsAssumption
     DEF Backup, Goto, Report, disk, history, TxTyped, Shape, TypeOK, Contents, None, Partial
<1>7. cur' \in Locals
  BY <1>1, <1>2 DEF Backup, TxTyped, Locals
<1>8. UNCHANGED <<payload, rec, journal, lock, mem, loaded, outcome, clock, failures,
                  promised, since, cost>>
  BY <1>1, <1>2 DEF Backup, Goto, Report, disk, history
<1> QED  BY <1>3, <1>4, <1>5, <1>6, <1>7, <1>8

\* What NameBackup does.
LEMMA NameBackupEffect ==
    ASSUME Shape, NameBackup
    PROVE  /\ pc = "name" /\ pc' = "activation_started" /\ Tx.op # "rollback"
           /\ cur.tx \in Txs /\ cur.tx = clock /\ Started(cur.tx) /\ ~cur.recovering
           /\ journal' \in [Txs -> Journals]
           /\ \A t \in Txs : t # cur.tx => journal'[t] = journal[t]
           /\ journal'[cur.tx].state = Tx.state /\ journal'[cur.tx].backed = cur.backed
           /\ journal'[cur.tx].op = Tx.op /\ journal'[cur.tx].version = Version
           /\ journal'[cur.tx].prev = Tx.prev
           /\ UNCHANGED <<payload, rec, backup, lock, mem, loaded, cur, outcome, clock,
                          failures, promised, since, cost>>
<1>1. pc = "name"  BY StepsByName DEF NameBackup
<1>2. TxTyped /\ ~cur.recovering /\ cur.tx = clock /\ pc \in OpSteps
  BY <1>1, InOp, StepsByName
<1>3. WriteState(Tx.state)  BY DEF NameBackup
<1>4. pc = "name" /\ pc' = "activation_started" /\ Tx.op # "rollback"
  BY <1>1, <1>2, InstallAfter, RollbackAfter, InOp DEF NameBackup, Goto, Report, disk, history
<1>5. cur.tx \in Txs /\ cur.tx = clock /\ Started(cur.tx) /\ ~cur.recovering
  BY <1>1, <1>2 DEF TxTyped
<1>6. journal' \in [Txs -> Journals]
  BY <1>1, <1>2, <1>3, Written DEF TxTyped, Shape, Tx, Version
<1>7. \A t \in Txs : t # cur.tx => journal'[t] = journal[t]
  BY <1>1, <1>2, <1>3, Written DEF TxTyped, Shape, Tx, Version
<1>8. journal'[cur.tx].state = Tx.state /\ journal'[cur.tx].backed = cur.backed
  BY <1>1, <1>2, <1>3, Written DEF TxTyped, Shape, Tx, Version
<1>9. journal'[cur.tx].op = Tx.op /\ journal'[cur.tx].version = Version
        /\ journal'[cur.tx].prev = Tx.prev
  BY <1>1, <1>2, <1>3, Written DEF TxTyped, Shape, Tx, Version
<1>10. UNCHANGED <<payload, rec, backup, lock, mem, loaded, cur, outcome, clock, failures,
                   promised, since, cost>>
  BY <1>1, <1>2 DEF NameBackup, Goto, Report, disk, history
<1> QED  BY <1>4, <1>5, <1>6, <1>7, <1>8, <1>9, <1>10

\* What RemoveTarget does.
LEMMA RemoveTargetEffect ==
    ASSUME Shape, RemoveTarget
    PROVE  /\ pc = "remove" /\ pc' = "copy" /\ Tx.op # "rollback"
           /\ cur.tx \in Txs /\ cur.tx = clock /\ Started(cur.tx) /\ ~cur.recovering
           /\ Version \in Versions
           /\ mem' \in Records
           /\ mem'.versions = mem.versions \cup {Version}
           /\ mem'.hashes = mem.hashes
           /\ mem'.active = (IF mem = NoRec THEN Version ELSE mem.active)
           /\ payload' \in [Versions -> Contents]
           /\ \A v \in Versions \ {Version} : payload'[v] = payload[v]
           /\ UNCHANGED <<rec, backup, journal, lock, loaded, cur, outcome, clock, failures,
                          promised, since, cost>>
<1>1. pc = "remove"  BY StepsByName DEF RemoveTarget
<1>2. TxTyped /\ ~cur.recovering /\ cur.tx = clock /\ pc \in OpSteps
  BY <1>1, InOp, StepsByName
<1>3. pc = "remove" /\ pc' = "copy" /\ Tx.op # "rollback"
  BY <1>1, <1>2, InstallAfter, RollbackAfter, InOp
     DEF RemoveTarget, Goto, Report, disk, history
<1>4. cur.tx \in Txs /\ cur.tx = clock /\ Started(cur.tx) /\ ~cur.recovering
  BY <1>1, <1>2 DEF TxTyped
<1>5. Version \in Versions
  BY <1>1, <1>2 DEF RemoveTarget, Goto, Report, disk, history, TxTyped
<1>6. mem' \in Records
  BY <1>1, <1>2, MemNowIs DEF RemoveTarget
<1>7. mem'.versions = mem.versions \cup {Version}
  BY <1>1, <1>2, MemNowIs DEF RemoveTarget
<1>8. mem'.hashes = mem.hashes
  BY <1>1, <1>2, MemNowIs DEF RemoveTarget
<1>9. mem'.active = (IF mem = NoRec THEN Version ELSE mem.active)
  BY <1>1, <1>2, MemNowIs DEF RemoveTarget
<1>10. payload' \in [Versions -> Contents]
  BY <1>1, <1>2, BoundsAssumption
     DEF RemoveTarget, Goto, Report, disk, history, TxTyped, Shape, TypeOK, Contents, None,
         Partial, MemNow
<1>11. \A v \in Versions \ {Version} : payload'[v] = payload[v]
  BY <1>1, <1>2, BoundsAssumption
     DEF RemoveTarget, Goto, Report, disk, history, TxTyped, Shape, TypeOK, Contents, None,
         Partial, MemNow
<1>12. UNCHANGED <<rec, backup, journal, lock, loaded, cur, outcome, clock, failures,
                   promised, since, cost>>
  BY <1>1, <1>2 DEF RemoveTarget, Goto, Report, disk, history
<1> QED  BY <1>3, <1>4, <1>5, <1>6, <1>7, <1>8, <1>9, <1>10, <1>11, <1>12

\* What CopyTarget does.
LEMMA CopyTargetEffect ==
    ASSUME Shape, CopyTarget
    PROVE  /\ pc = "copy" /\ pc' = "record" /\ Tx.op # "rollback"
           /\ cur.tx \in Txs /\ cur.tx = clock /\ Started(cur.tx) /\ ~cur.recovering
           /\ Version \in Versions
           /\ payload' \in [Versions -> Contents]
           /\ payload'[Version] = cur.tx
           /\ \A v \in Versions \ {Version} : payload'[v] = payload[v]
           /\ UNCHANGED <<rec, backup, journal, lock, mem, loaded, cur, outcome, clock,
                          failures, promised, since, cost>>
<1>1. pc = "copy"  BY StepsByName DEF CopyTarget
<1>2. TxTyped /\ ~cur.recovering /\ cur.tx = clock /\ pc \in OpSteps
  BY <1>1, InOp, StepsByName
<1>3. pc = "copy" /\ pc' = "record" /\ Tx.op # "rollback"
  BY <1>1, <1>2, InstallAfter, RollbackAfter, InOp DEF CopyTarget, Goto, Report, disk, history
<1>4. cur.tx \in Txs /\ cur.tx = clock /\ Started(cur.tx) /\ ~cur.recovering
  BY <1>1, <1>2 DEF TxTyped
<1>5. Version \in Versions
  BY <1>1, <1>2 DEF CopyTarget, Goto, Report, disk, history, TxTyped
<1>6. payload' \in [Versions -> Contents]
  BY <1>1, <1>2, BoundsAssumption
     DEF CopyTarget, Goto, Report, disk, history, TxTyped, Shape, TypeOK, Contents, None,
         Partial
<1>7. payload'[Version] = cur.tx
  BY <1>1, <1>2, BoundsAssumption
     DEF CopyTarget, Goto, Report, disk, history, TxTyped, Shape, TypeOK, Contents, None,
         Partial
<1>8. \A v \in Versions \ {Version} : payload'[v] = payload[v]
  BY <1>1, <1>2, BoundsAssumption
     DEF CopyTarget, Goto, Report, disk, history, TxTyped, Shape, TypeOK, Contents, None,
         Partial
<1>9. UNCHANGED <<rec, backup, journal, lock, mem, loaded, cur, outcome, clock, failures,
                  promised, since, cost>>
  BY <1>1, <1>2 DEF CopyTarget, Goto, Report, disk, history
<1> QED  BY <1>3, <1>4, <1>5, <1>6, <1>7, <1>8, <1>9

\* What SaveRecord does.
LEMMA SaveRecordEffect ==
    ASSUME Shape, SaveRecord
    PROVE  /\ cur.tx \in Txs /\ cur.tx = clock /\ Started(cur.tx) /\ ~cur.recovering
           /\ Version \in Versions /\ mem' \in Records /\ rec' = mem'
           /\ mem'.versions = mem.versions
           /\ \/ /\ pc = "record" /\ pc' = "active" /\ Tx.op # "rollback"
                 /\ mem'.active = mem.active /\ mem'.hashes[Version] = payload[Version]
                 /\ \A v \in Versions \ {Version} : mem'.hashes[v] = mem.hashes[v]
              \/ /\ pc = "active" /\ pc' = "active_switched" /\ Version \in mem.versions
                 /\ mem'.active = Version /\ mem'.hashes = mem.hashes
           /\ UNCHANGED <<payload, backup, journal, lock, loaded, cur, outcome, clock,
                          failures, promised, since, cost>>
<1>1. pc \in {"record", "active"}  BY StepsByName DEF SaveRecord
<1>2. TxTyped /\ ~cur.recovering /\ cur.tx = clock /\ pc \in OpSteps
  BY <1>1, InOp, StepsByName
<1>3. cur.tx \in Txs /\ cur.tx = clock /\ Started(cur.tx) /\ ~cur.recovering
  BY <1>1, <1>2 DEF TxTyped
<1>4. Version \in Versions /\ mem' \in Records /\ rec' = mem' /\ mem'.versions = mem.versions
  BY <1>1, <1>2, MemNowIs DEF SaveRecord, TxTyped
<1>5. \/ /\ pc = "record" /\ pc' = "active" /\ Tx.op # "rollback"
         /\ mem'.active = mem.active /\ mem'.hashes[Version] = payload[Version]
         /\ \A v \in Versions \ {Version} : mem'.hashes[v] = mem.hashes[v]
      \/ /\ pc = "active" /\ pc' = "active_switched" /\ Version \in mem.versions
         /\ mem'.active = Version /\ mem'.hashes = mem.hashes
  BY <1>1, <1>2, MemNowIs, InstallAfter, RollbackAfter, InOp DEF SaveRecord, Goto
<1>6. UNCHANGED <<payload, backup, journal, lock, loaded, cur, outcome, clock, failures,
                  promised, since, cost>>
  BY <1>1, <1>2 DEF SaveRecord, Goto, Report, disk, history
<1> QED  BY <1>3, <1>4, <1>5, <1>6

\* What UnknownVersion does.
LEMMA UnknownVersionEffect ==
    ASSUME Shape, UnknownVersion
    PROVE  /\ pc = "active" /\ pc' = "fail"
           /\ cur.tx \in Txs /\ cur.tx = clock /\ Started(cur.tx) /\ ~cur.recovering
           /\ Version \notin mem.versions
           /\ lock' = "free"
           /\ UNCHANGED <<payload, rec, backup, journal, mem, loaded, cur, outcome, clock,
                          failures, promised, since, cost>>
<1>1. pc = "active"  BY StepsByName DEF UnknownVersion
<1>2. TxTyped /\ ~cur.recovering /\ cur.tx = clock /\ pc \in OpSteps
  BY <1>1, InOp, StepsByName
<1>3. pc = "active" /\ pc' = "fail"
  BY <1>1, <1>2, InstallAfter, RollbackAfter, InOp
     DEF UnknownVersion, Goto, Report, disk, history
<1>4. cur.tx \in Txs /\ cur.tx = clock /\ Started(cur.tx) /\ ~cur.recovering
  BY <1>1, <1>2 DEF TxTyped
<1>5. Version \notin mem.versions
  BY <1>1, <1>2 DEF UnknownVersion, Goto, Report, disk, history
<1>6. lock' = "free"
  BY <1>1, <1>2 DEF UnknownVersion, Goto, Report, disk, history
<1>7. UNCHANGED <<payload, rec, backup, journal, mem, loaded, cur, outcome, clock, failures,
                  promised, since, cost>>
  BY <1>1, <1>2 DEF UnknownVersion, Goto, Report, disk, history
<1> QED  BY <1>3, <1>4, <1>5, <1>6, <1>7

\* What Activate does.
LEMMA ActivateEffect ==
    ASSUME Shape, Activate
    PROVE  /\ pc = "activate" /\ pc' = "activated"
           /\ cur.tx \in Txs /\ cur.tx = clock /\ Started(cur.tx) /\ ~cur.recovering
           /\ loaded' = mem.active /\ loaded' \in 0..MaxVersion
           /\ UNCHANGED <<payload, rec, backup, journal, lock, mem, cur, outcome, clock,
                          failures, promised, since, cost>>
<1>1. pc = "activate"  BY StepsByName DEF Activate
<1>2. TxTyped /\ ~cur.recovering /\ cur.tx = clock /\ pc \in OpSteps
  BY <1>1, InOp, StepsByName
<1>3. pc = "activate" /\ pc' = "activated"
  BY <1>1, <1>2, InstallAfter, RollbackAfter, InOp DEF Activate, Goto, Report, disk, history
<1>4. cur.tx \in Txs /\ cur.tx = clock /\ Started(cur.tx) /\ ~cur.recovering
  BY <1>1, <1>2 DEF TxTyped
<1>5. loaded' = mem.active /\ loaded' \in 0..MaxVersion
  BY <1>1, <1>2, BoundsAssumption, RecordParts
     DEF Activate, Goto, Report, disk, history, TxTyped, Shape, TypeOK, Contents, None,
         Partial
<1>6. UNCHANGED <<payload, rec, backup, journal, lock, mem, cur, outcome, clock, failures,
                  promised, since, cost>>
  BY <1>1, <1>2 DEF Activate, Goto, Report, disk, history
<1> QED  BY <1>3, <1>4, <1>5, <1>6

\* What Unlock does.
LEMMA UnlockEffect ==
    ASSUME Shape, Unlock
    PROVE  /\ pc = "unlock" /\ pc' = "clean"
           /\ cur.tx \in Txs /\ cur.tx = clock /\ Started(cur.tx) /\ ~cur.recovering
           /\ lock' = "free"
           /\ UNCHANGED <<payload, rec, backup, journal, mem, loaded, cur, outcome, clock,
                          failures, promised, since, cost>>
<1>1. pc = "unlock"  BY StepsByName DEF Unlock
<1>2. TxTyped /\ ~cur.recovering /\ cur.tx = clock /\ pc \in OpSteps
  BY <1>1, InOp, StepsByName
<1>3. pc = "unlock" /\ pc' = "clean"
  BY <1>1, <1>2, InstallAfter, RollbackAfter, InOp DEF Unlock, Goto, Report, disk, history
<1>4. cur.tx \in Txs /\ cur.tx = clock /\ Started(cur.tx) /\ ~cur.recovering
  BY <1>1, <1>2 DEF TxTyped
<1>5. lock' = "free"
  BY <1>1, <1>2 DEF Unlock, Goto, Report, disk, history
<1>6. UNCHANGED <<payload, rec, backup, journal, mem, loaded, cur, outcome, clock, failures,
                  promised, since, cost>>
  BY <1>1, <1>2 DEF Unlock, Goto, Report, disk, history
<1> QED  BY <1>3, <1>4, <1>5, <1>6

\* What Clean does.
LEMMA CleanEffect ==
    ASSUME Shape, Clean
    PROVE  /\ pc = "clean" /\ pc' = "unlink"
           /\ cur.tx \in Txs /\ cur.tx = clock /\ Started(cur.tx) /\ ~cur.recovering
           /\ backup' \in [Txs -> Contents]
           /\ UNCHANGED <<payload, rec, journal, lock, mem, loaded, cur, outcome, clock,
                          failures, promised, since, cost>>
<1>1. pc = "clean"  BY StepsByName DEF Clean
<1>2. TxTyped /\ ~cur.recovering /\ cur.tx = clock /\ pc \in OpSteps
  BY <1>1, InOp, StepsByName
<1>3. pc = "clean" /\ pc' = "unlink"
  BY <1>1, <1>2, InstallAfter, RollbackAfter, InOp DEF Clean, Goto, Report, disk, history
<1>4. cur.tx \in Txs /\ cur.tx = clock /\ Started(cur.tx) /\ ~cur.recovering
  BY <1>1, <1>2 DEF TxTyped
<1>5. backup' \in [Txs -> Contents]
  BY <1>1, <1>2, BoundsAssumption
     DEF Clean, Goto, Report, disk, history, TxTyped, Shape, TypeOK, Contents, None, Partial
<1>6. UNCHANGED <<payload, rec, journal, lock, mem, loaded, cur, outcome, clock, failures,
                  promised, since, cost>>
  BY <1>1, <1>2 DEF Clean, Goto, Report, disk, history
<1> QED  BY <1>3, <1>4, <1>5, <1>6

\* What Finish does.
LEMMA FinishEffect ==
    ASSUME Shape, Finish
    PROVE  /\ pc = "unlink" /\ pc' = "ready"
           /\ cur.tx \in Txs /\ cur.tx = clock /\ Started(cur.tx) /\ ~cur.recovering
           /\ journal'[cur.tx] = NoJournal /\ journal' \in [Txs -> Journals]
           /\ \A t \in Txs : t # cur.tx => journal'[t] = journal[t]
           /\ outcome' \in Outcomes /\ promised' = rec /\ since' = cur.tx /\ cur' = NoCur
           /\ UNCHANGED <<payload, rec, backup, lock, mem, loaded, clock, failures, cost>>
<1>1. pc = "unlink"  BY StepsByName DEF Finish
<1>2. TxTyped /\ ~cur.recovering /\ cur.tx = clock /\ pc \in OpSteps
  BY <1>1, InOp, StepsByName
<1>3. pc = "unlink" /\ pc' = "ready"
  BY <1>1, <1>2, InstallAfter, RollbackAfter, InOp DEF Finish, Goto, Report, disk, history
<1>4. cur.tx \in Txs /\ cur.tx = clock /\ Started(cur.tx) /\ ~cur.recovering
  BY <1>1, <1>2 DEF TxTyped
<1>5. journal'[cur.tx] = NoJournal /\ journal' \in [Txs -> Journals]
  BY <1>1, <1>2, Written, Empties
     DEF Finish, Goto, Report, disk, history, TxTyped, Shape, TypeOK, Tx, Version, States
<1>6. \A t \in Txs : t # cur.tx => journal'[t] = journal[t]
  BY <1>1, <1>2, Written, Empties
     DEF Finish, Goto, Report, disk, history, TxTyped, Shape, TypeOK, Tx, Version, States
<1>7. outcome' \in Outcomes /\ promised' = rec /\ since' = cur.tx /\ cur' = NoCur
  BY <1>1, <1>2, Empties DEF Finish, Goto, Report, disk, history, Outcomes, Shape
<1>8. UNCHANGED <<payload, rec, backup, lock, mem, loaded, clock, failures, cost>>
  BY <1>1, <1>2 DEF Finish, Goto, Report, disk, history
<1> QED  BY <1>3, <1>4, <1>5, <1>6, <1>7, <1>8

\* What OpFault does.
LEMMA OpFaultEffect ==
    ASSUME Shape, OpFault
    PROVE  /\ pc \in OpSteps \ {"lock", "unlock"} /\ pc' = "fail"
           /\ cur.tx \in Txs /\ cur.tx = clock /\ Started(cur.tx) /\ ~cur.recovering
           /\ Version \in Versions
           /\ payload' \in [Versions -> Contents] /\ backup' \in [Txs -> Contents]
           /\ \A v \in Versions \ {Version} : payload'[v] = payload[v]
           /\ payload' = payload \/ pc \in {"remove", "copy"}
           /\ backup' = backup \/ pc \in {"backup", "clean"}
           /\ mem' \in Records /\ lock' \in {"free", "held", "fresh", "stale"}
           /\ failures' \in 0..MaxFailures /\ cost' \subseteq Costs /\ cost \subseteq cost'
           /\ pc \in {"clean", "unlink"} => "kept" \in cost'
           /\ pc \in {"activated", "committed", "clean", "unlink"} => "loaded" \in cost'
           /\ UNCHANGED <<rec, journal, loaded, cur, outcome, clock, promised, since>>
<1>1. pc \in OpSteps \ {"lock", "unlock"}  BY StepsByName DEF OpFault
<1>2. TxTyped /\ ~cur.recovering /\ cur.tx = clock /\ pc \in OpSteps
  BY <1>1, InOp, StepsByName
<1>3. pc \in OpSteps \ {"lock", "unlock"} /\ pc' = "fail"
  BY <1>1, <1>2, InstallAfter, RollbackAfter, InOp DEF OpFault, Goto, Report, disk, history
<1>4. cur.tx \in Txs /\ cur.tx = clock /\ Started(cur.tx) /\ ~cur.recovering
  BY <1>1, <1>2 DEF TxTyped
<1>5. Version \in Versions
  BY <1>1, <1>2 DEF OpFault, Goto, Report, disk, history, TxTyped
<1>6. payload' \in [Versions -> Contents] /\ backup' \in [Txs -> Contents]
  BY <1>1, <1>2, BoundsAssumption
     DEF OpFault, Goto, Report, disk, history, TxTyped, Shape, TypeOK, Contents, None,
         Partial, MemNow, Torn, FaultCosts, Costs, HasBackup, Spend
<1>7. \A v \in Versions \ {Version} : payload'[v] = payload[v]
  <2>1. /\ payload \in [Versions -> Contents] /\ backup \in [Txs -> Contents]
        /\ Version \in Versions /\ cur.tx \in Txs /\ pc # "un_remove"
    BY <1>1, <1>2, StepsByName DEF Shape, TypeOK, TxTyped
  <2> QED  BY <1>1, <2>1, StepsByName DEF OpFault, Torn
<1>8. payload' = payload \/ pc \in {"remove", "copy"}
  <2>1. /\ payload \in [Versions -> Contents] /\ backup \in [Txs -> Contents]
        /\ Version \in Versions /\ cur.tx \in Txs /\ pc # "un_remove"
    BY <1>1, <1>2, StepsByName DEF Shape, TypeOK, TxTyped
  <2> QED  BY <1>1, <2>1, StepsByName DEF OpFault, Torn
<1>9. backup' = backup \/ pc \in {"backup", "clean"}
  <2>1. /\ payload \in [Versions -> Contents] /\ backup \in [Txs -> Contents]
        /\ Version \in Versions /\ cur.tx \in Txs /\ pc # "un_remove"
    BY <1>1, <1>2, StepsByName DEF Shape, TypeOK, TxTyped
  <2> QED  BY <1>1, <2>1, StepsByName DEF OpFault, Torn
<1>10. mem' \in Records /\ lock' \in {"free", "held", "fresh", "stale"}
  BY <1>1, <1>2, MemNowIs DEF OpFault, Shape, TypeOK
<1>11. failures' \in 0..MaxFailures /\ cost' \subseteq Costs /\ cost \subseteq cost'
  BY <1>1, <1>2, BoundsAssumption
     DEF OpFault, Goto, Report, disk, history, CanFail, Shape, TypeOK, MemNow, Torn,
         FaultCosts, Costs, HasBackup, Spend
<1>12. pc \in {"clean", "unlink"} => "kept" \in cost'
  BY <1>1, <1>2, BoundsAssumption
     DEF OpFault, Goto, Report, disk, history, CanFail, Shape, TypeOK, MemNow, Torn,
         FaultCosts, Costs, HasBackup, Spend
<1>13. pc \in {"activated", "committed", "clean", "unlink"} => "loaded" \in cost'
  BY <1>1, <1>2, BoundsAssumption
     DEF OpFault, Goto, Report, disk, history, CanFail, Shape, TypeOK, MemNow, Torn,
         FaultCosts, Costs, HasBackup, Spend
<1>14. UNCHANGED <<rec, journal, loaded, cur, outcome, clock, promised, since>>
  BY <1>1, <1>2 DEF OpFault, Goto, Report, disk, history
<1> QED  BY <1>3, <1>4, <1>5, <1>6, <1>7, <1>8, <1>9, <1>10, <1>11, <1>12, <1>13, <1>14

\* What Fail does.
LEMMA FailEffect ==
    ASSUME Shape, Fail
    PROVE  /\ pc = "fail"
           /\ cur.tx \in Txs /\ cur.tx = clock /\ Started(cur.tx) /\ ~cur.recovering
           /\ failures' \in 0..MaxFailures
           /\ \/ /\ pc' = "undo_lock" /\ UNCHANGED <<cur, outcome>>
                 /\ journal' \in [Txs -> Journals]
                 /\ \A t \in Txs : t # cur.tx => journal'[t] = journal[t]
                 /\ journal'[cur.tx].state = "rollback_required"
                 /\ journal'[cur.tx].backed = cur.backed
                 /\ journal'[cur.tx].op = Tx.op /\ journal'[cur.tx].version = Version
                 /\ journal'[cur.tx].prev = Tx.prev
              \/ pc' = "ready" /\ outcome' = "failed" /\ cur' = NoCur /\ UNCHANGED journal
           /\ UNCHANGED <<payload, rec, backup, lock, mem, loaded, clock, promised, since,
                          cost>>
<1>1. pc = "fail"  BY StepsByName DEF Fail
<1>2. TxTyped /\ pc \in TxSteps
  BY <1>1, InTx, StepsByName DEF TxSteps, FinishSteps
<1>3. pc = "fail"
  BY <1>1, <1>2 DEF Fail, Goto, Report, disk, history
<1>4. cur.tx \in Txs /\ cur.tx = clock /\ Started(cur.tx) /\ ~cur.recovering
  BY <1>1, <1>2 DEF TxTyped, Shape, CurTyped, TxSteps, FinishSteps
<1>5. failures' \in 0..MaxFailures
  BY <1>1, <1>2, BoundsAssumption
     DEF Fail, Goto, Report, disk, history, CanFail, Shape, TypeOK
<1>6. \/ /\ pc' = "undo_lock" /\ UNCHANGED <<cur, outcome>>
         /\ journal' \in [Txs -> Journals]
         /\ \A t \in Txs : t # cur.tx => journal'[t] = journal[t]
         /\ journal'[cur.tx].state = "rollback_required"
         /\ journal'[cur.tx].backed = cur.backed
         /\ journal'[cur.tx].op = Tx.op /\ journal'[cur.tx].version = Version
         /\ journal'[cur.tx].prev = Tx.prev
      \/ pc' = "ready" /\ outcome' = "failed" /\ cur' = NoCur /\ UNCHANGED journal
  BY <1>1, <1>2, Written, Empties
     DEF Fail, Goto, Report, disk, history, TxTyped, Shape, TypeOK, Tx, Version, States,
         Outcomes
<1>7. UNCHANGED <<payload, rec, backup, lock, mem, loaded, clock, promised, since, cost>>
  BY <1>1, <1>2 DEF Fail, Goto, Report, disk, history
<1> QED  BY <1>3, <1>4, <1>5, <1>6, <1>7

\* What UndoRemove does.
LEMMA UndoRemoveEffect ==
    ASSUME Shape, UndoRemove
    PROVE  /\ pc = "undo_remove" /\ pc' = "undo_copy"
           /\ cur.tx \in Txs /\ Started(cur.tx) /\ (~cur.recovering => cur.tx = clock)
           /\ Version \in Versions
           /\ payload' \in [Versions -> Contents]
           /\ payload'[Version] = (IF UndoRemoves THEN None ELSE payload[Version])
           /\ \A v \in Versions \ {Version} : payload'[v] = payload[v]
           /\ cost' \subseteq Costs /\ cost \subseteq cost'
           /\ Tx.op = "rollback" => "kept" \in cost'
           /\ UNCHANGED <<rec, backup, journal, lock, mem, loaded, cur, outcome, clock,
                          failures, promised, since>>
<1>1. pc = "undo_remove"  BY StepsByName DEF UndoRemove
<1>2. TxTyped /\ pc \in TxSteps
  BY <1>1, InTx, StepsByName DEF TxSteps, FinishSteps
<1>3. pc = "undo_remove" /\ pc' = "undo_copy"
  BY <1>1, <1>2, UndoAfter DEF UndoRemove, Goto, Report, disk, history
<1>4. cur.tx \in Txs /\ Started(cur.tx) /\ (~cur.recovering => cur.tx = clock)
  BY <1>1, <1>2 DEF TxTyped, Shape, CurTyped, TxSteps, FinishSteps
<1>5. Version \in Versions
  BY <1>1, <1>2 DEF UndoRemove, Goto, Report, disk, history, TxTyped
<1>6. payload' \in [Versions -> Contents]
  BY <1>1, <1>2, BoundsAssumption
     DEF UndoRemove, Goto, Report, disk, history, TxTyped, Shape, TypeOK, Contents, None,
         Partial, UndoCosts, Costs, Spend
<1>7. payload'[Version] = (IF UndoRemoves THEN None ELSE payload[Version])
  BY <1>1, <1>2, BoundsAssumption
     DEF UndoRemove, Goto, Report, disk, history, TxTyped, Shape, TypeOK, Contents, None,
         Partial, UndoCosts, Costs, Spend
<1>8. \A v \in Versions \ {Version} : payload'[v] = payload[v]
  BY <1>1, <1>2, BoundsAssumption
     DEF UndoRemove, Goto, Report, disk, history, TxTyped, Shape, TypeOK, Contents, None,
         Partial, UndoCosts, Costs, Spend
<1>9. cost' \subseteq Costs /\ cost \subseteq cost'
  BY <1>1, <1>2, BoundsAssumption
     DEF UndoRemove, Goto, Report, disk, history, CanFail, Shape, TypeOK, UndoCosts, Costs,
         Spend
<1>10. Tx.op = "rollback" => "kept" \in cost'
  BY <1>1, <1>2, BoundsAssumption
     DEF UndoRemove, Goto, Report, disk, history, CanFail, Shape, TypeOK, UndoCosts, Costs,
         Spend
<1>11. UNCHANGED <<rec, backup, journal, lock, mem, loaded, cur, outcome, clock, failures,
                   promised, since>>
  BY <1>1, <1>2 DEF UndoRemove, Goto, Report, disk, history
<1> QED  BY <1>3, <1>4, <1>5, <1>6, <1>7, <1>8, <1>9, <1>10, <1>11

\* What UndoCopy does.
LEMMA UndoCopyEffect ==
    ASSUME Shape, UndoCopy
    PROVE  /\ pc = "undo_copy" /\ pc' = "undo_record"
           /\ cur.tx \in Txs /\ Started(cur.tx) /\ (~cur.recovering => cur.tx = clock)
           /\ Version \in Versions
           /\ payload' \in [Versions -> Contents]
           /\ payload'[Version] = (IF HasBackup THEN backup[cur.tx] ELSE payload[Version])
           /\ \A v \in Versions \ {Version} : payload'[v] = payload[v]
           /\ UNCHANGED <<rec, backup, journal, lock, mem, loaded, cur, outcome, clock,
                          failures, promised, since, cost>>
<1>1. pc = "undo_copy"  BY StepsByName DEF UndoCopy
<1>2. TxTyped /\ pc \in TxSteps
  BY <1>1, InTx, StepsByName DEF TxSteps, FinishSteps
<1>3. pc = "undo_copy" /\ pc' = "undo_record"
  BY <1>1, <1>2, UndoAfter DEF UndoCopy, Goto, Report, disk, history
<1>4. cur.tx \in Txs /\ Started(cur.tx) /\ (~cur.recovering => cur.tx = clock)
  BY <1>1, <1>2 DEF TxTyped, Shape, CurTyped, TxSteps, FinishSteps
<1>5. Version \in Versions
  BY <1>1, <1>2 DEF UndoCopy, Goto, Report, disk, history, TxTyped
<1>6. payload' \in [Versions -> Contents]
  BY <1>1, <1>2, BoundsAssumption
     DEF UndoCopy, Goto, Report, disk, history, TxTyped, Shape, TypeOK, Contents, None,
         Partial
<1>7. payload'[Version] = (IF HasBackup THEN backup[cur.tx] ELSE payload[Version])
  BY <1>1, <1>2, BoundsAssumption
     DEF UndoCopy, Goto, Report, disk, history, TxTyped, Shape, TypeOK, Contents, None,
         Partial
<1>8. \A v \in Versions \ {Version} : payload'[v] = payload[v]
  BY <1>1, <1>2, BoundsAssumption
     DEF UndoCopy, Goto, Report, disk, history, TxTyped, Shape, TypeOK, Contents, None,
         Partial
<1>9. UNCHANGED <<rec, backup, journal, lock, mem, loaded, cur, outcome, clock, failures,
                  promised, since, cost>>
  BY <1>1, <1>2 DEF UndoCopy, Goto, Report, disk, history
<1> QED  BY <1>3, <1>4, <1>5, <1>6, <1>7, <1>8, <1>9

\* What UndoRecord does.
LEMMA UndoRecordEffect ==
    ASSUME Shape, UndoRecord
    PROVE  /\ pc = "undo_record" /\ pc' = "undo_mark"
           /\ cur.tx \in Txs /\ Started(cur.tx) /\ (~cur.recovering => cur.tx = clock)
           /\ mem' = Tx.prev /\ rec' = Tx.prev /\ Tx.prev \in Records
           /\ UNCHANGED <<payload, backup, journal, lock, loaded, cur, outcome, clock,
                          failures, promised, since, cost>>
<1>1. pc = "undo_record"  BY StepsByName DEF UndoRecord
<1>2. TxTyped /\ pc \in TxSteps
  BY <1>1, InTx, StepsByName DEF TxSteps, FinishSteps
<1>3. pc = "undo_record" /\ pc' = "undo_mark"
  BY <1>1, <1>2, UndoAfter DEF UndoRecord, Goto, Report, disk, history
<1>4. cur.tx \in Txs /\ Started(cur.tx) /\ (~cur.recovering => cur.tx = clock)
  BY <1>1, <1>2, MemNowIs DEF UndoRecord, TxTyped
<1>5. mem' = Tx.prev /\ rec' = Tx.prev /\ Tx.prev \in Records
  BY <1>1, <1>2, BoundsAssumption, RecordParts
     DEF UndoRecord, Goto, Report, disk, history, TxTyped, Shape, TypeOK, Contents, None,
         Partial, MemNow
<1>6. UNCHANGED <<payload, backup, journal, lock, loaded, cur, outcome, clock, failures,
                  promised, since, cost>>
  BY <1>1, <1>2 DEF UndoRecord, Goto, Report, disk, history
<1> QED  BY <1>3, <1>4, <1>5, <1>6

\* What UndoMark does.
LEMMA UndoMarkEffect ==
    ASSUME Shape, UndoMark
    PROVE  /\ pc = "undo_mark" /\ pc' = "undo_unlock"
           /\ cur.tx \in Txs /\ Started(cur.tx) /\ (~cur.recovering => cur.tx = clock)
           /\ journal' \in [Txs -> Journals]
           /\ \A t \in Txs : t # cur.tx => journal'[t] = journal[t]
           /\ journal'[cur.tx].state = "rolled_back" /\ journal'[cur.tx].backed = cur.backed
           /\ journal'[cur.tx].op = Tx.op /\ journal'[cur.tx].version = Version
           /\ journal'[cur.tx].prev = Tx.prev
           /\ UNCHANGED <<payload, rec, backup, lock, mem, loaded, cur, outcome, clock,
                          failures, promised, since, cost>>
<1>1. pc = "undo_mark"  BY StepsByName DEF UndoMark
<1>2. TxTyped /\ pc \in TxSteps
  BY <1>1, InTx, StepsByName DEF TxSteps, FinishSteps
<1>3. WriteState("rolled_back")  BY DEF UndoMark
<1>4. pc = "undo_mark" /\ pc' = "undo_unlock"
  BY <1>1, <1>2, UndoAfter DEF UndoMark, Goto, Report, disk, history
<1>5. cur.tx \in Txs /\ Started(cur.tx) /\ (~cur.recovering => cur.tx = clock)
  BY <1>1, <1>2 DEF TxTyped, Shape, CurTyped, TxSteps, FinishSteps
<1>6. journal' \in [Txs -> Journals]
  BY <1>1, <1>2, <1>3, Written DEF TxTyped, Shape, Tx, Version, States
<1>7. \A t \in Txs : t # cur.tx => journal'[t] = journal[t]
  BY <1>1, <1>2, <1>3, Written DEF TxTyped, Shape, Tx, Version, States
<1>8. journal'[cur.tx].state = "rolled_back" /\ journal'[cur.tx].backed = cur.backed
  BY <1>1, <1>2, <1>3, Written DEF TxTyped, Shape, Tx, Version, States
<1>9. journal'[cur.tx].op = Tx.op /\ journal'[cur.tx].version = Version
        /\ journal'[cur.tx].prev = Tx.prev
  BY <1>1, <1>2, <1>3, Written DEF TxTyped, Shape, Tx, Version, States
<1>10. UNCHANGED <<payload, rec, backup, lock, mem, loaded, cur, outcome, clock, failures,
                   promised, since, cost>>
  BY <1>1, <1>2 DEF UndoMark, Goto, Report, disk, history
<1> QED  BY <1>4, <1>5, <1>6, <1>7, <1>8, <1>9, <1>10

\* What UndoUnlock does.
LEMMA UndoUnlockEffect ==
    ASSUME Shape, UndoUnlock
    PROVE  /\ pc = "undo_unlock"
           /\ pc' = (IF cur.recovering THEN "recover" ELSE "undo_clean")
           /\ cur.tx \in Txs /\ Started(cur.tx) /\ (~cur.recovering => cur.tx = clock)
           /\ lock' = "free"
           /\ UNCHANGED <<payload, rec, backup, journal, mem, loaded, cur, outcome, clock,
                          failures, promised, since, cost>>
<1>1. pc = "undo_unlock"  BY StepsByName DEF UndoUnlock
<1>2. TxTyped /\ pc \in TxSteps
  BY <1>1, InTx, StepsByName DEF TxSteps, FinishSteps
<1>3. pc = "undo_unlock"
  BY <1>1, <1>2 DEF UndoUnlock, Goto, Report, disk, history
<1>4. pc' = (IF cur.recovering THEN "recover" ELSE "undo_clean")
  BY <1>1, <1>2, UndoAfter DEF UndoUnlock, Goto, Report, disk, history
<1>5. cur.tx \in Txs /\ Started(cur.tx) /\ (~cur.recovering => cur.tx = clock)
  BY <1>1, <1>2 DEF TxTyped, Shape, CurTyped, TxSteps, FinishSteps
<1>6. lock' = "free"
  BY <1>1, <1>2 DEF UndoUnlock, Goto, Report, disk, history
<1>7. UNCHANGED <<payload, rec, backup, journal, mem, loaded, cur, outcome, clock, failures,
                  promised, since, cost>>
  BY <1>1, <1>2 DEF UndoUnlock, Goto, Report, disk, history
<1> QED  BY <1>3, <1>4, <1>5, <1>6, <1>7

\* What UndoClean does.
LEMMA UndoCleanEffect ==
    ASSUME Shape, UndoClean
    PROVE  /\ pc = "undo_clean" /\ pc' = "ready"
           /\ cur.tx \in Txs /\ Started(cur.tx) /\ (~cur.recovering => cur.tx = clock)
           /\ ~cur.recovering
           /\ backup' \in [Txs -> Contents]
           /\ \A t \in Txs : t # cur.tx => backup'[t] = backup[t]
           /\ outcome' = "failed" /\ cur' = NoCur
           /\ UNCHANGED <<payload, rec, journal, lock, mem, loaded, clock, failures, promised,
                          since, cost>>
<1>1. pc = "undo_clean"  BY StepsByName DEF UndoClean
<1>2. TxTyped /\ pc \in TxSteps
  BY <1>1, InTx, StepsByName DEF TxSteps, FinishSteps
<1>3. pc = "undo_clean" /\ pc' = "ready"
  BY <1>1, <1>2 DEF UndoClean, Goto, Report, disk, history
<1>4. cur.tx \in Txs /\ Started(cur.tx) /\ (~cur.recovering => cur.tx = clock)
  BY <1>1, <1>2 DEF TxTyped, Shape, CurTyped, TxSteps, FinishSteps
<1>5. ~cur.recovering
  BY <1>1, <1>2
     DEF UndoClean, Goto, Report, disk, history, Shape, CurTyped, TxSteps, FinishSteps
<1>6. backup' \in [Txs -> Contents]
  BY <1>1, <1>2, BoundsAssumption
     DEF UndoClean, Goto, Report, disk, history, TxTyped, Shape, TypeOK, Contents, None,
         Partial
<1>7. \A t \in Txs : t # cur.tx => backup'[t] = backup[t]
  BY <1>1, <1>2, BoundsAssumption
     DEF UndoClean, Goto, Report, disk, history, TxTyped, Shape, TypeOK, Contents, None,
         Partial
<1>8. outcome' = "failed" /\ cur' = NoCur
  BY <1>1, <1>2, Empties DEF UndoClean, Goto, Report, disk, history, Outcomes, Shape
<1>9. UNCHANGED <<payload, rec, journal, lock, mem, loaded, clock, failures, promised, since,
                  cost>>
  BY <1>1, <1>2 DEF UndoClean, Goto, Report, disk, history
<1> QED  BY <1>3, <1>4, <1>5, <1>6, <1>7, <1>8, <1>9

\* What UndoFault does.
LEMMA UndoFaultEffect ==
    ASSUME Shape, UndoFault
    PROVE  /\ pc \in {"undo_remove", "undo_copy", "undo_record", "undo_mark", "undo_clean"}
           /\ pc' = (IF cur.recovering THEN "remark" ELSE "give_up")
           /\ cur.tx \in Txs /\ Started(cur.tx) /\ (~cur.recovering => cur.tx = clock)
           /\ Version \in Versions
           /\ payload' \in [Versions -> Contents] /\ backup' \in [Txs -> Contents]
           /\ \A v \in Versions \ {Version} : payload'[v] = payload[v]
           /\ payload' = payload \/ (pc = "undo_remove" /\ UndoRemoves)
                \/ (pc = "undo_copy" /\ HasBackup)
           /\ backup' = backup \/ pc = "undo_clean"
           /\ mem' \in Records /\ lock' \in {"free", "held", "fresh", "stale"}
           /\ failures' \in 0..MaxFailures /\ cost' \subseteq Costs /\ cost \subseteq cost'
           /\ pc = "undo_clean" => "kept" \in cost' /\ mem' = mem
           /\ UNCHANGED <<rec, journal, loaded, cur, outcome, clock, promised, since>>
<1>1. pc \in {"undo_remove", "undo_copy", "undo_record", "undo_mark", "undo_clean"}
  BY StepsByName DEF UndoFault
<1>2. TxTyped /\ pc \in TxSteps
  BY <1>1, InTx, StepsByName DEF TxSteps, FinishSteps
<1>3. pc \in {"undo_remove", "undo_copy", "undo_record", "undo_mark", "undo_clean"}
  BY <1>1, <1>2 DEF UndoFault, Goto, Report, disk, history
<1>4. pc' = (IF cur.recovering THEN "remark" ELSE "give_up")
  BY <1>1, <1>2 DEF UndoFault, Goto, Report, disk, history
<1>5. cur.tx \in Txs /\ Started(cur.tx) /\ (~cur.recovering => cur.tx = clock)
  BY <1>1, <1>2 DEF TxTyped, Shape, CurTyped, TxSteps, FinishSteps
<1>6. Version \in Versions
  BY <1>1, <1>2 DEF UndoFault, Goto, Report, disk, history, TxTyped
<1>7. payload' \in [Versions -> Contents] /\ backup' \in [Txs -> Contents]
  BY <1>1, <1>2, BoundsAssumption
     DEF UndoFault, Goto, Report, disk, history, TxTyped, Shape, TypeOK, Contents, None,
         Partial, MemNow, Torn, FaultCosts, Costs, HasBackup, Spend
<1>8. \A v \in Versions \ {Version} : payload'[v] = payload[v]
  BY <1>1, <1>2, BoundsAssumption
     DEF UndoFault, Goto, Report, disk, history, TxTyped, Shape, TypeOK, Contents, None,
         Partial, MemNow, Torn, FaultCosts, Costs, HasBackup, Spend
<1>9. payload' = payload \/ (pc = "undo_remove" /\ UndoRemoves)
        \/ (pc = "undo_copy" /\ HasBackup)
  BY <1>1, <1>2, BoundsAssumption
     DEF UndoFault, Goto, Report, disk, history, TxTyped, Shape, TypeOK, Contents, None,
         Partial, MemNow, Torn, FaultCosts, Costs, HasBackup, Spend
<1>10. backup' = backup \/ pc = "undo_clean"
  BY <1>1, <1>2, BoundsAssumption
     DEF UndoFault, Goto, Report, disk, history, TxTyped, Shape, TypeOK, Contents, None,
         Partial, MemNow, Torn, FaultCosts, Costs, HasBackup, Spend
<1>11. mem' \in Records /\ lock' \in {"free", "held", "fresh", "stale"}
  BY <1>1, <1>2, MemNowIs DEF UndoFault, Shape, TypeOK
<1>12. failures' \in 0..MaxFailures /\ cost' \subseteq Costs /\ cost \subseteq cost'
  BY <1>1, <1>2, BoundsAssumption
     DEF UndoFault, Goto, Report, disk, history, CanFail, Shape, TypeOK, MemNow, Torn,
         FaultCosts, Costs, HasBackup, Spend
<1>13. pc = "undo_clean" => "kept" \in cost' /\ mem' = mem
  BY <1>1, <1>2, BoundsAssumption
     DEF UndoFault, Goto, Report, disk, history, CanFail, Shape, TypeOK, MemNow, Torn,
         FaultCosts, Costs, HasBackup, Spend
<1>14. UNCHANGED <<rec, journal, loaded, cur, outcome, clock, promised, since>>
  BY <1>1, <1>2 DEF UndoFault, Goto, Report, disk, history
<1> QED  BY <1>3, <1>4, <1>5, <1>6, <1>7, <1>8, <1>9, <1>10, <1>11, <1>12, <1>13, <1>14

\* What GiveUp does.
LEMMA GiveUpEffect ==
    ASSUME Shape, GiveUp
    PROVE  /\ pc = "give_up" /\ pc' = "ready"
           /\ cur.tx \in Txs /\ cur.tx = clock /\ ~cur.recovering /\ Started(cur.tx)
           /\ failures' \in 0..MaxFailures
           /\ outcome' = "failed" /\ cur' = NoCur
           /\ \/ /\ journal' \in [Txs -> Journals]
                 /\ \A t \in Txs : t # cur.tx => journal'[t] = journal[t]
                 /\ journal'[cur.tx].state = "rollback_required"
                 /\ journal'[cur.tx].backed = cur.backed
                 /\ journal'[cur.tx].op = Tx.op /\ journal'[cur.tx].version = Version
                 /\ journal'[cur.tx].prev = Tx.prev
              \/ UNCHANGED journal
           /\ UNCHANGED <<payload, rec, backup, lock, mem, loaded, clock, promised, since,
                          cost>>
<1>1. pc = "give_up"  BY StepsByName DEF GiveUp
<1>2. TxTyped /\ pc \in TxSteps
  BY <1>1, InTx, StepsByName DEF TxSteps, FinishSteps
<1>3. pc = "give_up" /\ pc' = "ready"
  BY <1>1, <1>2 DEF GiveUp, Goto, Report, disk, history
<1>4. cur.tx \in Txs /\ cur.tx = clock /\ ~cur.recovering /\ Started(cur.tx)
  BY <1>1, <1>2 DEF TxTyped, Shape, CurTyped, TxSteps, FinishSteps
<1>5. failures' \in 0..MaxFailures
  BY <1>1, <1>2, BoundsAssumption
     DEF GiveUp, Goto, Report, disk, history, CanFail, Shape, TypeOK
<1>6. outcome' = "failed" /\ cur' = NoCur
  BY <1>1, <1>2, Empties DEF GiveUp, Goto, Report, disk, history, Outcomes, Shape
<1>7. \/ /\ journal' \in [Txs -> Journals]
         /\ \A t \in Txs : t # cur.tx => journal'[t] = journal[t]
         /\ journal'[cur.tx].state = "rollback_required"
         /\ journal'[cur.tx].backed = cur.backed
         /\ journal'[cur.tx].op = Tx.op /\ journal'[cur.tx].version = Version
         /\ journal'[cur.tx].prev = Tx.prev
      \/ UNCHANGED journal
  BY <1>1, <1>2, Written, Empties
     DEF GiveUp, Goto, Report, disk, history, TxTyped, Shape, TypeOK, Tx, Version, States
<1>8. UNCHANGED <<payload, rec, backup, lock, mem, loaded, clock, promised, since, cost>>
  BY <1>1, <1>2 DEF GiveUp, Goto, Report, disk, history
<1> QED  BY <1>3, <1>4, <1>5, <1>6, <1>7, <1>8

\* What Uninstall does.
LEMMA UninstallEffect ==
    ASSUME Shape, Uninstall
    PROVE  /\ pc = "ready" /\ pc' = "un_lock"
           /\ clock' = clock + 1 /\ clock' \in Txs
           /\ outcome' = "none"
           /\ cost' \subseteq Costs /\ cost \subseteq cost'
                /\ ("kept" \notin cost' => NonePending)
           /\ UNCHANGED <<payload, rec, backup, journal, lock, mem, loaded, cur, failures,
                          promised, since>>
<1>1. clock \in 0..MaxTx /\ cost \subseteq Costs  BY DEF Shape, TypeOK
<1>2. clock' = clock + 1 /\ clock < MaxTx  BY DEF Uninstall
<1>3. clock' \in Txs  BY <1>1, <1>2, BoundsAssumption DEF Txs
<1>4. cost' \subseteq Costs /\ cost \subseteq cost' /\ ("kept" \notin cost' => NonePending)
  BY <1>1 DEF Uninstall, Spend, BeginCosts, NonePending, Costs
<1> QED  BY <1>2, <1>3, <1>4 DEF Uninstall, disk

\* What RemovePayloads does.
LEMMA RemovePayloadsEffect ==
    ASSUME Shape, RemovePayloads
    PROVE  /\ pc = "un_remove" /\ pc' = "un_save"
           /\ mem' = NoRec
           /\ payload' \in [Versions -> Contents] /\ \A v \in Versions : payload'[v] = None
           /\ UNCHANGED <<rec, backup, journal, lock, loaded, cur, outcome, clock, failures,
                          promised, since, cost>>
<1>1. pc = "un_remove"  BY DEF RemovePayloads
<1>2. mem' = NoRec  BY <1>1 DEF RemovePayloads, MemNow
<1>3. payload' \in [Versions -> Contents] /\ \A v \in Versions : payload'[v] = None
  BY BoundsAssumption DEF RemovePayloads, Contents, None
<1> QED  BY <1>1, <1>2, <1>3 DEF RemovePayloads, Goto, history

\* What SaveRemoval does.
LEMMA SaveRemovalEffect ==
    ASSUME Shape, SaveRemoval
    PROVE  /\ pc = "un_save" /\ pc' = "ready"
           /\ rec' = mem /\ promised' = NoRec /\ since' = clock
           /\ lock' = "free" /\ outcome' = "removed"
           /\ UNCHANGED <<payload, backup, journal, mem, loaded, cur, clock, failures, cost>>
  BY DEF SaveRemoval, Report

\* What UninstallFault does.
LEMMA UninstallFaultEffect ==
    ASSUME Shape, UninstallFault
    PROVE  /\ pc \in {"un_remove", "un_save"} /\ pc' = "ready"
           /\ payload' \in [Versions -> Contents] /\ backup' \in [Txs -> Contents]
           /\ mem' = (IF pc = "un_remove" THEN NoRec ELSE mem)
           /\ lock' \in {"free", "held", "fresh", "stale"}
           /\ failures' \in 0..MaxFailures /\ cost' \subseteq Costs /\ cost \subseteq cost'
           /\ "kept" \in cost'
           /\ outcome' = "failed"
           /\ UNCHANGED <<rec, journal, loaded, cur, clock, promised, since>>
<1>1. pc \in {"un_remove", "un_save"}  BY DEF UninstallFault
<1>2. cur.tx = 0 /\ payload \in [Versions -> Contents] /\ backup \in [Txs -> Contents]
  BY <1>1 DEF Shape, TypeOK, CurTyped, AtRest, RemoveSteps
<1>3. payload' \in [Versions -> Contents] /\ backup' \in [Txs -> Contents]
  <2>1. CASE UNCHANGED <<payload, backup>>
    BY <1>2, <2>1
  <2>2. CASE UNCHANGED backup /\ \E S \in SUBSET Versions :
                payload' = [v \in Versions |-> IF v \in S THEN Partial ELSE None]
    BY <1>2, <2>2, BoundsAssumption DEF Contents, Partial, None
  <2>3. Torn  BY DEF UninstallFault
  <2>4. \/ UNCHANGED <<payload, backup>>
        \/ UNCHANGED backup /\ \E S \in SUBSET Versions :
                payload' = [v \in Versions |-> IF v \in S THEN Partial ELSE None]
    BY <1>1, <2>3 DEF Torn
  <2> QED  BY <2>1, <2>2, <2>4
<1>4. mem' = IF pc = "un_remove" THEN NoRec ELSE mem  BY <1>1 DEF UninstallFault, MemNow
<1>5. failures' \in 0..MaxFailures /\ cost' \subseteq Costs /\ cost \subseteq cost'
        /\ "kept" \in cost'
  BY <1>1, BoundsAssumption
     DEF UninstallFault, CanFail, Spend, FaultCosts, Costs, Shape, TypeOK
<1>6. lock' \in {"free", "held", "fresh", "stale"}  BY DEF UninstallFault, Shape, TypeOK
<1> QED  BY <1>1, <1>3, <1>4, <1>5, <1>6 DEF UninstallFault, Report

\* What Crash does.
LEMMA CrashEffect ==
    ASSUME Shape, Crash
    PROVE  /\ pc \notin {"down", "ready"} /\ pc' = "down"
           /\ payload' \in [Versions -> Contents] /\ backup' \in [Txs -> Contents]
           /\ payload' = payload
                \/ pc \in {"remove", "copy", "undo_remove", "undo_copy", "un_remove"}
           /\ pc \in TxSteps => \A v \in Versions \ {Version} : payload'[v] = payload[v]
           /\ pc = "undo_remove" => payload' = payload \/ UndoRemoves
           /\ pc = "undo_copy" => payload' = payload \/ HasBackup
           /\ backup' = backup
                \/ pc \in {"backup", "clean", "undo_clean", "finish_clean", "settle_clean"}
           /\ \A t \in Txs : t # cur.tx => backup'[t] = backup[t]
           /\ cur' = NoCur /\ mem' = NoRec /\ loaded' = None
           /\ lock' \in {"free", "held", "fresh", "stale"} /\ outcome' \in Outcomes
           /\ failures' \in 0..MaxFailures /\ cost' \subseteq Costs /\ cost \subseteq cost'
           /\ pc \in {"un_remove", "un_save"} => "kept" \in cost'
           /\ UNCHANGED <<rec, journal, clock, promised, since>>
<1>1. pc \notin {"down", "ready"} /\ pc' = "down" /\ Torn  BY DEF Crash
<1>2. /\ payload \in [Versions -> Contents] /\ backup \in [Txs -> Contents]
      /\ None \in Contents /\ Partial \in Contents
  BY BoundsAssumption DEF Shape, TypeOK, Contents, None, Partial
<1>3. pc \in {"remove", "copy", "undo_remove", "undo_copy", "backup", "clean", "undo_clean",
        "finish_clean", "settle_clean"}
        => pc \in TxSteps
  BY StepsByName DEF TxSteps, FinishSteps
<1>4. pc \in TxSteps => cur.tx \in Txs /\ Version \in Versions  BY InTx DEF TxTyped
<1>5. pc = "un_remove" => pc \notin TxSteps  BY StepsByName DEF TxSteps, FinishSteps
<1>6. \/ UNCHANGED <<payload, backup>>
      \/ /\ pc \in {"remove", "copy", "undo_remove", "undo_copy"}
         /\ pc = "undo_remove" => UndoRemoves
         /\ pc = "undo_copy" => HasBackup
         /\ payload' = [payload EXCEPT ![Version] = Partial]
         /\ UNCHANGED backup
      \/ /\ pc \in {"backup", "clean", "undo_clean", "finish_clean", "settle_clean"}
         /\ backup' = [backup EXCEPT ![cur.tx] = Partial]
         /\ UNCHANGED payload
      \/ /\ pc = "un_remove"
         /\ UNCHANGED backup
         /\ \E S \in SUBSET Versions :
                payload' = [v \in Versions |-> IF v \in S THEN Partial ELSE None]
  BY <1>1 DEF Torn
<1>7. /\ payload' \in [Versions -> Contents] /\ backup' \in [Txs -> Contents]
      /\ payload' = payload
           \/ pc \in {"remove", "copy", "undo_remove", "undo_copy", "un_remove"}
      /\ pc \in TxSteps => \A v \in Versions \ {Version} : payload'[v] = payload[v]
      /\ pc = "undo_remove" => payload' = payload \/ UndoRemoves
      /\ pc = "undo_copy" => payload' = payload \/ HasBackup
      /\ backup' = backup
           \/ pc \in {"backup", "clean", "undo_clean", "finish_clean", "settle_clean"}
      /\ \A t \in Txs : t # cur.tx => backup'[t] = backup[t]
  <2>1. CASE UNCHANGED <<payload, backup>>
    BY <1>2, <2>1
  <2>2. CASE /\ pc \in {"remove", "copy", "undo_remove", "undo_copy"}
             /\ pc = "undo_remove" => UndoRemoves
             /\ pc = "undo_copy" => HasBackup
             /\ payload' = [payload EXCEPT ![Version] = Partial]
             /\ UNCHANGED backup
    BY <1>2, <1>3, <1>4, <2>2
  <2>3. CASE /\ pc \in {"backup", "clean", "undo_clean", "finish_clean", "settle_clean"}
             /\ backup' = [backup EXCEPT ![cur.tx] = Partial]
             /\ UNCHANGED payload
    BY <1>2, <1>3, <1>4, <2>3
  <2>4. CASE /\ pc = "un_remove"
             /\ UNCHANGED backup
             /\ \E S \in SUBSET Versions :
                    payload' = [v \in Versions |-> IF v \in S THEN Partial ELSE None]
    BY <1>2, <1>5, <2>4
  <2> QED  BY <1>6, <2>1, <2>2, <2>3, <2>4
<1>8. /\ cur' = NoCur /\ mem' = NoRec /\ loaded' = None /\ outcome' \in Outcomes
      /\ lock' \in {"free", "held", "fresh", "stale"}
  BY DEF Crash, Outcomes, Shape, TypeOK
<1>9. /\ failures' \in 0..MaxFailures /\ cost' \subseteq Costs /\ cost \subseteq cost'
      /\ pc \in {"un_remove", "un_save"} => "kept" \in cost'
  BY BoundsAssumption DEF Crash, CanFail, Spend, CrashCosts, Costs, Shape, TypeOK
<1>10. UNCHANGED <<rec, journal, clock, promised, since>>
  BY DEF Crash
<1> QED  BY <1>1, <1>7, <1>8, <1>9, <1>10

\* What Exit does.
LEMMA ExitEffect ==
    ASSUME Shape, Exit
    PROVE  /\ pc = "ready" /\ pc' = "down"
           /\ mem' = NoRec /\ loaded' = None
           /\ UNCHANGED <<payload, rec, backup, journal, lock, cur, outcome, clock, failures,
                          promised, since, cost>>
  BY StepsByName DEF Exit, disk, history, Shape

\* What Age does.
LEMMA AgeEffect ==
    ASSUME Shape, Age
    PROVE  /\ lock' \in {"free", "held", "fresh", "stale"}
           /\ UNCHANGED <<payload, rec, backup, journal, mem, loaded, pc, cur, outcome, clock,
                          failures, promised, since, cost>>
  BY DEF Age, history

\* Start keeps the invariant.
LEMMA StartKeeps == IInv /\ Start => IInv'
<1> SUFFICES ASSUME IInv, Start PROVE IInv'
  OBVIOUS
<1>1. /\ Shape /\ TypeOK /\ JournalsTyped /\ CurTyped /\ StateOfStep
      /\ MemorySaved /\ TargetVerified /\ LoadedInv /\ KeptInv
  BY DEF IInv, Shape
<1>2. /\ pc = "down" /\ pc' = "load"
      /\ cur'.tx = 0 /\ ~cur'.recovering /\ cur' \in Locals
      /\ cur'.todo = {t \in Txs : Started(t)}
      /\ outcome' \in Outcomes
      /\ UNCHANGED <<payload, rec, backup, journal, lock, mem, loaded, clock, failures,
                     promised, since, cost>>
  BY <1>1, StartEffect
<1>3. TypeOK'
  BY <1>1, <1>2, StepsByName, Empties, BoundsAssumption
     DEF TypeOK, Steps, StartSteps, RemoveSteps, Outcomes, Txs, None
<1>4. JournalsTyped'
  BY <1>1, <1>2, StepsByName DEF JournalsTyped, Started, Tx, Version
<1>5. CurTyped'
  BY <1>1, <1>2, StepsByName
     DEF CurTyped, Started, Order, Tx, AtRest, RemoveSteps, TxSteps, FinishSteps
<1>6. StateOfStep'
  BY <1>1, <1>2, StepsByName
     DEF CurTyped, TxSteps, StateOfStep, Pending, Finishing, Undoing, Undone, FinishSteps, Tx
<1>7. MemorySaved'
  BY <1>1, <1>2, StepsByName
     DEF CurTyped, StateOfStep, MemorySaved, Tx, OthersPending, LeftBehind, Pending,
         AfterSwitch, Undoing, Undone, AtRest, RemoveSteps, TxSteps, FinishSteps
<1>8. TargetVerified'
  BY <1>1, <1>2, StepsByName
     DEF CurTyped, MemorySaved, TargetVerified, OthersPending, Pending, Verifies, Tx, Version,
         AfterSwitch, TxSteps
<1>9. LoadedInv'
  BY <1>1, <1>2, StepsByName
     DEF CurTyped, StateOfStep, MemorySaved, LoadedInv, OthersPending, Pending, Tx, Ran,
         Undone, AfterSwitch, AtRest, RemoveSteps, TxSteps, FinishSteps
<1>10. KeptInv'
  <2> SUFFICES ASSUME "kept" \notin cost'
               PROVE  (OnlyLastPending /\ WholeAtRest /\ LastRestorable /\ OpKept
                        /\ UndoKept)'
    BY DEF KeptInv
  <2>1. OnlyLastPending /\ WholeAtRest /\ LastRestorable /\ OpKept /\ UndoKept
    BY <1>1, <1>2 DEF KeptInv
  <2>2. OnlyLastPending'
    BY <1>1, <1>2, <2>1, StepsByName
       DEF OnlyLastPending, Pending, CurTyped, StateOfStep, TxSteps, FinishSteps, Finishing
  <2>3. WholeAtRest'
    BY <1>1, <1>2, <2>1, StepsByName
       DEF WholeAtRest, NonePending, Pending, Finishing, Whole, Verifies, RemoveSteps,
           CurTyped, StateOfStep, TxSteps, FinishSteps
  <2>4. LastRestorable'
    BY <1>1, <1>2, <2>1, StepsByName
       DEF Tx, Version, OnlyLastPending, LastRestorable, Restorable, Last, Target, Pending,
           Finishing, Verifies, CurTyped, StateOfStep, TxSteps, FinishSteps
  <2>5. OpKept'
    BY <1>1, <1>2, <2>1, StepsByName
       DEF OpKept, Whole, Verifies, Tx, Version, AfterSwitch, CurTyped, StateOfStep, TxSteps,
           FinishSteps, Pending, Finishing
  <2>6. UndoKept'
    BY <1>1, <1>2, <2>1, StepsByName
       DEF UndoKept, HasBackup, Whole, Verifies, Tx, Version, Pending, Finishing, Undoing,
           CurTyped, StateOfStep, TxSteps, FinishSteps
  <2> QED  BY <2>2, <2>3, <2>4, <2>5, <2>6
<1> QED  BY <1>3, <1>4, <1>5, <1>6, <1>7, <1>8, <1>9, <1>10 DEF IInv, Shape

\* Load keeps the invariant.
LEMMA LoadKeeps == IInv /\ Load => IInv'
<1> SUFFICES ASSUME IInv, Load PROVE IInv'
  OBVIOUS
<1>1. /\ Shape /\ TypeOK /\ JournalsTyped /\ CurTyped /\ StateOfStep
      /\ MemorySaved /\ TargetVerified /\ LoadedInv /\ KeptInv
  BY DEF IInv, Shape
<1>2. /\ pc = "load" /\ pc' \in {"recover", "repair"}
      /\ mem' \in Records
      /\ pc' = "recover" <=> mem' = rec
      /\ Whole(rec) => mem' = rec
      /\ UNCHANGED <<payload, rec, backup, journal, lock, loaded, cur, outcome, clock,
                     failures, promised, since, cost>>
  BY <1>1, LoadEffect
<1>t. clock \in Nat /\ since \in Nat /\ Txs \subseteq Nat \ {0}
  BY <1>1, BoundsAssumption DEF TypeOK, Txs
<1>3. TypeOK'
  BY <1>1, <1>2, StepsByName, Empties, BoundsAssumption
     DEF TypeOK, Steps, StartSteps, RemoveSteps, Outcomes, Txs, None
<1>4. JournalsTyped'
  BY <1>1, <1>2, StepsByName, <1>t DEF JournalsTyped, Started, Tx, Version
<1>5. CurTyped'
  BY <1>1, <1>2, StepsByName, <1>t
     DEF CurTyped, Started, Order, Tx, AtRest, RemoveSteps, TxSteps, FinishSteps
<1>6. StateOfStep'
  BY <1>1, <1>2, StepsByName
     DEF CurTyped, TxSteps, StateOfStep, Pending, Finishing, Undoing, Undone, FinishSteps, Tx
<1>7. MemorySaved'
  BY <1>1, <1>2, StepsByName, <1>t
     DEF CurTyped, StateOfStep, MemorySaved, Tx, OthersPending, LeftBehind, Pending,
         AfterSwitch, Undoing, Undone, AtRest, RemoveSteps, TxSteps, FinishSteps
<1>8. TargetVerified'
  BY <1>1, <1>2, StepsByName, <1>t
     DEF CurTyped, MemorySaved, TargetVerified, OthersPending, Pending, Verifies, Tx, Version,
         AfterSwitch, TxSteps
<1>9. LoadedInv'
  BY <1>1, <1>2, StepsByName, <1>t
     DEF CurTyped, StateOfStep, MemorySaved, LoadedInv, OthersPending, Pending, Tx, Ran,
         Undone, AfterSwitch, AtRest, RemoveSteps, TxSteps, FinishSteps
<1>10. KeptInv'
  <2> SUFFICES ASSUME "kept" \notin cost'
               PROVE  (OnlyLastPending /\ WholeAtRest /\ LastRestorable /\ OpKept
                        /\ UndoKept)'
    BY DEF KeptInv
  <2>1. OnlyLastPending /\ WholeAtRest /\ LastRestorable /\ OpKept /\ UndoKept
    BY <1>1, <1>2 DEF KeptInv
  <2>2. OnlyLastPending'
    BY <1>1, <1>2, <2>1, StepsByName, <1>t
       DEF OnlyLastPending, Pending, CurTyped, StateOfStep, TxSteps, FinishSteps, Finishing
  <2>3. WholeAtRest'
    <3>1. Whole(rec)' <=> Whole(rec)  BY <1>2 DEF Whole, Verifies
    <3>2. pc' = "repair" => ~NonePending /\ ~(clock \in Txs /\ Finishing(clock))
      BY <1>2, <2>1 DEF WholeAtRest
    <3>3. ~NonePending => clock \in Txs /\ Pending(clock)
      BY <2>1 DEF NonePending, OnlyLastPending
    <3> QED
      BY <1>2, <2>1, <3>1, <3>2, <3>3
         DEF WholeAtRest, NonePending, Pending, Finishing, RemoveSteps
  <2>4. LastRestorable'
    BY <1>1, <1>2, <2>1, StepsByName, <1>t
       DEF Tx, Version, OnlyLastPending, LastRestorable, Restorable, Last, Target, Pending,
           Finishing, Verifies, CurTyped, StateOfStep, TxSteps, FinishSteps
  <2>5. OpKept'
    BY <1>1, <1>2, <2>1, StepsByName
       DEF OpKept, Whole, Verifies, Tx, Version, AfterSwitch, CurTyped, StateOfStep, TxSteps,
           FinishSteps, Pending, Finishing
  <2>6. UndoKept'
    BY <1>1, <1>2, <2>1, StepsByName
       DEF UndoKept, HasBackup, Whole, Verifies, Tx, Version, Pending, Finishing, Undoing,
           CurTyped, StateOfStep, TxSteps, FinishSteps
  <2> QED  BY <2>2, <2>3, <2>4, <2>5, <2>6
<1> QED  BY <1>3, <1>4, <1>5, <1>6, <1>7, <1>8, <1>9, <1>10 DEF IInv, Shape

\* SaveRepair keeps the invariant.
LEMMA SaveRepairKeeps == IInv /\ SaveRepair => IInv'
<1> SUFFICES ASSUME IInv, SaveRepair PROVE IInv'
  OBVIOUS
<1>1. /\ Shape /\ TypeOK /\ JournalsTyped /\ CurTyped /\ StateOfStep
      /\ MemorySaved /\ TargetVerified /\ LoadedInv /\ KeptInv
  BY DEF IInv, Shape
<1>2. /\ pc = "repair" /\ pc' = "recover"
      /\ rec' = mem
      /\ UNCHANGED <<payload, backup, journal, lock, mem, loaded, cur, outcome, clock,
                     failures, promised, since, cost>>
  BY <1>1, SaveRepairEffect
<1>t. clock \in Nat /\ since \in Nat /\ Txs \subseteq Nat \ {0}
  BY <1>1, BoundsAssumption DEF TypeOK, Txs
<1>3. TypeOK'
  BY <1>1, <1>2, StepsByName, Empties, BoundsAssumption
     DEF TypeOK, Steps, StartSteps, RemoveSteps, Outcomes, Txs, None
<1>4. JournalsTyped'
  BY <1>1, <1>2, StepsByName, <1>t DEF JournalsTyped, Started, Tx, Version
<1>5. CurTyped'
  BY <1>1, <1>2, StepsByName, <1>t
     DEF CurTyped, Started, Order, Tx, AtRest, RemoveSteps, TxSteps, FinishSteps
<1>6. StateOfStep'
  BY <1>1, <1>2, StepsByName
     DEF CurTyped, TxSteps, StateOfStep, Pending, Finishing, Undoing, Undone, FinishSteps, Tx
<1>7. MemorySaved'
  BY <1>1, <1>2, StepsByName, <1>t
     DEF CurTyped, StateOfStep, MemorySaved, Tx, OthersPending, LeftBehind, Pending,
         AfterSwitch, Undoing, Undone, AtRest, RemoveSteps, TxSteps, FinishSteps
<1>8. TargetVerified'
  BY <1>1, <1>2, StepsByName, <1>t
     DEF CurTyped, MemorySaved, TargetVerified, OthersPending, Pending, Verifies, Tx, Version,
         AfterSwitch, TxSteps
<1>9. LoadedInv'
  BY <1>1, <1>2, StepsByName, <1>t
     DEF CurTyped, StateOfStep, MemorySaved, LoadedInv, OthersPending, Pending, Tx, Ran,
         Undone, AfterSwitch, AtRest, RemoveSteps, TxSteps, FinishSteps
<1>10. KeptInv'
  <2> SUFFICES ASSUME "kept" \notin cost'
               PROVE  (OnlyLastPending /\ WholeAtRest /\ LastRestorable /\ OpKept
                        /\ UndoKept)'
    BY DEF KeptInv
  <2>1. OnlyLastPending /\ WholeAtRest /\ LastRestorable /\ OpKept /\ UndoKept
    BY <1>1, <1>2 DEF KeptInv
  <2>2. OnlyLastPending'
    BY <1>1, <1>2, <2>1, StepsByName, <1>t
       DEF OnlyLastPending, Pending, CurTyped, StateOfStep, TxSteps, FinishSteps, Finishing
  <2>3. WholeAtRest'
    BY <1>1, <1>2, <2>1, StepsByName, <1>t
       DEF WholeAtRest, NonePending, Pending, Finishing, Whole, Verifies, RemoveSteps,
           CurTyped, StateOfStep, TxSteps, FinishSteps
  <2>4. LastRestorable'
    BY <1>1, <1>2, <2>1, StepsByName, <1>t
       DEF Tx, Version, OnlyLastPending, LastRestorable, Restorable, Last, Target, Pending,
           Finishing, Verifies, CurTyped, StateOfStep, TxSteps, FinishSteps
  <2>5. OpKept'
    BY <1>1, <1>2, <2>1, StepsByName
       DEF OpKept, Whole, Verifies, Tx, Version, AfterSwitch, CurTyped, StateOfStep, TxSteps,
           FinishSteps, Pending, Finishing
  <2>6. UndoKept'
    BY <1>1, <1>2, <2>1, StepsByName
       DEF UndoKept, HasBackup, Whole, Verifies, Tx, Version, Pending, Finishing, Undoing,
           CurTyped, StateOfStep, TxSteps, FinishSteps
  <2> QED  BY <2>2, <2>3, <2>4, <2>5, <2>6
<1> QED  BY <1>3, <1>4, <1>5, <1>6, <1>7, <1>8, <1>9, <1>10 DEF IInv, Shape

\* RecoverNext keeps the invariant.
LEMMA RecoverNextKeeps == IInv /\ RecoverNext => IInv'
<1> SUFFICES ASSUME IInv, RecoverNext PROVE IInv'
  OBVIOUS
<1>1. /\ Shape /\ TypeOK /\ JournalsTyped /\ CurTyped /\ StateOfStep
      /\ MemorySaved /\ TargetVerified /\ LoadedInv /\ KeptInv
  BY DEF IInv, Shape
<1>2. /\ pc = "recover" /\ cur'.tx \in cur.todo
      /\ Started(cur'.tx)
      /\ cur'.recovering /\ cur' \in Locals /\ cur'.backed = journal[cur'.tx].backed
      /\ cur'.todo = cur.todo \ {cur'.tx}
      /\ \/ pc' = "finish_clean" /\ Finishing(cur'.tx)
         \/ pc' = "settle_clean" /\ journal[cur'.tx].state = "rolled_back"
         \/ pc' = "undo_lock" /\ Pending(cur'.tx) /\ ~Finishing(cur'.tx)
      /\ UNCHANGED <<payload, rec, backup, journal, lock, mem, loaded, outcome, clock,
                     failures, promised, since, cost>>
  BY <1>1, RecoverNextEffect
<1>3. TypeOK'
  BY <1>1, <1>2, StepsByName, Empties, BoundsAssumption
     DEF TypeOK, Steps, StartSteps, RemoveSteps, Outcomes, Txs, None
<1>4. JournalsTyped'
  BY <1>1, <1>2, StepsByName DEF JournalsTyped, Started, Tx, Version
<1>5. CurTyped'
  BY <1>1, <1>2, StepsByName
     DEF CurTyped, Started, Order, Tx, AtRest, RemoveSteps, TxSteps, FinishSteps
<1>6. StateOfStep'
  BY <1>1, <1>2, StepsByName
     DEF CurTyped, TxSteps, StateOfStep, Pending, Finishing, Undoing, Undone, FinishSteps, Tx
<1>7. MemorySaved'
  BY <1>1, <1>2, StepsByName
     DEF CurTyped, StateOfStep, MemorySaved, Tx, OthersPending, LeftBehind, Pending,
         AfterSwitch, Undoing, Undone, AtRest, RemoveSteps, TxSteps, FinishSteps
<1>8. TargetVerified'
  BY <1>1, <1>2, StepsByName
     DEF CurTyped, MemorySaved, TargetVerified, OthersPending, Pending, Verifies, Tx, Version,
         AfterSwitch, TxSteps
<1>9. LoadedInv'
  BY <1>1, <1>2, StepsByName
     DEF CurTyped, StateOfStep, MemorySaved, LoadedInv, OthersPending, Pending, Tx, Ran,
         Undone, AfterSwitch, AtRest, RemoveSteps, TxSteps, FinishSteps
<1>10. KeptInv'
  <2> SUFFICES ASSUME "kept" \notin cost'
               PROVE  (OnlyLastPending /\ WholeAtRest /\ LastRestorable /\ OpKept
                        /\ UndoKept)'
    BY DEF KeptInv
  <2>1. OnlyLastPending /\ WholeAtRest /\ LastRestorable /\ OpKept /\ UndoKept
    BY <1>1, <1>2 DEF KeptInv
  <2>2. OnlyLastPending'
    BY <1>1, <1>2, <2>1, StepsByName
       DEF OnlyLastPending, Pending, CurTyped, StateOfStep, TxSteps, FinishSteps, Finishing
  <2>3. WholeAtRest'
    BY <1>1, <1>2, <2>1, StepsByName
       DEF WholeAtRest, NonePending, Pending, Finishing, Whole, Verifies, RemoveSteps,
           CurTyped, StateOfStep, TxSteps, FinishSteps
  <2>4. LastRestorable'
    BY <1>1, <1>2, <2>1, StepsByName
       DEF Tx, Version, OnlyLastPending, LastRestorable, Restorable, Last, Target, Pending,
           Finishing, Verifies, CurTyped, StateOfStep, TxSteps, FinishSteps
  <2>5. OpKept'
    BY <1>1, <1>2, <2>1, StepsByName
       DEF OpKept, Whole, Verifies, Tx, Version, AfterSwitch, CurTyped, StateOfStep, TxSteps,
           FinishSteps, Pending, Finishing
  <2>6. UndoKept'
    BY <1>1, <1>2, <2>1, StepsByName
       DEF UndoKept, HasBackup, Whole, Verifies, Tx, Version, Pending, Finishing, Undoing,
           CurTyped, StateOfStep, TxSteps, FinishSteps
  <2> QED  BY <2>2, <2>3, <2>4, <2>5, <2>6
<1> QED  BY <1>3, <1>4, <1>5, <1>6, <1>7, <1>8, <1>9, <1>10 DEF IInv, Shape

\* FinishClean keeps the invariant.
LEMMA FinishCleanKeeps == IInv /\ FinishClean => IInv'
<1> SUFFICES ASSUME IInv, FinishClean PROVE IInv'
  OBVIOUS
<1>1. /\ Shape /\ TypeOK /\ JournalsTyped /\ CurTyped /\ StateOfStep
      /\ MemorySaved /\ TargetVerified /\ LoadedInv /\ KeptInv
  BY DEF IInv, Shape
<1>2. /\ \/ pc = "finish_clean" /\ pc' = "finish_unlink"
         \/ pc = "settle_clean" /\ pc' = "recover"
      /\ cur.tx \in Txs /\ cur.recovering
      /\ \A t \in Txs : t # cur.tx => backup'[t] = backup[t]
      /\ backup' \in [Txs -> Contents]
      /\ UNCHANGED <<payload, rec, journal, lock, mem, loaded, cur, outcome, clock, failures,
                     promised, since, cost>>
  BY <1>1, FinishCleanEffect
<1>3. TypeOK'
  BY <1>1, <1>2, StepsByName, Empties, BoundsAssumption
     DEF TypeOK, Steps, StartSteps, RemoveSteps, Outcomes, Txs, None
<1>4. JournalsTyped'
  BY <1>1, <1>2, StepsByName DEF JournalsTyped, Started, Tx, Version
<1>5. CurTyped'
  BY <1>1, <1>2, StepsByName
     DEF CurTyped, Started, Order, Tx, AtRest, RemoveSteps, TxSteps, FinishSteps
<1>6. StateOfStep'
  BY <1>1, <1>2, StepsByName
     DEF CurTyped, TxSteps, StateOfStep, Pending, Finishing, Undoing, Undone, FinishSteps, Tx
<1>7. MemorySaved'
  BY <1>1, <1>2, StepsByName
     DEF CurTyped, StateOfStep, MemorySaved, Tx, OthersPending, LeftBehind, Pending,
         AfterSwitch, Undoing, Undone, AtRest, RemoveSteps, TxSteps, FinishSteps
<1>8. TargetVerified'
  BY <1>1, <1>2, StepsByName
     DEF CurTyped, MemorySaved, TargetVerified, OthersPending, Pending, Verifies, Tx, Version,
         AfterSwitch, TxSteps
<1>9. LoadedInv'
  BY <1>1, <1>2, StepsByName
     DEF CurTyped, StateOfStep, MemorySaved, LoadedInv, OthersPending, Pending, Tx, Ran,
         Undone, AfterSwitch, AtRest, RemoveSteps, TxSteps, FinishSteps
<1>10. KeptInv'
  <2> SUFFICES ASSUME "kept" \notin cost'
               PROVE  (OnlyLastPending /\ WholeAtRest /\ LastRestorable /\ OpKept
                        /\ UndoKept)'
    BY DEF KeptInv
  <2>1. OnlyLastPending /\ WholeAtRest /\ LastRestorable /\ OpKept /\ UndoKept
    BY <1>1, <1>2 DEF KeptInv
  <2>2. OnlyLastPending'
    BY <1>1, <1>2, <2>1, StepsByName
       DEF OnlyLastPending, Pending, CurTyped, StateOfStep, TxSteps, FinishSteps, Finishing
  <2>3. WholeAtRest'
    BY <1>1, <1>2, <2>1, StepsByName
       DEF WholeAtRest, NonePending, Pending, Finishing, Whole, Verifies, RemoveSteps,
           CurTyped, StateOfStep, TxSteps, FinishSteps
  <2>4. LastRestorable'
    BY <1>1, <1>2, <2>1, StepsByName
       DEF Tx, Version, OnlyLastPending, LastRestorable, Restorable, Last, Target, Pending,
           Finishing, Verifies, CurTyped, StateOfStep, TxSteps, FinishSteps
  <2>5. OpKept'
    BY <1>1, <1>2, <2>1, StepsByName
       DEF OpKept, Whole, Verifies, Tx, Version, AfterSwitch, CurTyped, StateOfStep, TxSteps,
           FinishSteps, Pending, Finishing
  <2>6. UndoKept'
    BY <1>1, <1>2, <2>1, StepsByName
       DEF UndoKept, HasBackup, Whole, Verifies, Tx, Version, Pending, Finishing, Undoing,
           CurTyped, StateOfStep, TxSteps, FinishSteps
  <2> QED  BY <2>2, <2>3, <2>4, <2>5, <2>6
<1> QED  BY <1>3, <1>4, <1>5, <1>6, <1>7, <1>8, <1>9, <1>10 DEF IInv, Shape

\* FinishUnlink keeps the invariant.
LEMMA FinishUnlinkKeeps == IInv /\ FinishUnlink => IInv'
<1> SUFFICES ASSUME IInv, FinishUnlink PROVE IInv'
  OBVIOUS
<1>1. /\ Shape /\ TypeOK /\ JournalsTyped /\ CurTyped /\ StateOfStep
      /\ MemorySaved /\ TargetVerified /\ LoadedInv /\ KeptInv
  BY DEF IInv, Shape
<1>2. /\ pc = "finish_unlink" /\ pc' = "recover"
      /\ cur.tx \in Txs /\ cur.recovering /\ cur.tx \notin cur.todo
      /\ journal'[cur.tx] = NoJournal
      /\ \A t \in Txs : t # cur.tx => journal'[t] = journal[t]
      /\ journal' \in [Txs -> Journals]
      /\ IF cur.tx > since THEN promised' = rec /\ since' = cur.tx ELSE UNCHANGED <<promised,
                                                                                    since>>
      /\ UNCHANGED <<payload, rec, backup, lock, mem, loaded, cur, outcome, clock, failures,
                     cost>>
  BY <1>1, FinishUnlinkEffect
<1>t. clock \in Nat /\ since \in Nat /\ Txs \subseteq Nat \ {0}
  BY <1>1, BoundsAssumption DEF TypeOK, Txs
<1>3. TypeOK'
  <2>1. pc' \in Steps  BY <1>2, StepsByName DEF Steps, StartSteps, RemoveSteps
  <2>2. clock' \in 0..MaxTx /\ since' \in 0..MaxTx /\ loaded' \in 0..MaxVersion
    BY <1>1, <1>2, BoundsAssumption DEF TypeOK, Txs, None
  <2>3. cur' \in Locals /\ mem' \in Records /\ promised' \in Records /\ rec' \in Records
    BY <1>1, <1>2, Empties DEF TypeOK
  <2>4. outcome' \in Outcomes  BY <1>1, <1>2 DEF TypeOK, Outcomes
  <2> QED  BY <1>1, <1>2, <2>1, <2>2, <2>3, <2>4 DEF TypeOK
<1>4. JournalsTyped'
  <2>1. since' <= clock
    <3>1. Started(cur.tx) /\ cur.tx \in Nat
      BY <1>1, <1>2, <1>t DEF CurTyped, TxSteps, FinishSteps
    <3>2. ~(cur.tx > clock)  BY <1>1, <1>2, <3>1 DEF JournalsTyped
    <3>3. cur.tx <= clock /\ since <= clock  BY <1>1, <1>t, <3>1, <3>2 DEF JournalsTyped
    <3> QED  BY <1>2, <3>3
  <2> QED  BY <1>1, <1>2, <2>1, Empties DEF JournalsTyped, Started
<1>5. CurTyped'
  BY <1>1, <1>2, StepsByName, <1>t
     DEF CurTyped, Started, Order, Tx, AtRest, RemoveSteps, TxSteps, FinishSteps
<1>6. StateOfStep'
  BY <1>1, <1>2, StepsByName
     DEF CurTyped, TxSteps, StateOfStep, Pending, Finishing, Undoing, Undone, FinishSteps, Tx
<1>7. MemorySaved'
  BY <1>1, <1>2, StepsByName, <1>t
     DEF CurTyped, StateOfStep, MemorySaved, Tx, OthersPending, LeftBehind, Pending,
         AfterSwitch, Undoing, Undone, AtRest, RemoveSteps, TxSteps, FinishSteps
<1>8. TargetVerified'
  BY <1>1, <1>2, StepsByName, <1>t
     DEF CurTyped, MemorySaved, TargetVerified, OthersPending, Pending, Verifies, Tx, Version,
         AfterSwitch, TxSteps
<1>9. LoadedInv'
  BY <1>1, <1>2, StepsByName, <1>t
     DEF CurTyped, StateOfStep, MemorySaved, LoadedInv, OthersPending, Pending, Tx, Ran,
         Undone, AfterSwitch, AtRest, RemoveSteps, TxSteps, FinishSteps
<1>10. KeptInv'
  <2> SUFFICES ASSUME "kept" \notin cost'
               PROVE  (OnlyLastPending /\ WholeAtRest /\ LastRestorable /\ OpKept
                        /\ UndoKept)'
    BY DEF KeptInv
  <2>1. OnlyLastPending /\ WholeAtRest /\ LastRestorable /\ OpKept /\ UndoKept
    BY <1>1, <1>2 DEF KeptInv
  <2>2. OnlyLastPending'
    BY <1>1, <1>2, <2>1, StepsByName, <1>t, Empties
       DEF OnlyLastPending, Pending, CurTyped, StateOfStep, TxSteps, FinishSteps, Finishing
  <2>3. WholeAtRest'
    BY <1>1, <1>2, <2>1, StepsByName, <1>t, Empties
       DEF WholeAtRest, NonePending, Pending, Finishing, Whole, Verifies, RemoveSteps,
           CurTyped, StateOfStep, TxSteps, FinishSteps, OnlyLastPending
  <2>4. LastRestorable'
    BY <1>1, <1>2, <2>1, StepsByName, <1>t, Empties
       DEF Tx, Version, OnlyLastPending, LastRestorable, Restorable, Last, Target, Pending,
           Finishing, Verifies, CurTyped, StateOfStep, TxSteps, FinishSteps
  <2>5. OpKept'
    BY <1>1, <1>2, <2>1, StepsByName
       DEF OpKept, Whole, Verifies, Tx, Version, AfterSwitch, CurTyped, StateOfStep, TxSteps,
           FinishSteps, Pending, Finishing
  <2>6. UndoKept'
    BY <1>1, <1>2, <2>1, StepsByName
       DEF UndoKept, HasBackup, Whole, Verifies, Tx, Version, Pending, Finishing, Undoing,
           CurTyped, StateOfStep, TxSteps, FinishSteps
  <2> QED  BY <2>2, <2>3, <2>4, <2>5, <2>6
<1> QED  BY <1>3, <1>4, <1>5, <1>6, <1>7, <1>8, <1>9, <1>10 DEF IInv, Shape

\* Remark keeps the invariant.
LEMMA RemarkKeeps == IInv /\ Remark => IInv'
<1> SUFFICES ASSUME IInv, Remark PROVE IInv'
  OBVIOUS
<1>1. /\ Shape /\ TypeOK /\ JournalsTyped /\ CurTyped /\ StateOfStep
      /\ MemorySaved /\ TargetVerified /\ LoadedInv /\ KeptInv
  BY DEF IInv, Shape
<1>2. /\ pc = "remark" /\ pc' = "recover"
      /\ cur.tx \in Txs /\ Started(cur.tx) /\ cur.recovering /\ cur.tx \notin cur.todo
      /\ failures' \in 0..MaxFailures
      /\ \/ /\ journal' \in [Txs -> Journals]
            /\ \A t \in Txs : t # cur.tx => journal'[t] = journal[t]
            /\ journal'[cur.tx].state = "rollback_required"
            /\ journal'[cur.tx].backed = cur.backed
            /\ journal'[cur.tx].op = Tx.op /\ journal'[cur.tx].version = Version
            /\ journal'[cur.tx].prev = Tx.prev
         \/ UNCHANGED journal
      /\ UNCHANGED <<payload, rec, backup, lock, mem, loaded, cur, outcome, clock, promised,
                     since, cost>>
  BY <1>1, RemarkEffect
<1>3. TypeOK'
  BY <1>1, <1>2, StepsByName, Empties, BoundsAssumption
     DEF TypeOK, Steps, StartSteps, RemoveSteps, Outcomes, Txs, None
<1>4. JournalsTyped'
  BY <1>1, <1>2, StepsByName DEF JournalsTyped, Started, Tx, Version
<1>5. CurTyped'
  BY <1>1, <1>2, StepsByName
     DEF CurTyped, Started, Order, Tx, AtRest, RemoveSteps, TxSteps, FinishSteps
<1>6. StateOfStep'
  BY <1>1, <1>2, StepsByName
     DEF CurTyped, TxSteps, StateOfStep, Pending, Finishing, Undoing, Undone, FinishSteps, Tx
<1>7. MemorySaved'
  BY <1>1, <1>2, StepsByName
     DEF CurTyped, StateOfStep, MemorySaved, Tx, OthersPending, LeftBehind, Pending,
         AfterSwitch, Undoing, Undone, AtRest, RemoveSteps, TxSteps, FinishSteps
<1>8. TargetVerified'
  BY <1>1, <1>2, StepsByName
     DEF CurTyped, MemorySaved, TargetVerified, OthersPending, Pending, Verifies, Tx, Version,
         AfterSwitch, TxSteps
<1>9. LoadedInv'
  BY <1>1, <1>2, StepsByName
     DEF CurTyped, StateOfStep, MemorySaved, LoadedInv, OthersPending, Pending, Tx, Ran,
         Undone, AfterSwitch, AtRest, RemoveSteps, TxSteps, FinishSteps
<1>10. KeptInv'
  <2> SUFFICES ASSUME "kept" \notin cost'
               PROVE  (OnlyLastPending /\ WholeAtRest /\ LastRestorable /\ OpKept
                        /\ UndoKept)'
    BY DEF KeptInv
  <2>1. OnlyLastPending /\ WholeAtRest /\ LastRestorable /\ OpKept /\ UndoKept
    BY <1>1, <1>2 DEF KeptInv
  <2>2. OnlyLastPending'
    BY <1>1, <1>2, <2>1, StepsByName
       DEF OnlyLastPending, Pending, CurTyped, StateOfStep, TxSteps, FinishSteps, Finishing,
           UndoKept
  <2>3. WholeAtRest'
    BY <1>1, <1>2, <2>1, StepsByName
       DEF WholeAtRest, NonePending, Pending, Finishing, Whole, Verifies, RemoveSteps,
           CurTyped, StateOfStep, TxSteps, FinishSteps, UndoKept, OnlyLastPending
  <2>4. LastRestorable'
    BY <1>1, <1>2, <2>1, StepsByName
       DEF Tx, Version, OnlyLastPending, LastRestorable, Restorable, Last, Target, Pending,
           Finishing, Verifies, CurTyped, StateOfStep, TxSteps, FinishSteps, UndoKept
  <2>5. OpKept'
    BY <1>1, <1>2, <2>1, StepsByName
       DEF OpKept, Whole, Verifies, Tx, Version, AfterSwitch, CurTyped, StateOfStep, TxSteps,
           FinishSteps, Pending, Finishing
  <2>6. UndoKept'
    BY <1>1, <1>2, <2>1, StepsByName
       DEF UndoKept, HasBackup, Whole, Verifies, Tx, Version, Pending, Finishing, Undoing,
           CurTyped, StateOfStep, TxSteps, FinishSteps
  <2> QED  BY <2>2, <2>3, <2>4, <2>5, <2>6
<1> QED  BY <1>3, <1>4, <1>5, <1>6, <1>7, <1>8, <1>9, <1>10 DEF IInv, Shape

\* RecoverFault keeps the invariant.
LEMMA RecoverFaultKeeps == IInv /\ RecoverFault => IInv'
<1> SUFFICES ASSUME IInv, RecoverFault PROVE IInv'
  OBVIOUS
<1>1. /\ Shape /\ TypeOK /\ JournalsTyped /\ CurTyped /\ StateOfStep
      /\ MemorySaved /\ TargetVerified /\ LoadedInv /\ KeptInv
  BY DEF IInv, Shape
<1>2. /\ pc \in {"finish_clean", "settle_clean", "finish_unlink"} /\ pc' = "remark"
      /\ cur.tx \in Txs /\ cur.recovering /\ cur.tx \notin cur.todo
      /\ backup' \in [Txs -> Contents]
      /\ failures' \in 0..MaxFailures
      /\ cost' \subseteq Costs /\ cost \subseteq cost' /\ "kept" \in cost'
      /\ UNCHANGED <<payload, rec, journal, lock, mem, loaded, cur, outcome, clock, promised,
                     since>>
  BY <1>1, RecoverFaultEffect
<1>3. TypeOK'
  BY <1>1, <1>2, StepsByName, Empties, BoundsAssumption
     DEF TypeOK, Steps, StartSteps, RemoveSteps, Outcomes, Txs, None
<1>4. JournalsTyped'
  BY <1>1, <1>2, StepsByName DEF JournalsTyped, Started, Tx, Version
<1>5. CurTyped'
  BY <1>1, <1>2, StepsByName
     DEF CurTyped, Started, Order, Tx, AtRest, RemoveSteps, TxSteps, FinishSteps
<1>6. StateOfStep'
  BY <1>1, <1>2, StepsByName
     DEF CurTyped, TxSteps, StateOfStep, Pending, Finishing, Undoing, Undone, FinishSteps, Tx
<1>7. MemorySaved'
  BY <1>1, <1>2, StepsByName
     DEF CurTyped, StateOfStep, MemorySaved, Tx, OthersPending, LeftBehind, Pending,
         AfterSwitch, Undoing, Undone, AtRest, RemoveSteps, TxSteps, FinishSteps
<1>8. TargetVerified'
  BY <1>1, <1>2, StepsByName
     DEF CurTyped, MemorySaved, TargetVerified, OthersPending, Pending, Verifies, Tx, Version,
         AfterSwitch, TxSteps
<1>9. LoadedInv'
  BY <1>1, <1>2, StepsByName
     DEF CurTyped, StateOfStep, MemorySaved, LoadedInv, OthersPending, Pending, Tx, Ran,
         Undone, AfterSwitch, AtRest, RemoveSteps, TxSteps, FinishSteps
<1>10. KeptInv'
  <2> SUFFICES ASSUME "kept" \notin cost'
               PROVE  (OnlyLastPending /\ WholeAtRest /\ LastRestorable /\ OpKept
                        /\ UndoKept)'
    BY DEF KeptInv
  <2>1. OnlyLastPending /\ WholeAtRest /\ LastRestorable /\ OpKept /\ UndoKept
    BY <1>1, <1>2 DEF KeptInv
  <2>2. OnlyLastPending'
    BY <1>1, <1>2, <2>1, StepsByName
       DEF OnlyLastPending, Pending, CurTyped, StateOfStep, TxSteps, FinishSteps, Finishing
  <2>3. WholeAtRest'
    BY <1>1, <1>2, <2>1, StepsByName
       DEF WholeAtRest, NonePending, Pending, Finishing, Whole, Verifies, RemoveSteps,
           CurTyped, StateOfStep, TxSteps, FinishSteps
  <2>4. LastRestorable'
    BY <1>1, <1>2, <2>1, StepsByName
       DEF Tx, Version, OnlyLastPending, LastRestorable, Restorable, Last, Target, Pending,
           Finishing, Verifies, CurTyped, StateOfStep, TxSteps, FinishSteps
  <2>5. OpKept'
    BY <1>1, <1>2, <2>1, StepsByName
       DEF OpKept, Whole, Verifies, Tx, Version, AfterSwitch, CurTyped, StateOfStep, TxSteps,
           FinishSteps, Pending, Finishing
  <2>6. UndoKept'
    BY <1>1, <1>2, <2>1, StepsByName
       DEF UndoKept, HasBackup, Whole, Verifies, Tx, Version, Pending, Finishing, Undoing,
           CurTyped, StateOfStep, TxSteps, FinishSteps
  <2> QED  BY <2>2, <2>3, <2>4, <2>5, <2>6
<1> QED  BY <1>3, <1>4, <1>5, <1>6, <1>7, <1>8, <1>9, <1>10 DEF IInv, Shape

\* ActivateAll keeps the invariant.
LEMMA ActivateAllKeeps == IInv /\ ActivateAll => IInv'
<1> SUFFICES ASSUME IInv, ActivateAll PROVE IInv'
  OBVIOUS
<1>1. /\ Shape /\ TypeOK /\ JournalsTyped /\ CurTyped /\ StateOfStep
      /\ MemorySaved /\ TargetVerified /\ LoadedInv /\ KeptInv
  BY DEF IInv, Shape
<1>2. /\ pc = "recover" /\ pc' \in {"ready", "down"}
      /\ cur.todo = {}
      /\ cur' = NoCur
      /\ outcome' \in Outcomes
      /\ loaded' \in 0..MaxVersion
      /\ pc' = "ready" => loaded' = (IF mem = NoRec THEN loaded ELSE mem.active)
      /\ UNCHANGED <<payload, rec, backup, journal, lock, mem, clock, failures, promised,
                     since, cost>>
  BY <1>1, ActivateAllEffect
<1>t. clock \in Nat /\ since \in Nat /\ Txs \subseteq Nat \ {0}
  BY <1>1, BoundsAssumption DEF TypeOK, Txs
<1>3. TypeOK'
  BY <1>1, <1>2, StepsByName, Empties, BoundsAssumption
     DEF TypeOK, Steps, StartSteps, RemoveSteps, Outcomes, Txs, None
<1>4. JournalsTyped'
  BY <1>1, <1>2, StepsByName, <1>t DEF JournalsTyped, Started, Tx, Version
<1>5. CurTyped'
  BY <1>1, <1>2, StepsByName, Empties, <1>t
     DEF CurTyped, Started, Order, Tx, AtRest, RemoveSteps, TxSteps, FinishSteps
<1>6. StateOfStep'
  BY <1>1, <1>2, StepsByName, Empties
     DEF CurTyped, TxSteps, StateOfStep, Pending, Finishing, Undoing, Undone, FinishSteps, Tx
<1>7. MemorySaved'
  BY <1>1, <1>2, StepsByName, Empties, <1>t
     DEF CurTyped, StateOfStep, MemorySaved, Tx, OthersPending, LeftBehind, Pending,
         AfterSwitch, Undoing, Undone, AtRest, RemoveSteps, TxSteps, FinishSteps
<1>8. TargetVerified'
  BY <1>1, <1>2, StepsByName, <1>t
     DEF CurTyped, MemorySaved, TargetVerified, OthersPending, Pending, Verifies, Tx, Version,
         AfterSwitch, TxSteps
<1>9. LoadedInv'
  BY <1>1, <1>2, StepsByName, Empties, <1>t
     DEF CurTyped, StateOfStep, MemorySaved, LoadedInv, OthersPending, Pending, Tx, Ran,
         Undone, AfterSwitch, AtRest, RemoveSteps, TxSteps, FinishSteps, LeftBehind
<1>10. KeptInv'
  <2> SUFFICES ASSUME "kept" \notin cost'
               PROVE  (OnlyLastPending /\ WholeAtRest /\ LastRestorable /\ OpKept
                        /\ UndoKept)'
    BY DEF KeptInv
  <2>1. OnlyLastPending /\ WholeAtRest /\ LastRestorable /\ OpKept /\ UndoKept
    BY <1>1, <1>2 DEF KeptInv
  <2>2. OnlyLastPending'
    BY <1>1, <1>2, <2>1, StepsByName, Empties, <1>t
       DEF OnlyLastPending, Pending, CurTyped, StateOfStep, TxSteps, FinishSteps, Finishing
  <2>3. WholeAtRest'
    <3>1. Whole(rec)' <=> Whole(rec)  BY <1>2 DEF Whole, Verifies
    <3>2. mem = rec \/ ~NonePending
      BY <1>1, <1>2 DEF MemorySaved, LeftBehind, NonePending
    <3> QED
      BY <1>2, <2>1, <3>1, <3>2, StepsByName
         DEF WholeAtRest, NonePending, Pending, Finishing, RemoveSteps
  <2>4. LastRestorable'
    BY <1>1, <1>2, <2>1, StepsByName, Empties, <1>t
       DEF Tx, Version, OnlyLastPending, LastRestorable, Restorable, Last, Target, Pending,
           Finishing, Verifies, CurTyped, StateOfStep, TxSteps, FinishSteps
  <2>5. OpKept'
    BY <1>1, <1>2, <2>1, StepsByName
       DEF OpKept, Whole, Verifies, Tx, Version, AfterSwitch, CurTyped, StateOfStep, TxSteps,
           FinishSteps, Pending, Finishing
  <2>6. UndoKept'
    BY <1>1, <1>2, <2>1, StepsByName
       DEF UndoKept, HasBackup, Whole, Verifies, Tx, Version, Pending, Finishing, Undoing,
           CurTyped, StateOfStep, TxSteps, FinishSteps
  <2> QED  BY <2>2, <2>3, <2>4, <2>5, <2>6
<1> QED  BY <1>3, <1>4, <1>5, <1>6, <1>7, <1>8, <1>9, <1>10 DEF IInv, Shape

\* Install keeps the invariant.
LEMMA InstallKeeps == IInv /\ Install => IInv'
<1> SUFFICES ASSUME IInv, Install PROVE IInv'
  OBVIOUS
<1>1. /\ Shape /\ TypeOK /\ JournalsTyped /\ CurTyped /\ StateOfStep
      /\ MemorySaved /\ TargetVerified /\ LoadedInv /\ KeptInv
  BY DEF IInv, Shape
<1>2. /\ pc = "ready" /\ pc' = "staged"
      /\ clock' = clock + 1 /\ clock' \in Txs
      /\ cur' = [NoCur EXCEPT !.tx = clock']
      /\ cur'.tx = clock' /\ ~cur'.recovering /\ ~cur'.backed /\ cur'.todo = {}
      /\ cur' \in Locals
      /\ journal'[clock'].state = "prepared" /\ journal'[clock'].op = "install"
      /\ journal'[clock'].prev = NoRec /\ ~journal'[clock'].backed
      /\ journal'[clock'].version \in Versions
      /\ \A t \in Txs : t # clock' => journal'[t] = journal[t]
      /\ journal' \in [Txs -> Journals]
      /\ outcome' \in Outcomes
      /\ cost' \subseteq Costs /\ cost \subseteq cost' /\ ("kept" \notin cost' => NonePending)
      /\ mem = NoRec
      /\ UNCHANGED <<payload, rec, backup, lock, mem, loaded, failures, promised, since>>
  BY <1>1, InstallEffect
<1>t. clock \in Nat /\ since \in Nat /\ Txs \subseteq Nat \ {0}
  BY <1>1, BoundsAssumption DEF TypeOK, Txs
<1>3. TypeOK'
  <2>1. pc' \in Steps  BY <1>2, StepsByName DEF Steps, StartSteps, RemoveSteps
  <2>2. clock' \in 0..MaxTx /\ since' \in 0..MaxTx /\ loaded' \in 0..MaxVersion
    BY <1>1, <1>2, BoundsAssumption DEF TypeOK, Txs, None
  <2>3. cur' \in Locals /\ mem' \in Records /\ promised' \in Records /\ rec' \in Records
    BY <1>1, <1>2, Empties DEF TypeOK
  <2>4. outcome' \in Outcomes  BY <1>1, <1>2 DEF TypeOK, Outcomes
  <2> QED  BY <1>1, <1>2, <2>1, <2>2, <2>3, <2>4 DEF TypeOK
<1>4. JournalsTyped'
  BY <1>1, <1>2, StepsByName, <1>t DEF JournalsTyped, Started, Tx, Version
<1>5. CurTyped'
  BY <1>1, <1>2, StepsByName, <1>t
     DEF CurTyped, Started, Order, Tx, AtRest, RemoveSteps, TxSteps, FinishSteps
<1>6. StateOfStep'
  BY <1>1, <1>2, StepsByName
     DEF CurTyped, TxSteps, StateOfStep, Pending, Finishing, Undoing, Undone, FinishSteps, Tx
<1>7. MemorySaved'
  BY <1>1, <1>2, StepsByName, <1>t
     DEF CurTyped, StateOfStep, MemorySaved, Tx, OthersPending, LeftBehind, Pending,
         AfterSwitch, Undoing, Undone, AtRest, RemoveSteps, TxSteps, FinishSteps
<1>8. TargetVerified'
  BY <1>1, <1>2, StepsByName, <1>t
     DEF CurTyped, MemorySaved, TargetVerified, OthersPending, Pending, Verifies, Tx, Version,
         AfterSwitch, TxSteps
<1>9. LoadedInv'
  BY <1>1, <1>2, StepsByName, <1>t
     DEF CurTyped, StateOfStep, MemorySaved, LoadedInv, OthersPending, Pending, Tx, Ran,
         Undone, AfterSwitch, AtRest, RemoveSteps, TxSteps, FinishSteps
<1>10. KeptInv'
  <2> SUFFICES ASSUME "kept" \notin cost'
               PROVE  (OnlyLastPending /\ WholeAtRest /\ LastRestorable /\ OpKept
                        /\ UndoKept)'
    BY DEF KeptInv
  <2>1. OnlyLastPending /\ WholeAtRest /\ LastRestorable /\ OpKept /\ UndoKept
    BY <1>1, <1>2 DEF KeptInv
  <2>2. OnlyLastPending'
    BY <1>1, <1>2, <2>1, StepsByName, <1>t
       DEF OnlyLastPending, Pending, CurTyped, StateOfStep, TxSteps, FinishSteps, Finishing,
           NonePending, JournalsTyped, Started
  <2>3. WholeAtRest'
    BY <1>1, <1>2, <2>1, StepsByName, <1>t
       DEF WholeAtRest, NonePending, Pending, Finishing, Whole, Verifies, RemoveSteps,
           CurTyped, StateOfStep, TxSteps, FinishSteps
  <2>4. LastRestorable'
    <3>1. NonePending /\ mem = rec /\ rec = promised /\ Whole(rec)
      BY <1>2, <2>1 DEF WholeAtRest
    <3>2. Whole(promised)'  BY <1>2, <3>1 DEF Whole, Verifies
    <3>3. Last'.prev = promised' /\ ~Last'.backed /\ Target' \in Versions
      BY <1>2, <3>1 DEF Last, Target
    <3>4. Restorable'  BY <3>2, <3>3 DEF Restorable, Whole
    <3> QED  BY <3>4 DEF LastRestorable
  <2>5. OpKept'
    <3>1. NonePending /\ rec = promised /\ Whole(rec)  BY <1>2, <2>1 DEF WholeAtRest
    <3>2. Whole(rec)'  BY <1>2, <3>1 DEF Whole, Verifies
    <3> QED  BY <1>2, <3>1, <3>2 DEF OpKept, Tx, AfterSwitch
  <2>6. UndoKept'
    BY <1>1, <1>2, <2>1, StepsByName
       DEF UndoKept, HasBackup, Whole, Verifies, Tx, Version, Pending, Finishing, Undoing,
           CurTyped, StateOfStep, TxSteps, FinishSteps
  <2> QED  BY <2>2, <2>3, <2>4, <2>5, <2>6
<1> QED  BY <1>3, <1>4, <1>5, <1>6, <1>7, <1>8, <1>9, <1>10 DEF IInv, Shape

\* Upgrade keeps the invariant.
LEMMA UpgradeKeeps == IInv /\ Upgrade => IInv'
<1> SUFFICES ASSUME IInv, Upgrade PROVE IInv'
  OBVIOUS
<1>1. /\ Shape /\ TypeOK /\ JournalsTyped /\ CurTyped /\ StateOfStep
      /\ MemorySaved /\ TargetVerified /\ LoadedInv /\ KeptInv
  BY DEF IInv, Shape
<1>2. /\ pc = "ready" /\ pc' = "staged"
      /\ clock' = clock + 1 /\ clock' \in Txs
      /\ cur' = [NoCur EXCEPT !.tx = clock']
      /\ cur'.tx = clock' /\ ~cur'.recovering /\ ~cur'.backed /\ cur'.todo = {}
      /\ cur' \in Locals
      /\ journal'[clock'].state = "prepared" /\ journal'[clock'].op = "upgrade"
      /\ journal'[clock'].prev = mem /\ ~journal'[clock'].backed
      /\ journal'[clock'].version \in Versions
      /\ \A t \in Txs : t # clock' => journal'[t] = journal[t]
      /\ journal' \in [Txs -> Journals]
      /\ outcome' \in Outcomes
      /\ cost' \subseteq Costs /\ cost \subseteq cost' /\ ("kept" \notin cost' => NonePending)
      /\ mem # NoRec
      /\ UNCHANGED <<payload, rec, backup, lock, mem, loaded, failures, promised, since>>
  BY <1>1, UpgradeEffect
<1>t. clock \in Nat /\ since \in Nat /\ Txs \subseteq Nat \ {0}
  BY <1>1, BoundsAssumption DEF TypeOK, Txs
<1>3. TypeOK'
  <2>1. pc' \in Steps  BY <1>2, StepsByName DEF Steps, StartSteps, RemoveSteps
  <2>2. clock' \in 0..MaxTx /\ since' \in 0..MaxTx /\ loaded' \in 0..MaxVersion
    BY <1>1, <1>2, BoundsAssumption DEF TypeOK, Txs, None
  <2>3. cur' \in Locals /\ mem' \in Records /\ promised' \in Records /\ rec' \in Records
    BY <1>1, <1>2, Empties DEF TypeOK
  <2>4. outcome' \in Outcomes  BY <1>1, <1>2 DEF TypeOK, Outcomes
  <2> QED  BY <1>1, <1>2, <2>1, <2>2, <2>3, <2>4 DEF TypeOK
<1>4. JournalsTyped'
  BY <1>1, <1>2, StepsByName, <1>t DEF JournalsTyped, Started, Tx, Version
<1>5. CurTyped'
  BY <1>1, <1>2, StepsByName, <1>t
     DEF CurTyped, Started, Order, Tx, AtRest, RemoveSteps, TxSteps, FinishSteps
<1>6. StateOfStep'
  BY <1>1, <1>2, StepsByName
     DEF CurTyped, TxSteps, StateOfStep, Pending, Finishing, Undoing, Undone, FinishSteps, Tx
<1>7. MemorySaved'
  BY <1>1, <1>2, StepsByName, <1>t
     DEF CurTyped, StateOfStep, MemorySaved, Tx, OthersPending, LeftBehind, Pending,
         AfterSwitch, Undoing, Undone, AtRest, RemoveSteps, TxSteps, FinishSteps,
         JournalsTyped, Started
<1>8. TargetVerified'
  BY <1>1, <1>2, StepsByName, <1>t
     DEF CurTyped, MemorySaved, TargetVerified, OthersPending, Pending, Verifies, Tx, Version,
         AfterSwitch, TxSteps, JournalsTyped, Started
<1>9. LoadedInv'
  BY <1>1, <1>2, StepsByName, <1>t
     DEF CurTyped, StateOfStep, MemorySaved, LoadedInv, OthersPending, Pending, Tx, Ran,
         Undone, AfterSwitch, AtRest, RemoveSteps, TxSteps, FinishSteps, JournalsTyped,
         Started
<1>10. KeptInv'
  <2> SUFFICES ASSUME "kept" \notin cost'
               PROVE  (OnlyLastPending /\ WholeAtRest /\ LastRestorable /\ OpKept
                        /\ UndoKept)'
    BY DEF KeptInv
  <2>1. OnlyLastPending /\ WholeAtRest /\ LastRestorable /\ OpKept /\ UndoKept
    BY <1>1, <1>2 DEF KeptInv
  <2>2. OnlyLastPending'
    BY <1>1, <1>2, <2>1, StepsByName, <1>t
       DEF OnlyLastPending, Pending, CurTyped, StateOfStep, TxSteps, FinishSteps, Finishing,
           NonePending, JournalsTyped, Started
  <2>3. WholeAtRest'
    BY <1>1, <1>2, <2>1, StepsByName, <1>t
       DEF WholeAtRest, NonePending, Pending, Finishing, Whole, Verifies, RemoveSteps,
           CurTyped, StateOfStep, TxSteps, FinishSteps
  <2>4. LastRestorable'
    <3>1. NonePending /\ mem = rec /\ rec = promised /\ Whole(rec)
      BY <1>2, <2>1 DEF WholeAtRest
    <3>2. Whole(promised)'  BY <1>2, <3>1 DEF Whole, Verifies
    <3>3. Last'.prev = promised' /\ ~Last'.backed /\ Target' \in Versions
      BY <1>2, <3>1 DEF Last, Target
    <3>4. Restorable'  BY <3>2, <3>3 DEF Restorable, Whole
    <3> QED  BY <3>4 DEF LastRestorable
  <2>5. OpKept'
    <3>1. NonePending /\ rec = promised /\ Whole(rec)  BY <1>2, <2>1 DEF WholeAtRest
    <3>2. Whole(rec)'  BY <1>2, <3>1 DEF Whole, Verifies
    <3> QED  BY <1>2, <3>1, <3>2 DEF OpKept, Tx, AfterSwitch
  <2>6. UndoKept'
    BY <1>1, <1>2, <2>1, StepsByName
       DEF UndoKept, HasBackup, Whole, Verifies, Tx, Version, Pending, Finishing, Undoing,
           CurTyped, StateOfStep, TxSteps, FinishSteps
  <2> QED  BY <2>2, <2>3, <2>4, <2>5, <2>6
<1> QED  BY <1>3, <1>4, <1>5, <1>6, <1>7, <1>8, <1>9, <1>10 DEF IInv, Shape

\* Rollback keeps the invariant.
LEMMA RollbackKeeps == IInv /\ Rollback => IInv'
<1> SUFFICES ASSUME IInv, Rollback PROVE IInv'
  OBVIOUS
<1>1. /\ Shape /\ TypeOK /\ JournalsTyped /\ CurTyped /\ StateOfStep
      /\ MemorySaved /\ TargetVerified /\ LoadedInv /\ KeptInv
  BY DEF IInv, Shape
<1>2. /\ pc = "ready" /\ pc' = "lock"
      /\ clock' = clock + 1 /\ clock' \in Txs
      /\ cur' = [NoCur EXCEPT !.tx = clock']
      /\ cur'.tx = clock' /\ ~cur'.recovering /\ ~cur'.backed /\ cur'.todo = {}
      /\ cur' \in Locals
      /\ journal'[clock'].state = "prepared" /\ journal'[clock'].op = "rollback"
      /\ journal'[clock'].prev = NoRec /\ ~journal'[clock'].backed
      /\ journal'[clock'].version \in Versions
      /\ \A t \in Txs : t # clock' => journal'[t] = journal[t]
      /\ journal' \in [Txs -> Journals]
      /\ outcome' \in Outcomes
      /\ cost' \subseteq Costs /\ cost \subseteq cost' /\ ("kept" \notin cost' => NonePending)
      /\ Verifies(mem, journal'[clock'].version)
      /\ UNCHANGED <<payload, rec, backup, lock, mem, loaded, failures, promised, since>>
  BY <1>1, RollbackEffect
<1>t. clock \in Nat /\ since \in Nat /\ Txs \subseteq Nat \ {0}
  BY <1>1, BoundsAssumption DEF TypeOK, Txs
<1>3. TypeOK'
  <2>1. pc' \in Steps  BY <1>2, StepsByName DEF Steps, StartSteps, RemoveSteps
  <2>2. clock' \in 0..MaxTx /\ since' \in 0..MaxTx /\ loaded' \in 0..MaxVersion
    BY <1>1, <1>2, BoundsAssumption DEF TypeOK, Txs, None
  <2>3. cur' \in Locals /\ mem' \in Records /\ promised' \in Records /\ rec' \in Records
    BY <1>1, <1>2, Empties DEF TypeOK
  <2>4. outcome' \in Outcomes  BY <1>1, <1>2 DEF TypeOK, Outcomes
  <2> QED  BY <1>1, <1>2, <2>1, <2>2, <2>3, <2>4 DEF TypeOK
<1>4. JournalsTyped'
  BY <1>1, <1>2, StepsByName, <1>t DEF JournalsTyped, Started, Tx, Version
<1>5. CurTyped'
  BY <1>1, <1>2, StepsByName, <1>t
     DEF CurTyped, Started, Order, Tx, AtRest, RemoveSteps, TxSteps, FinishSteps
<1>6. StateOfStep'
  BY <1>1, <1>2, StepsByName
     DEF CurTyped, TxSteps, StateOfStep, Pending, Finishing, Undoing, Undone, FinishSteps, Tx
<1>7. MemorySaved'
  BY <1>1, <1>2, StepsByName, <1>t
     DEF CurTyped, StateOfStep, MemorySaved, Tx, OthersPending, LeftBehind, Pending,
         AfterSwitch, Undoing, Undone, AtRest, RemoveSteps, TxSteps, FinishSteps,
         JournalsTyped, Started
<1>8. TargetVerified'
  <2>1. clock' > clock  BY <1>2, <1>t
  <2>2. journal[clock'].state = "none"  BY <1>1, <1>2, <2>1 DEF JournalsTyped, Started
  <2>3. OthersPending => OthersPending'
    BY <1>2, <2>2 DEF OthersPending, Pending
  <2>4. mem # NoRec  BY <1>2 DEF Verifies, NoRec
  <2>5. mem = rec \/ OthersPending'  BY <1>1, <1>2, <2>3, <2>4 DEF MemorySaved
  <2>6. Tx'.op = "rollback" /\ Version' = journal'[clock'].version  BY <1>2 DEF Tx, Version
  <2>7. Verifies(mem, Version)'  BY <1>2, <2>6 DEF Verifies
  <2> QED  BY <1>2, <2>5, <2>6, <2>7 DEF TargetVerified, AfterSwitch
<1>9. LoadedInv'
  BY <1>1, <1>2, StepsByName, <1>t
     DEF CurTyped, StateOfStep, MemorySaved, LoadedInv, OthersPending, Pending, Tx, Ran,
         Undone, AfterSwitch, AtRest, RemoveSteps, TxSteps, FinishSteps, JournalsTyped,
         Started
<1>10. KeptInv'
  <2> SUFFICES ASSUME "kept" \notin cost'
               PROVE  (OnlyLastPending /\ WholeAtRest /\ LastRestorable /\ OpKept
                        /\ UndoKept)'
    BY DEF KeptInv
  <2>1. OnlyLastPending /\ WholeAtRest /\ LastRestorable /\ OpKept /\ UndoKept
    BY <1>1, <1>2 DEF KeptInv
  <2>2. OnlyLastPending'
    BY <1>1, <1>2, <2>1, StepsByName, <1>t
       DEF OnlyLastPending, Pending, CurTyped, StateOfStep, TxSteps, FinishSteps, Finishing,
           NonePending, JournalsTyped, Started
  <2>3. WholeAtRest'
    BY <1>1, <1>2, <2>1, StepsByName, <1>t
       DEF WholeAtRest, NonePending, Pending, Finishing, Whole, Verifies, RemoveSteps,
           CurTyped, StateOfStep, TxSteps, FinishSteps
  <2>4. LastRestorable'
    BY <1>1, <1>2, <2>1, StepsByName, <1>t
       DEF Tx, Version, OnlyLastPending, LastRestorable, Restorable, Last, Target, Pending,
           Finishing, Verifies, CurTyped, StateOfStep, TxSteps, FinishSteps
  <2>5. OpKept'
    <3>1. NonePending /\ rec = promised /\ Whole(rec)  BY <1>2, <2>1 DEF WholeAtRest
    <3>2. Whole(rec)'  BY <1>2, <3>1 DEF Whole, Verifies
    <3> QED  BY <1>2, <3>1, <3>2 DEF OpKept, Tx, AfterSwitch
  <2>6. UndoKept'
    BY <1>1, <1>2, <2>1, StepsByName
       DEF UndoKept, HasBackup, Whole, Verifies, Tx, Version, Pending, Finishing, Undoing,
           CurTyped, StateOfStep, TxSteps, FinishSteps
  <2> QED  BY <2>2, <2>3, <2>4, <2>5, <2>6
<1> QED  BY <1>3, <1>4, <1>5, <1>6, <1>7, <1>8, <1>9, <1>10 DEF IInv, Shape

\* Mark keeps the invariant.
LEMMA MarkKeeps == IInv /\ Mark => IInv'
<1> SUFFICES ASSUME IInv, Mark PROVE IInv'
  OBVIOUS
<1>1. /\ Shape /\ TypeOK /\ JournalsTyped /\ CurTyped /\ StateOfStep
      /\ MemorySaved /\ TargetVerified /\ LoadedInv /\ KeptInv
  BY DEF IInv, Shape
<1>2. /\ cur.tx \in Txs /\ cur.tx = clock /\ Started(cur.tx) /\ ~cur.recovering
      /\ \/ pc = "staged" /\ pc' = "validated" /\ Tx.op # "rollback"
         \/ pc = "validated" /\ pc' = "lock" /\ Tx.op # "rollback"
         \/ pc = "validated" /\ pc' = "activation_started" /\ Tx.op = "rollback"
         \/ pc = "activation_started" /\ pc' = "remove" /\ Tx.op # "rollback"
         \/ pc = "activation_started" /\ pc' = "active" /\ Tx.op = "rollback"
         \/ pc = "active_switched" /\ pc' = "activate"
         \/ pc = "activated" /\ pc' = "committed"
         \/ pc = "committed" /\ pc' = "unlock"
      /\ journal' \in [Txs -> Journals]
      /\ \A t \in Txs : t # cur.tx => journal'[t] = journal[t]
      /\ journal'[cur.tx].state = pc /\ journal'[cur.tx].backed = cur.backed
      /\ journal'[cur.tx].op = Tx.op /\ journal'[cur.tx].version = Version
      /\ journal'[cur.tx].prev = Tx.prev
      /\ UNCHANGED <<payload, rec, backup, lock, mem, loaded, cur, outcome, clock, failures,
                     promised, since, cost>>
  BY <1>1, MarkEffect
<1>3. TypeOK'
  BY <1>1, <1>2, StepsByName, Empties, BoundsAssumption
     DEF TypeOK, Steps, StartSteps, RemoveSteps, Outcomes, Txs, None
<1>4. JournalsTyped'
  BY <1>1, <1>2, StepsByName DEF JournalsTyped, Started, Tx, Version
<1>5. CurTyped'
  BY <1>1, <1>2, StepsByName
     DEF CurTyped, Started, Order, Tx, AtRest, RemoveSteps, TxSteps, FinishSteps
<1>6. StateOfStep'
  BY <1>1, <1>2, StepsByName
     DEF CurTyped, TxSteps, StateOfStep, Pending, Finishing, Undoing, Undone, FinishSteps, Tx
<1>7. MemorySaved'
  <2>1. OthersPending => OthersPending'  BY <1>2 DEF OthersPending, Pending
  <2>2. pc' \in {"validated", "lock"} => pc \in {"staged", "validated"}  BY <1>2
  <2>3. pc' \in {"activation_started", "remove", "active"} \cup AfterSwitch
            => pc \in {"activation_started"} \cup AfterSwitch
               \/ (pc = "validated" /\ Tx.op = "rollback")
    BY <1>2 DEF AfterSwitch
  <2>4. pc = "validated" /\ Tx.op = "rollback" => mem = rec
    BY <1>1 DEF MemorySaved
  <2>5. pc' = "validated" => Tx'.op # "rollback"  BY <1>2 DEF Tx
  <2> QED
    BY <1>1, <1>2, <2>1, <2>2, <2>3, <2>4, <2>5
       DEF MemorySaved, AfterSwitch, Undoing, Undone, FinishSteps
<1>8. TargetVerified'
  BY <1>1, <1>2, StepsByName
     DEF CurTyped, MemorySaved, TargetVerified, OthersPending, Pending, Verifies, Tx, Version,
         AfterSwitch, TxSteps
<1>9. LoadedInv'
  BY <1>1, <1>2, StepsByName
     DEF CurTyped, StateOfStep, MemorySaved, LoadedInv, OthersPending, Pending, Tx, Ran,
         Undone, AfterSwitch, AtRest, RemoveSteps, TxSteps, FinishSteps
<1>10. KeptInv'
  <2> SUFFICES ASSUME "kept" \notin cost'
               PROVE  (OnlyLastPending /\ WholeAtRest /\ LastRestorable /\ OpKept
                        /\ UndoKept)'
    BY DEF KeptInv
  <2>1. OnlyLastPending /\ WholeAtRest /\ LastRestorable /\ OpKept /\ UndoKept
    BY <1>1, <1>2 DEF KeptInv
  <2>2. OnlyLastPending'
    BY <1>1, <1>2, <2>1, StepsByName
       DEF OnlyLastPending, Pending, CurTyped, StateOfStep, TxSteps, FinishSteps, Finishing
  <2>3. WholeAtRest'
    <3>1. Whole(rec)' <=> Whole(rec)  BY <1>2 DEF Whole, Verifies
    <3>2. pc \in {"activated", "committed"} => Whole(rec)  BY <2>1 DEF OpKept, AfterSwitch
    <3> QED
      BY <1>2, <2>1, <3>1, <3>2 DEF WholeAtRest, NonePending, Pending, Finishing, RemoveSteps
  <2>4. LastRestorable'
    <3>1. Pending(cur.tx)  BY <1>1, <1>2, StepsByName DEF StateOfStep
    <3>2. /\ cur.tx = clock /\ clock \in Txs /\ Pending(clock)
          /\ Tx = Last /\ Version = Target
      BY <1>2, <2>1, <3>1, PendingIsLast
    <3>3. Tx.op # "rollback" => cur.backed = Tx.backed
      BY <1>1, <1>2, <2>1, Flags, StepsByName DEF OpKept, AfterSwitch, TxSteps
    <3>4. pc # "committed" => ~Finishing(cur.tx)  BY <1>1, <1>2, StepsByName DEF StateOfStep
    <3>5. ASSUME Tx.op # "rollback", pc # "committed" PROVE Restorable'
      <4>1. Restorable  BY <2>1, <3>2, <3>4, <3>5 DEF LastRestorable
      <4> QED  BY <1>2, <3>2, <3>3, <3>5, <4>1, RestorableKept
    <3>6. journal'[clock].op = Last.op
            /\ (pc = "committed" => Finishing(clock)' /\ pc' = "unlock")
      BY <1>2, <3>2 DEF Finishing
    <3> QED  BY <1>2, <3>2, <3>5, <3>6 DEF LastRestorable, Last
  <2>5. OpKept'
    BY <1>1, <1>2, <2>1, StepsByName
       DEF OpKept, Whole, Verifies, Tx, Version, AfterSwitch, CurTyped, StateOfStep, TxSteps,
           FinishSteps, Pending, Finishing
  <2>6. UndoKept'
    BY <1>1, <1>2, <2>1, StepsByName
       DEF UndoKept, HasBackup, Whole, Verifies, Tx, Version, Pending, Finishing, Undoing,
           CurTyped, StateOfStep, TxSteps, FinishSteps
  <2> QED  BY <2>2, <2>3, <2>4, <2>5, <2>6
<1> QED  BY <1>3, <1>4, <1>5, <1>6, <1>7, <1>8, <1>9, <1>10 DEF IInv, Shape

\* Lock keeps the invariant.
LEMMA LockKeeps == IInv /\ Lock => IInv'
<1> SUFFICES ASSUME IInv, Lock PROVE IInv'
  OBVIOUS
<1>1. /\ Shape /\ TypeOK /\ JournalsTyped /\ CurTyped /\ StateOfStep
      /\ MemorySaved /\ TargetVerified /\ LoadedInv /\ KeptInv
  BY DEF IInv, Shape
<1>2. /\ \/ pc = "lock" /\ pc' = "backup" /\ Tx.op # "rollback" /\ cur.tx \in Txs
              /\ cur.tx = clock /\ Started(cur.tx) /\ ~cur.recovering
         \/ pc = "lock" /\ pc' = "validated" /\ Tx.op = "rollback" /\ cur.tx \in Txs
              /\ cur.tx = clock /\ Started(cur.tx) /\ ~cur.recovering
         \/ pc = "undo_lock" /\ pc' = "undo_remove" /\ cur.tx \in Txs
         \/ pc = "un_lock" /\ pc' = "un_remove"
      /\ mem' = rec
      /\ lock' = "held"
      /\ UNCHANGED <<payload, rec, backup, journal, loaded, cur, outcome, clock, failures,
                     promised, since, cost>>
  BY <1>1, LockEffect
<1>3. TypeOK'
  BY <1>1, <1>2, StepsByName, Empties, BoundsAssumption
     DEF TypeOK, Steps, StartSteps, RemoveSteps, Outcomes, Txs, None
<1>4. JournalsTyped'
  BY <1>1, <1>2, StepsByName DEF JournalsTyped, Started, Tx, Version
<1>5. CurTyped'
  BY <1>1, <1>2, StepsByName
     DEF CurTyped, Started, Order, Tx, AtRest, RemoveSteps, TxSteps, FinishSteps
<1>6. StateOfStep'
  BY <1>1, <1>2, StepsByName
     DEF CurTyped, TxSteps, StateOfStep, Pending, Finishing, Undoing, Undone, FinishSteps, Tx
<1>7. MemorySaved'
  BY <1>1, <1>2, StepsByName
     DEF CurTyped, StateOfStep, MemorySaved, Tx, OthersPending, LeftBehind, Pending,
         AfterSwitch, Undoing, Undone, AtRest, RemoveSteps, TxSteps, FinishSteps
<1>8. TargetVerified'
  BY <1>1, <1>2, StepsByName
     DEF CurTyped, MemorySaved, TargetVerified, OthersPending, Pending, Verifies, Tx, Version,
         AfterSwitch, TxSteps
<1>9. LoadedInv'
  BY <1>1, <1>2, StepsByName
     DEF CurTyped, StateOfStep, MemorySaved, LoadedInv, OthersPending, Pending, Tx, Ran,
         Undone, AfterSwitch, AtRest, RemoveSteps, TxSteps, FinishSteps
<1>10. KeptInv'
  <2> SUFFICES ASSUME "kept" \notin cost'
               PROVE  (OnlyLastPending /\ WholeAtRest /\ LastRestorable /\ OpKept
                        /\ UndoKept)'
    BY DEF KeptInv
  <2>1. OnlyLastPending /\ WholeAtRest /\ LastRestorable /\ OpKept /\ UndoKept
    BY <1>1, <1>2 DEF KeptInv
  <2>2. OnlyLastPending'
    BY <1>1, <1>2, <2>1, StepsByName
       DEF OnlyLastPending, Pending, CurTyped, StateOfStep, TxSteps, FinishSteps, Finishing
  <2>3. WholeAtRest'
    BY <1>1, <1>2, <2>1, StepsByName
       DEF WholeAtRest, NonePending, Pending, Finishing, Whole, Verifies, RemoveSteps,
           CurTyped, StateOfStep, TxSteps, FinishSteps
  <2>4. LastRestorable'
    BY <1>1, <1>2, <2>1, StepsByName
       DEF Tx, Version, OnlyLastPending, LastRestorable, Restorable, Last, Target, Pending,
           Finishing, Verifies, CurTyped, StateOfStep, TxSteps, FinishSteps
  <2>5. OpKept'
    BY <1>1, <1>2, <2>1, StepsByName
       DEF OpKept, Whole, Verifies, Tx, Version, AfterSwitch, CurTyped, StateOfStep, TxSteps,
           FinishSteps, Pending, Finishing
  <2>6. UndoKept'
    BY <1>1, <1>2, <2>1, StepsByName
       DEF UndoKept, HasBackup, Whole, Verifies, Tx, Version, Pending, Finishing, Undoing,
           CurTyped, StateOfStep, TxSteps, FinishSteps
  <2> QED  BY <2>2, <2>3, <2>4, <2>5, <2>6
<1> QED  BY <1>3, <1>4, <1>5, <1>6, <1>7, <1>8, <1>9, <1>10 DEF IInv, Shape

\* LockTimeout keeps the invariant.
LEMMA LockTimeoutKeeps == IInv /\ LockTimeout => IInv'
<1> SUFFICES ASSUME IInv, LockTimeout PROVE IInv'
  OBVIOUS
<1>1. /\ Shape /\ TypeOK /\ JournalsTyped /\ CurTyped /\ StateOfStep
      /\ MemorySaved /\ TargetVerified /\ LoadedInv /\ KeptInv
  BY DEF IInv, Shape
<1>2. /\ \/ pc = "lock" /\ pc' = "fail" /\ UNCHANGED outcome /\ cur.tx \in Txs
              /\ cur.tx = clock /\ Started(cur.tx) /\ ~cur.recovering
         \/ pc = "undo_lock" /\ pc' = "remark" /\ UNCHANGED outcome /\ cur.recovering
              /\ cur.tx \in Txs
         \/ pc = "undo_lock" /\ pc' = "give_up" /\ UNCHANGED outcome /\ cur.tx \in Txs
              /\ cur.tx = clock /\ Started(cur.tx) /\ ~cur.recovering
         \/ pc = "un_lock" /\ pc' = "ready" /\ outcome' = "failed"
      /\ UNCHANGED <<payload, rec, backup, journal, lock, mem, loaded, cur, clock, failures,
                     promised, since, cost>>
  BY <1>1, LockTimeoutEffect
<1>3. TypeOK'
  BY <1>1, <1>2, StepsByName, Empties, BoundsAssumption
     DEF TypeOK, Steps, StartSteps, RemoveSteps, Outcomes, Txs, None
<1>4. JournalsTyped'
  BY <1>1, <1>2, StepsByName DEF JournalsTyped, Started, Tx, Version
<1>5. CurTyped'
  BY <1>1, <1>2, StepsByName
     DEF CurTyped, Started, Order, Tx, AtRest, RemoveSteps, TxSteps, FinishSteps
<1>6. StateOfStep'
  BY <1>1, <1>2, StepsByName
     DEF CurTyped, TxSteps, StateOfStep, Pending, Finishing, Undoing, Undone, FinishSteps, Tx
<1>7. MemorySaved'
  BY <1>1, <1>2, StepsByName
     DEF CurTyped, StateOfStep, MemorySaved, Tx, OthersPending, LeftBehind, Pending,
         AfterSwitch, Undoing, Undone, AtRest, RemoveSteps, TxSteps, FinishSteps
<1>8. TargetVerified'
  BY <1>1, <1>2, StepsByName
     DEF CurTyped, MemorySaved, TargetVerified, OthersPending, Pending, Verifies, Tx, Version,
         AfterSwitch, TxSteps
<1>9. LoadedInv'
  BY <1>1, <1>2, StepsByName
     DEF CurTyped, StateOfStep, MemorySaved, LoadedInv, OthersPending, Pending, Tx, Ran,
         Undone, AfterSwitch, AtRest, RemoveSteps, TxSteps, FinishSteps
<1>10. KeptInv'
  <2> SUFFICES ASSUME "kept" \notin cost'
               PROVE  (OnlyLastPending /\ WholeAtRest /\ LastRestorable /\ OpKept
                        /\ UndoKept)'
    BY DEF KeptInv
  <2>1. OnlyLastPending /\ WholeAtRest /\ LastRestorable /\ OpKept /\ UndoKept
    BY <1>1, <1>2 DEF KeptInv
  <2>2. OnlyLastPending'
    BY <1>1, <1>2, <2>1, StepsByName
       DEF OnlyLastPending, Pending, CurTyped, StateOfStep, TxSteps, FinishSteps, Finishing
  <2>3. WholeAtRest'
    BY <1>1, <1>2, <2>1, StepsByName
       DEF WholeAtRest, NonePending, Pending, Finishing, Whole, Verifies, RemoveSteps,
           CurTyped, StateOfStep, TxSteps, FinishSteps
  <2>4. LastRestorable'
    BY <1>1, <1>2, <2>1, StepsByName
       DEF Tx, Version, OnlyLastPending, LastRestorable, Restorable, Last, Target, Pending,
           Finishing, Verifies, CurTyped, StateOfStep, TxSteps, FinishSteps
  <2>5. OpKept'
    BY <1>1, <1>2, <2>1, StepsByName
       DEF OpKept, Whole, Verifies, Tx, Version, AfterSwitch, CurTyped, StateOfStep, TxSteps,
           FinishSteps, Pending, Finishing
  <2>6. UndoKept'
    <3>1. pc = "lock" => cur.backed = Tx.backed
      BY <1>1, <2>1, Flags, StepsByName DEF OpKept, TxSteps
    <3>2. pc = "undo_lock" => cur.backed = Tx.backed  BY <2>1 DEF UndoKept
    <3>3. pc = "undo_lock" => Pending(cur.tx) /\ ~Finishing(cur.tx)
      BY <1>1, StepsByName DEF StateOfStep
    <3> QED  BY <1>2, <3>1, <3>2, <3>3 DEF UndoKept, Tx, Pending, Finishing, Undoing
  <2> QED  BY <2>2, <2>3, <2>4, <2>5, <2>6
<1> QED  BY <1>3, <1>4, <1>5, <1>6, <1>7, <1>8, <1>9, <1>10 DEF IInv, Shape

\* Backup keeps the invariant.
LEMMA BackupKeeps == IInv /\ Backup => IInv'
<1> SUFFICES ASSUME IInv, Backup PROVE IInv'
  OBVIOUS
<1>1. /\ Shape /\ TypeOK /\ JournalsTyped /\ CurTyped /\ StateOfStep
      /\ MemorySaved /\ TargetVerified /\ LoadedInv /\ KeptInv
  BY DEF IInv, Shape
<1>2. /\ pc = "backup" /\ Version \in Versions /\ Tx.op # "rollback"
      /\ cur.tx \in Txs /\ cur.tx = clock /\ Started(cur.tx) /\ ~cur.recovering
      /\ \/ payload[Version] = None /\ pc' = "activation_started" /\ UNCHANGED <<backup, cur>>
         \/ /\ payload[Version] # None
            /\ pc' = "name"
            /\ backup'[cur.tx] = payload[Version]
            /\ \A t \in Txs : t # cur.tx => backup'[t] = backup[t]
            /\ cur'.backed /\ cur'.tx = cur.tx /\ ~cur'.recovering /\ cur'.todo = cur.todo
      /\ backup' \in [Txs -> Contents]
      /\ cur' \in Locals
      /\ UNCHANGED <<payload, rec, journal, lock, mem, loaded, outcome, clock, failures,
                     promised, since, cost>>
  BY <1>1, BackupEffect
<1>3. TypeOK'
  BY <1>1, <1>2, StepsByName, Empties, BoundsAssumption
     DEF TypeOK, Steps, StartSteps, RemoveSteps, Outcomes, Txs, None
<1>4. JournalsTyped'
  BY <1>1, <1>2, StepsByName DEF JournalsTyped, Started, Tx, Version
<1>5. CurTyped'
  BY <1>1, <1>2, StepsByName
     DEF CurTyped, Started, Order, Tx, AtRest, RemoveSteps, TxSteps, FinishSteps
<1>6. StateOfStep'
  BY <1>1, <1>2, StepsByName
     DEF CurTyped, TxSteps, StateOfStep, Pending, Finishing, Undoing, Undone, FinishSteps, Tx
<1>7. MemorySaved'
  BY <1>1, <1>2, StepsByName
     DEF CurTyped, StateOfStep, MemorySaved, Tx, OthersPending, LeftBehind, Pending,
         AfterSwitch, Undoing, Undone, AtRest, RemoveSteps, TxSteps, FinishSteps
<1>8. TargetVerified'
  BY <1>1, <1>2, StepsByName
     DEF CurTyped, MemorySaved, TargetVerified, OthersPending, Pending, Verifies, Tx, Version,
         AfterSwitch, TxSteps
<1>9. LoadedInv'
  BY <1>1, <1>2, StepsByName
     DEF CurTyped, StateOfStep, MemorySaved, LoadedInv, OthersPending, Pending, Tx, Ran,
         Undone, AfterSwitch, AtRest, RemoveSteps, TxSteps, FinishSteps
<1>10. KeptInv'
  <2> SUFFICES ASSUME "kept" \notin cost'
               PROVE  (OnlyLastPending /\ WholeAtRest /\ LastRestorable /\ OpKept
                        /\ UndoKept)'
    BY DEF KeptInv
  <2>1. OnlyLastPending /\ WholeAtRest /\ LastRestorable /\ OpKept /\ UndoKept
    BY <1>1, <1>2 DEF KeptInv
  <2>2. OnlyLastPending'
    BY <1>1, <1>2, <2>1, StepsByName
       DEF OnlyLastPending, Pending, CurTyped, StateOfStep, TxSteps, FinishSteps, Finishing
  <2>3. WholeAtRest'
    BY <1>1, <1>2, <2>1, StepsByName
       DEF WholeAtRest, NonePending, Pending, Finishing, Whole, Verifies, RemoveSteps,
           CurTyped, StateOfStep, TxSteps, FinishSteps
  <2>4. LastRestorable'
    <3>1. Pending(cur.tx)  BY <1>1, <1>2, StepsByName DEF StateOfStep
    <3>2. /\ cur.tx = clock /\ clock \in Txs /\ Pending(clock)
          /\ Tx = Last /\ Version = Target
      BY <1>2, <2>1, <3>1, PendingIsLast
    <3>3. Restorable
      BY <1>1, <1>2, <2>1, <3>2, StepsByName DEF LastRestorable, StateOfStep
    <3>4. ~Last.backed  BY <1>2, <2>1, <3>2 DEF OpKept
    <3>5. Restorable'  BY <1>2, <3>2, <3>3, <3>4, RestorableKept DEF Last, Target
    <3> QED  BY <3>5 DEF LastRestorable
  <2>5. OpKept'
    <3>1. rec = promised /\ Whole(rec) /\ ~cur.backed /\ ~Tx.backed  BY <1>2, <2>1 DEF OpKept
    <3>2. payload[Version] = None <=> Version \notin promised.versions
      BY <1>2, <3>1 DEF Whole, Verifies
    <3>3. Whole(rec)'  BY <1>2, <3>1 DEF Whole, Verifies
    <3>4. Tx' = Tx /\ Version' = Version  BY <1>2 DEF Tx, Version
    <3>5. cur.backed = Tx.backed  BY <1>1, <1>2, <3>1, Flags, StepsByName DEF TxSteps
    <3> QED  BY <1>2, <3>1, <3>2, <3>3, <3>4, <3>5 DEF OpKept, AfterSwitch
  <2>6. UndoKept'
    BY <1>1, <1>2, <2>1, StepsByName
       DEF UndoKept, HasBackup, Whole, Verifies, Tx, Version, Pending, Finishing, Undoing,
           CurTyped, StateOfStep, TxSteps, FinishSteps
  <2> QED  BY <2>2, <2>3, <2>4, <2>5, <2>6
<1> QED  BY <1>3, <1>4, <1>5, <1>6, <1>7, <1>8, <1>9, <1>10 DEF IInv, Shape

\* NameBackup keeps the invariant.
LEMMA NameBackupKeeps == IInv /\ NameBackup => IInv'
<1> SUFFICES ASSUME IInv, NameBackup PROVE IInv'
  OBVIOUS
<1>1. /\ Shape /\ TypeOK /\ JournalsTyped /\ CurTyped /\ StateOfStep
      /\ MemorySaved /\ TargetVerified /\ LoadedInv /\ KeptInv
  BY DEF IInv, Shape
<1>2. /\ pc = "name" /\ pc' = "activation_started" /\ Tx.op # "rollback"
      /\ cur.tx \in Txs /\ cur.tx = clock /\ Started(cur.tx) /\ ~cur.recovering
      /\ journal' \in [Txs -> Journals]
      /\ \A t \in Txs : t # cur.tx => journal'[t] = journal[t]
      /\ journal'[cur.tx].state = Tx.state /\ journal'[cur.tx].backed = cur.backed
      /\ journal'[cur.tx].op = Tx.op /\ journal'[cur.tx].version = Version
      /\ journal'[cur.tx].prev = Tx.prev
      /\ UNCHANGED <<payload, rec, backup, lock, mem, loaded, cur, outcome, clock, failures,
                     promised, since, cost>>
  BY <1>1, NameBackupEffect
<1>3. TypeOK'
  BY <1>1, <1>2, StepsByName, Empties, BoundsAssumption
     DEF TypeOK, Steps, StartSteps, RemoveSteps, Outcomes, Txs, None
<1>4. JournalsTyped'
  BY <1>1, <1>2, StepsByName DEF JournalsTyped, Started, Tx, Version
<1>5. CurTyped'
  BY <1>1, <1>2, StepsByName
     DEF CurTyped, Started, Order, Tx, AtRest, RemoveSteps, TxSteps, FinishSteps
<1>6. StateOfStep'
  BY <1>1, <1>2, StepsByName
     DEF CurTyped, TxSteps, StateOfStep, Pending, Finishing, Undoing, Undone, FinishSteps, Tx
<1>7. MemorySaved'
  BY <1>1, <1>2, StepsByName
     DEF CurTyped, StateOfStep, MemorySaved, Tx, OthersPending, LeftBehind, Pending,
         AfterSwitch, Undoing, Undone, AtRest, RemoveSteps, TxSteps, FinishSteps
<1>8. TargetVerified'
  BY <1>1, <1>2, StepsByName
     DEF CurTyped, MemorySaved, TargetVerified, OthersPending, Pending, Verifies, Tx, Version,
         AfterSwitch, TxSteps
<1>9. LoadedInv'
  BY <1>1, <1>2, StepsByName
     DEF CurTyped, StateOfStep, MemorySaved, LoadedInv, OthersPending, Pending, Tx, Ran,
         Undone, AfterSwitch, AtRest, RemoveSteps, TxSteps, FinishSteps
<1>10. KeptInv'
  <2> SUFFICES ASSUME "kept" \notin cost'
               PROVE  (OnlyLastPending /\ WholeAtRest /\ LastRestorable /\ OpKept
                        /\ UndoKept)'
    BY DEF KeptInv
  <2>1. OnlyLastPending /\ WholeAtRest /\ LastRestorable /\ OpKept /\ UndoKept
    BY <1>1, <1>2 DEF KeptInv
  <2>2. OnlyLastPending'
    BY <1>1, <1>2, <2>1, StepsByName
       DEF OnlyLastPending, Pending, CurTyped, StateOfStep, TxSteps, FinishSteps, Finishing
  <2>3. WholeAtRest'
    <3>1. Whole(rec)' <=> Whole(rec)  BY <1>2 DEF Whole, Verifies
    <3>2. Pending(cur.tx) /\ ~Finishing(cur.tx)  BY <1>1, <1>2, StepsByName DEF StateOfStep
    <3> QED
      BY <1>2, <2>1, <3>1, <3>2
         DEF WholeAtRest, NonePending, Pending, Finishing, RemoveSteps, Tx
  <2>4. LastRestorable'
    <3>1. Pending(cur.tx)  BY <1>1, <1>2, StepsByName DEF StateOfStep
    <3>2. /\ cur.tx = clock /\ clock \in Txs /\ Pending(clock)
          /\ Tx = Last /\ Version = Target
      BY <1>2, <2>1, <3>1, PendingIsLast
    <3>3. Restorable
      BY <1>1, <1>2, <2>1, <3>2, StepsByName DEF LastRestorable, StateOfStep
    <3>4. Target \in promised.versions /\ cur.backed /\ ~Last.backed
            /\ backup[clock] = payload[Target]
      BY <1>2, <2>1, <3>2 DEF OpKept
    <3>5. Verifies(promised, Target)  BY <3>3, <3>4 DEF Restorable
    <3>6. Last' = journal'[clock] /\ Target' = Target  BY <1>2, <3>2 DEF Last, Target
    <3>7. Restorable'  BY <1>2, <3>2, <3>3, <3>4, <3>5, <3>6 DEF Restorable, Verifies
    <3> QED  BY <3>7 DEF LastRestorable
  <2>5. OpKept'
    BY <1>1, <1>2, <2>1, StepsByName
       DEF OpKept, Whole, Verifies, Tx, Version, AfterSwitch, CurTyped, StateOfStep, TxSteps,
           FinishSteps, Pending, Finishing
  <2>6. UndoKept'
    BY <1>1, <1>2, <2>1, StepsByName
       DEF UndoKept, HasBackup, Whole, Verifies, Tx, Version, Pending, Finishing, Undoing,
           CurTyped, StateOfStep, TxSteps, FinishSteps
  <2> QED  BY <2>2, <2>3, <2>4, <2>5, <2>6
<1> QED  BY <1>3, <1>4, <1>5, <1>6, <1>7, <1>8, <1>9, <1>10 DEF IInv, Shape

\* RemoveTarget keeps the invariant.
LEMMA RemoveTargetKeeps == IInv /\ RemoveTarget => IInv'
<1> SUFFICES ASSUME IInv, RemoveTarget PROVE IInv'
  OBVIOUS
<1>1. /\ Shape /\ TypeOK /\ JournalsTyped /\ CurTyped /\ StateOfStep
      /\ MemorySaved /\ TargetVerified /\ LoadedInv /\ KeptInv
  BY DEF IInv, Shape
<1>2. /\ pc = "remove" /\ pc' = "copy" /\ Tx.op # "rollback"
      /\ cur.tx \in Txs /\ cur.tx = clock /\ Started(cur.tx) /\ ~cur.recovering
      /\ Version \in Versions
      /\ mem' \in Records
      /\ mem'.versions = mem.versions \cup {Version}
      /\ mem'.hashes = mem.hashes
      /\ mem'.active = (IF mem = NoRec THEN Version ELSE mem.active)
      /\ payload' \in [Versions -> Contents]
      /\ \A v \in Versions \ {Version} : payload'[v] = payload[v]
      /\ UNCHANGED <<rec, backup, journal, lock, loaded, cur, outcome, clock, failures,
                     promised, since, cost>>
  BY <1>1, RemoveTargetEffect
<1>3. TypeOK'
  BY <1>1, <1>2, StepsByName, Empties, BoundsAssumption
     DEF TypeOK, Steps, StartSteps, RemoveSteps, Outcomes, Txs, None
<1>4. JournalsTyped'
  BY <1>1, <1>2, StepsByName DEF JournalsTyped, Started, Tx, Version
<1>5. CurTyped'
  BY <1>1, <1>2, StepsByName
     DEF CurTyped, Started, Order, Tx, AtRest, RemoveSteps, TxSteps, FinishSteps
<1>6. StateOfStep'
  BY <1>1, <1>2, StepsByName
     DEF CurTyped, TxSteps, StateOfStep, Pending, Finishing, Undoing, Undone, FinishSteps, Tx
<1>7. MemorySaved'
  BY <1>1, <1>2, StepsByName
     DEF CurTyped, StateOfStep, MemorySaved, Tx, OthersPending, LeftBehind, Pending,
         AfterSwitch, Undoing, Undone, AtRest, RemoveSteps, TxSteps, FinishSteps
<1>8. TargetVerified'
  BY <1>1, <1>2, StepsByName
     DEF CurTyped, MemorySaved, TargetVerified, OthersPending, Pending, Verifies, Tx, Version,
         AfterSwitch, TxSteps
<1>9. LoadedInv'
  BY <1>1, <1>2, StepsByName
     DEF CurTyped, StateOfStep, MemorySaved, LoadedInv, OthersPending, Pending, Tx, Ran,
         Undone, AfterSwitch, AtRest, RemoveSteps, TxSteps, FinishSteps
<1>10. KeptInv'
  <2> SUFFICES ASSUME "kept" \notin cost'
               PROVE  (OnlyLastPending /\ WholeAtRest /\ LastRestorable /\ OpKept
                        /\ UndoKept)'
    BY DEF KeptInv
  <2>1. OnlyLastPending /\ WholeAtRest /\ LastRestorable /\ OpKept /\ UndoKept
    BY <1>1, <1>2 DEF KeptInv
  <2>2. OnlyLastPending'
    BY <1>1, <1>2, <2>1, StepsByName
       DEF OnlyLastPending, Pending, CurTyped, StateOfStep, TxSteps, FinishSteps, Finishing
  <2>3. WholeAtRest'
    BY <1>1, <1>2, <2>1, StepsByName
       DEF WholeAtRest, NonePending, Pending, Finishing, Whole, Verifies, RemoveSteps,
           CurTyped, StateOfStep, TxSteps, FinishSteps
  <2>4. LastRestorable'
    <3>1. Pending(cur.tx)  BY <1>1, <1>2, StepsByName DEF StateOfStep
    <3>2. /\ cur.tx = clock /\ clock \in Txs /\ Pending(clock)
          /\ Tx = Last /\ Version = Target
      BY <1>2, <2>1, <3>1, PendingIsLast
    <3>3. Restorable
      BY <1>1, <1>2, <2>1, <3>2, StepsByName DEF LastRestorable, StateOfStep
    <3>4. Target \in promised.versions => Last.backed  BY <1>2, <2>1, <3>2 DEF OpKept
    <3>5. Restorable'  BY <1>2, <3>2, <3>3, <3>4, RestorableKept DEF Last, Target
    <3> QED  BY <3>5 DEF LastRestorable
  <2>5. OpKept'
    <3>1. rec = promised /\ Whole(rec) /\ mem = rec
      BY <1>1, <1>2, <2>1 DEF OpKept, MemorySaved
    <3>2. cur.backed = Tx.backed /\ (Version \in promised.versions => cur.backed)
      BY <1>2, <2>1 DEF OpKept
    <3>3. mem'.active \in mem'.versions  BY <1>2, <3>1 DEF Whole
    <3>4. Tx' = Tx /\ Version' = Version  BY <1>2 DEF Tx, Version
    <3> QED  BY <1>2, <3>1, <3>2, <3>3, <3>4 DEF OpKept, AfterSwitch
  <2>6. UndoKept'
    BY <1>1, <1>2, <2>1, StepsByName
       DEF UndoKept, HasBackup, Whole, Verifies, Tx, Version, Pending, Finishing, Undoing,
           CurTyped, StateOfStep, TxSteps, FinishSteps
  <2> QED  BY <2>2, <2>3, <2>4, <2>5, <2>6
<1> QED  BY <1>3, <1>4, <1>5, <1>6, <1>7, <1>8, <1>9, <1>10 DEF IInv, Shape

\* CopyTarget keeps the invariant.
LEMMA CopyTargetKeeps == IInv /\ CopyTarget => IInv'
<1> SUFFICES ASSUME IInv, CopyTarget PROVE IInv'
  OBVIOUS
<1>1. /\ Shape /\ TypeOK /\ JournalsTyped /\ CurTyped /\ StateOfStep
      /\ MemorySaved /\ TargetVerified /\ LoadedInv /\ KeptInv
  BY DEF IInv, Shape
<1>2. /\ pc = "copy" /\ pc' = "record" /\ Tx.op # "rollback"
      /\ cur.tx \in Txs /\ cur.tx = clock /\ Started(cur.tx) /\ ~cur.recovering
      /\ Version \in Versions
      /\ payload' \in [Versions -> Contents]
      /\ payload'[Version] = cur.tx
      /\ \A v \in Versions \ {Version} : payload'[v] = payload[v]
      /\ UNCHANGED <<rec, backup, journal, lock, mem, loaded, cur, outcome, clock, failures,
                     promised, since, cost>>
  BY <1>1, CopyTargetEffect
<1>3. TypeOK'
  BY <1>1, <1>2, StepsByName, Empties, BoundsAssumption
     DEF TypeOK, Steps, StartSteps, RemoveSteps, Outcomes, Txs, None
<1>4. JournalsTyped'
  BY <1>1, <1>2, StepsByName DEF JournalsTyped, Started, Tx, Version
<1>5. CurTyped'
  BY <1>1, <1>2, StepsByName
     DEF CurTyped, Started, Order, Tx, AtRest, RemoveSteps, TxSteps, FinishSteps
<1>6. StateOfStep'
  BY <1>1, <1>2, StepsByName
     DEF CurTyped, TxSteps, StateOfStep, Pending, Finishing, Undoing, Undone, FinishSteps, Tx
<1>7. MemorySaved'
  BY <1>1, <1>2, StepsByName
     DEF CurTyped, StateOfStep, MemorySaved, Tx, OthersPending, LeftBehind, Pending,
         AfterSwitch, Undoing, Undone, AtRest, RemoveSteps, TxSteps, FinishSteps
<1>8. TargetVerified'
  BY <1>1, <1>2, StepsByName
     DEF CurTyped, MemorySaved, TargetVerified, OthersPending, Pending, Verifies, Tx, Version,
         AfterSwitch, TxSteps
<1>9. LoadedInv'
  BY <1>1, <1>2, StepsByName
     DEF CurTyped, StateOfStep, MemorySaved, LoadedInv, OthersPending, Pending, Tx, Ran,
         Undone, AfterSwitch, AtRest, RemoveSteps, TxSteps, FinishSteps
<1>10. KeptInv'
  <2> SUFFICES ASSUME "kept" \notin cost'
               PROVE  (OnlyLastPending /\ WholeAtRest /\ LastRestorable /\ OpKept
                        /\ UndoKept)'
    BY DEF KeptInv
  <2>1. OnlyLastPending /\ WholeAtRest /\ LastRestorable /\ OpKept /\ UndoKept
    BY <1>1, <1>2 DEF KeptInv
  <2>2. OnlyLastPending'
    BY <1>1, <1>2, <2>1, StepsByName
       DEF OnlyLastPending, Pending, CurTyped, StateOfStep, TxSteps, FinishSteps, Finishing
  <2>3. WholeAtRest'
    BY <1>1, <1>2, <2>1, StepsByName
       DEF WholeAtRest, NonePending, Pending, Finishing, Whole, Verifies, RemoveSteps,
           CurTyped, StateOfStep, TxSteps, FinishSteps
  <2>4. LastRestorable'
    <3>1. Pending(cur.tx)  BY <1>1, <1>2, StepsByName DEF StateOfStep
    <3>2. /\ cur.tx = clock /\ clock \in Txs /\ Pending(clock)
          /\ Tx = Last /\ Version = Target
      BY <1>2, <2>1, <3>1, PendingIsLast
    <3>3. Restorable
      BY <1>1, <1>2, <2>1, <3>2, StepsByName DEF LastRestorable, StateOfStep
    <3>4. Target \in promised.versions => Last.backed  BY <1>2, <2>1, <3>2 DEF OpKept
    <3>5. Restorable'  BY <1>2, <3>2, <3>3, <3>4, RestorableKept DEF Last, Target
    <3> QED  BY <3>5 DEF LastRestorable
  <2>5. OpKept'
    BY <1>1, <1>2, <2>1, StepsByName
       DEF OpKept, Whole, Verifies, Tx, Version, AfterSwitch, CurTyped, StateOfStep, TxSteps,
           FinishSteps, Pending, Finishing
  <2>6. UndoKept'
    BY <1>1, <1>2, <2>1, StepsByName
       DEF UndoKept, HasBackup, Whole, Verifies, Tx, Version, Pending, Finishing, Undoing,
           CurTyped, StateOfStep, TxSteps, FinishSteps
  <2> QED  BY <2>2, <2>3, <2>4, <2>5, <2>6
<1> QED  BY <1>3, <1>4, <1>5, <1>6, <1>7, <1>8, <1>9, <1>10 DEF IInv, Shape

\* SaveRecord keeps the invariant.
LEMMA SaveRecordKeeps == IInv /\ SaveRecord => IInv'
<1> SUFFICES ASSUME IInv, SaveRecord PROVE IInv'
  OBVIOUS
<1>1. /\ Shape /\ TypeOK /\ JournalsTyped /\ CurTyped /\ StateOfStep
      /\ MemorySaved /\ TargetVerified /\ LoadedInv /\ KeptInv
  BY DEF IInv, Shape
<1>2. /\ cur.tx \in Txs /\ cur.tx = clock /\ Started(cur.tx) /\ ~cur.recovering
      /\ Version \in Versions /\ mem' \in Records /\ rec' = mem'
      /\ mem'.versions = mem.versions
      /\ \/ /\ pc = "record" /\ pc' = "active" /\ Tx.op # "rollback"
            /\ mem'.active = mem.active /\ mem'.hashes[Version] = payload[Version]
            /\ \A v \in Versions \ {Version} : mem'.hashes[v] = mem.hashes[v]
         \/ /\ pc = "active" /\ pc' = "active_switched" /\ Version \in mem.versions
            /\ mem'.active = Version /\ mem'.hashes = mem.hashes
      /\ UNCHANGED <<payload, backup, journal, lock, loaded, cur, outcome, clock, failures,
                     promised, since, cost>>
  BY <1>1, SaveRecordEffect
<1>3. TypeOK'
  BY <1>1, <1>2, StepsByName, Empties, BoundsAssumption
     DEF TypeOK, Steps, StartSteps, RemoveSteps, Outcomes, Txs, None
<1>4. JournalsTyped'
  BY <1>1, <1>2, StepsByName DEF JournalsTyped, Started, Tx, Version
<1>5. CurTyped'
  BY <1>1, <1>2, StepsByName
     DEF CurTyped, Started, Order, Tx, AtRest, RemoveSteps, TxSteps, FinishSteps
<1>6. StateOfStep'
  BY <1>1, <1>2, StepsByName
     DEF CurTyped, TxSteps, StateOfStep, Pending, Finishing, Undoing, Undone, FinishSteps, Tx
<1>7. MemorySaved'
  BY <1>1, <1>2, StepsByName
     DEF CurTyped, StateOfStep, MemorySaved, Tx, OthersPending, LeftBehind, Pending,
         AfterSwitch, Undoing, Undone, AtRest, RemoveSteps, TxSteps, FinishSteps
<1>8. TargetVerified'
  <2>1. cur.tx # None /\ cur.tx # Partial  BY <1>2, BoundsAssumption DEF Txs, None, Partial
  <2>2. OthersPending => OthersPending'  BY <1>2 DEF OthersPending, Pending
  <2> QED  BY <1>1, <1>2, <2>1, <2>2 DEF TargetVerified, Verifies, Tx, Version, AfterSwitch
<1>9. LoadedInv'
  BY <1>1, <1>2, StepsByName
     DEF CurTyped, StateOfStep, MemorySaved, LoadedInv, OthersPending, Pending, Tx, Ran,
         Undone, AfterSwitch, AtRest, RemoveSteps, TxSteps, FinishSteps
<1>10. KeptInv'
  <2> SUFFICES ASSUME "kept" \notin cost'
               PROVE  (OnlyLastPending /\ WholeAtRest /\ LastRestorable /\ OpKept
                        /\ UndoKept)'
    BY DEF KeptInv
  <2>1. OnlyLastPending /\ WholeAtRest /\ LastRestorable /\ OpKept /\ UndoKept
    BY <1>1, <1>2 DEF KeptInv
  <2>2. OnlyLastPending'
    BY <1>1, <1>2, <2>1, StepsByName
       DEF OnlyLastPending, Pending, CurTyped, StateOfStep, TxSteps, FinishSteps, Finishing
  <2>3. WholeAtRest'
    BY <1>1, <1>2, <2>1, StepsByName
       DEF WholeAtRest, NonePending, Pending, Finishing, Whole, Verifies, RemoveSteps,
           CurTyped, StateOfStep, TxSteps, FinishSteps
  <2>4. LastRestorable'
    BY <1>1, <1>2, <2>1, StepsByName
       DEF Tx, Version, OnlyLastPending, LastRestorable, Restorable, Last, Target, Pending,
           Finishing, Verifies, CurTyped, StateOfStep, TxSteps, FinishSteps
  <2>5. OpKept'
    <3>1. Pending(cur.tx)  BY <1>1, <1>2, StepsByName DEF StateOfStep
    <3>2. /\ cur.tx = clock /\ clock \in Txs /\ Pending(clock)
          /\ Tx = Last /\ Version = Target
      BY <1>2, <2>1, <3>1, PendingIsLast
    <3>3. Tx' = Tx /\ Version' = Version  BY <1>2 DEF Tx, Version
    <3>4. CASE pc = "record"
      <4>1. Restorable
        BY <1>1, <1>2, <2>1, <3>2, <3>4, StepsByName DEF LastRestorable, StateOfStep
      <4>2. cur.backed = Tx.backed /\ (Version \in promised.versions => cur.backed)
        BY <1>2, <2>1, <3>4 DEF OpKept
      <4>3. /\ mem.versions = promised.versions \cup {Version} /\ mem.active \in mem.versions
            /\ \A w \in Versions \ {Version} : mem.hashes[w] = promised.hashes[w]
        BY <2>1, <3>4 DEF OpKept
      <4>4. payload[Version] \notin {None, Partial}
        BY <1>1, <1>2, <3>4, BoundsAssumption DEF TargetVerified, Txs, None, Partial
      <4>5. \A w \in Versions : IF w \in rec'.versions THEN Verifies(rec,
              w)' ELSE payload'[w] = None
        BY <1>2, <3>2, <3>4, <4>1, <4>3, <4>4 DEF Restorable, Verifies
      <4>6. Whole(rec)'  BY <1>2, <3>4, <4>3, <4>5 DEF Whole
      <4> QED  BY <1>2, <3>3, <3>4, <4>2, <4>6 DEF OpKept, AfterSwitch
    <3>5. CASE pc = "active"
      <4>1. Whole(rec) /\ mem = rec  BY <1>1, <2>1, <3>5 DEF OpKept, MemorySaved
      <4>2. Whole(rec)'  BY <1>2, <3>5, <4>1 DEF Whole, Verifies
      <4>3. /\ Tx.op # "rollback" => /\ cur.backed = Tx.backed
                                     /\ Version \in promised.versions => cur.backed
            /\ Tx.op = "rollback" => ~cur.backed /\ ~Tx.backed
        BY <2>1, <3>5, StepsByName DEF OpKept
      <4> QED  BY <1>2, <3>3, <3>5, <4>2, <4>3 DEF OpKept, AfterSwitch
    <3> QED  BY <1>2, <3>4, <3>5
  <2>6. UndoKept'
    BY <1>1, <1>2, <2>1, StepsByName
       DEF UndoKept, HasBackup, Whole, Verifies, Tx, Version, Pending, Finishing, Undoing,
           CurTyped, StateOfStep, TxSteps, FinishSteps
  <2> QED  BY <2>2, <2>3, <2>4, <2>5, <2>6
<1> QED  BY <1>3, <1>4, <1>5, <1>6, <1>7, <1>8, <1>9, <1>10 DEF IInv, Shape

\* UnknownVersion keeps the invariant.
LEMMA UnknownVersionKeeps == IInv /\ UnknownVersion => IInv'
<1> SUFFICES ASSUME IInv, UnknownVersion PROVE IInv'
  OBVIOUS
<1>1. /\ Shape /\ TypeOK /\ JournalsTyped /\ CurTyped /\ StateOfStep
      /\ MemorySaved /\ TargetVerified /\ LoadedInv /\ KeptInv
  BY DEF IInv, Shape
<1>2. /\ pc = "active" /\ pc' = "fail"
      /\ cur.tx \in Txs /\ cur.tx = clock /\ Started(cur.tx) /\ ~cur.recovering
      /\ Version \notin mem.versions
      /\ lock' = "free"
      /\ UNCHANGED <<payload, rec, backup, journal, mem, loaded, cur, outcome, clock,
                     failures, promised, since, cost>>
  BY <1>1, UnknownVersionEffect
<1>3. TypeOK'
  BY <1>1, <1>2, StepsByName, Empties, BoundsAssumption
     DEF TypeOK, Steps, StartSteps, RemoveSteps, Outcomes, Txs, None
<1>4. JournalsTyped'
  BY <1>1, <1>2, StepsByName DEF JournalsTyped, Started, Tx, Version
<1>5. CurTyped'
  BY <1>1, <1>2, StepsByName
     DEF CurTyped, Started, Order, Tx, AtRest, RemoveSteps, TxSteps, FinishSteps
<1>6. StateOfStep'
  BY <1>1, <1>2, StepsByName
     DEF CurTyped, TxSteps, StateOfStep, Pending, Finishing, Undoing, Undone, FinishSteps, Tx
<1>7. MemorySaved'
  BY <1>1, <1>2, StepsByName
     DEF CurTyped, StateOfStep, MemorySaved, Tx, OthersPending, LeftBehind, Pending,
         AfterSwitch, Undoing, Undone, AtRest, RemoveSteps, TxSteps, FinishSteps
<1>8. TargetVerified'
  BY <1>1, <1>2, StepsByName
     DEF CurTyped, MemorySaved, TargetVerified, OthersPending, Pending, Verifies, Tx, Version,
         AfterSwitch, TxSteps
<1>9. LoadedInv'
  BY <1>1, <1>2, StepsByName
     DEF CurTyped, StateOfStep, MemorySaved, LoadedInv, OthersPending, Pending, Tx, Ran,
         Undone, AfterSwitch, AtRest, RemoveSteps, TxSteps, FinishSteps
<1>10. KeptInv'
  <2> SUFFICES ASSUME "kept" \notin cost'
               PROVE  (OnlyLastPending /\ WholeAtRest /\ LastRestorable /\ OpKept
                        /\ UndoKept)'
    BY DEF KeptInv
  <2>1. OnlyLastPending /\ WholeAtRest /\ LastRestorable /\ OpKept /\ UndoKept
    BY <1>1, <1>2 DEF KeptInv
  <2>2. OnlyLastPending'
    BY <1>1, <1>2, <2>1, StepsByName
       DEF OnlyLastPending, Pending, CurTyped, StateOfStep, TxSteps, FinishSteps, Finishing
  <2>3. WholeAtRest'
    BY <1>1, <1>2, <2>1, StepsByName
       DEF WholeAtRest, NonePending, Pending, Finishing, Whole, Verifies, RemoveSteps,
           CurTyped, StateOfStep, TxSteps, FinishSteps
  <2>4. LastRestorable'
    BY <1>1, <1>2, <2>1, StepsByName
       DEF Tx, Version, OnlyLastPending, LastRestorable, Restorable, Last, Target, Pending,
           Finishing, Verifies, CurTyped, StateOfStep, TxSteps, FinishSteps
  <2>5. OpKept'
    BY <1>1, <1>2, <2>1, StepsByName
       DEF OpKept, Whole, Verifies, Tx, Version, AfterSwitch, CurTyped, StateOfStep, TxSteps,
           FinishSteps, Pending, Finishing
  <2>6. UndoKept'
    <3>1. cur.backed = Tx.backed
      BY <1>1, <1>2, <2>1, Flags, StepsByName DEF OpKept, TxSteps
    <3> QED  BY <1>2, <3>1 DEF UndoKept, Tx, Undoing
  <2> QED  BY <2>2, <2>3, <2>4, <2>5, <2>6
<1> QED  BY <1>3, <1>4, <1>5, <1>6, <1>7, <1>8, <1>9, <1>10 DEF IInv, Shape

\* Activate keeps the invariant.
LEMMA ActivateKeeps == IInv /\ Activate => IInv'
<1> SUFFICES ASSUME IInv, Activate PROVE IInv'
  OBVIOUS
<1>1. /\ Shape /\ TypeOK /\ JournalsTyped /\ CurTyped /\ StateOfStep
      /\ MemorySaved /\ TargetVerified /\ LoadedInv /\ KeptInv
  BY DEF IInv, Shape
<1>2. /\ pc = "activate" /\ pc' = "activated"
      /\ cur.tx \in Txs /\ cur.tx = clock /\ Started(cur.tx) /\ ~cur.recovering
      /\ loaded' = mem.active /\ loaded' \in 0..MaxVersion
      /\ UNCHANGED <<payload, rec, backup, journal, lock, mem, cur, outcome, clock, failures,
                     promised, since, cost>>
  BY <1>1, ActivateEffect
<1>3. TypeOK'
  BY <1>1, <1>2, StepsByName, Empties, BoundsAssumption
     DEF TypeOK, Steps, StartSteps, RemoveSteps, Outcomes, Txs, None
<1>4. JournalsTyped'
  BY <1>1, <1>2, StepsByName DEF JournalsTyped, Started, Tx, Version
<1>5. CurTyped'
  BY <1>1, <1>2, StepsByName
     DEF CurTyped, Started, Order, Tx, AtRest, RemoveSteps, TxSteps, FinishSteps
<1>6. StateOfStep'
  BY <1>1, <1>2, StepsByName
     DEF CurTyped, TxSteps, StateOfStep, Pending, Finishing, Undoing, Undone, FinishSteps, Tx
<1>7. MemorySaved'
  BY <1>1, <1>2, StepsByName
     DEF CurTyped, StateOfStep, MemorySaved, Tx, OthersPending, LeftBehind, Pending,
         AfterSwitch, Undoing, Undone, AtRest, RemoveSteps, TxSteps, FinishSteps
<1>8. TargetVerified'
  BY <1>1, <1>2, StepsByName
     DEF CurTyped, MemorySaved, TargetVerified, OthersPending, Pending, Verifies, Tx, Version,
         AfterSwitch, TxSteps
<1>9. LoadedInv'
  BY <1>1, <1>2, StepsByName
     DEF CurTyped, StateOfStep, MemorySaved, LoadedInv, OthersPending, Pending, Tx, Ran,
         Undone, AfterSwitch, AtRest, RemoveSteps, TxSteps, FinishSteps
<1>10. KeptInv'
  <2> SUFFICES ASSUME "kept" \notin cost'
               PROVE  (OnlyLastPending /\ WholeAtRest /\ LastRestorable /\ OpKept
                        /\ UndoKept)'
    BY DEF KeptInv
  <2>1. OnlyLastPending /\ WholeAtRest /\ LastRestorable /\ OpKept /\ UndoKept
    BY <1>1, <1>2 DEF KeptInv
  <2>2. OnlyLastPending'
    BY <1>1, <1>2, <2>1, StepsByName
       DEF OnlyLastPending, Pending, CurTyped, StateOfStep, TxSteps, FinishSteps, Finishing
  <2>3. WholeAtRest'
    BY <1>1, <1>2, <2>1, StepsByName
       DEF WholeAtRest, NonePending, Pending, Finishing, Whole, Verifies, RemoveSteps,
           CurTyped, StateOfStep, TxSteps, FinishSteps
  <2>4. LastRestorable'
    BY <1>1, <1>2, <2>1, StepsByName
       DEF Tx, Version, OnlyLastPending, LastRestorable, Restorable, Last, Target, Pending,
           Finishing, Verifies, CurTyped, StateOfStep, TxSteps, FinishSteps
  <2>5. OpKept'
    BY <1>1, <1>2, <2>1, StepsByName
       DEF OpKept, Whole, Verifies, Tx, Version, AfterSwitch, CurTyped, StateOfStep, TxSteps,
           FinishSteps, Pending, Finishing
  <2>6. UndoKept'
    BY <1>1, <1>2, <2>1, StepsByName
       DEF UndoKept, HasBackup, Whole, Verifies, Tx, Version, Pending, Finishing, Undoing,
           CurTyped, StateOfStep, TxSteps, FinishSteps
  <2> QED  BY <2>2, <2>3, <2>4, <2>5, <2>6
<1> QED  BY <1>3, <1>4, <1>5, <1>6, <1>7, <1>8, <1>9, <1>10 DEF IInv, Shape

\* Unlock keeps the invariant.
LEMMA UnlockKeeps == IInv /\ Unlock => IInv'
<1> SUFFICES ASSUME IInv, Unlock PROVE IInv'
  OBVIOUS
<1>1. /\ Shape /\ TypeOK /\ JournalsTyped /\ CurTyped /\ StateOfStep
      /\ MemorySaved /\ TargetVerified /\ LoadedInv /\ KeptInv
  BY DEF IInv, Shape
<1>2. /\ pc = "unlock" /\ pc' = "clean"
      /\ cur.tx \in Txs /\ cur.tx = clock /\ Started(cur.tx) /\ ~cur.recovering
      /\ lock' = "free"
      /\ UNCHANGED <<payload, rec, backup, journal, mem, loaded, cur, outcome, clock,
                     failures, promised, since, cost>>
  BY <1>1, UnlockEffect
<1>3. TypeOK'
  BY <1>1, <1>2, StepsByName, Empties, BoundsAssumption
     DEF TypeOK, Steps, StartSteps, RemoveSteps, Outcomes, Txs, None
<1>4. JournalsTyped'
  BY <1>1, <1>2, StepsByName DEF JournalsTyped, Started, Tx, Version
<1>5. CurTyped'
  BY <1>1, <1>2, StepsByName
     DEF CurTyped, Started, Order, Tx, AtRest, RemoveSteps, TxSteps, FinishSteps
<1>6. StateOfStep'
  BY <1>1, <1>2, StepsByName
     DEF CurTyped, TxSteps, StateOfStep, Pending, Finishing, Undoing, Undone, FinishSteps, Tx
<1>7. MemorySaved'
  BY <1>1, <1>2, StepsByName
     DEF CurTyped, StateOfStep, MemorySaved, Tx, OthersPending, LeftBehind, Pending,
         AfterSwitch, Undoing, Undone, AtRest, RemoveSteps, TxSteps, FinishSteps
<1>8. TargetVerified'
  BY <1>1, <1>2, StepsByName
     DEF CurTyped, MemorySaved, TargetVerified, OthersPending, Pending, Verifies, Tx, Version,
         AfterSwitch, TxSteps
<1>9. LoadedInv'
  BY <1>1, <1>2, StepsByName
     DEF CurTyped, StateOfStep, MemorySaved, LoadedInv, OthersPending, Pending, Tx, Ran,
         Undone, AfterSwitch, AtRest, RemoveSteps, TxSteps, FinishSteps
<1>10. KeptInv'
  <2> SUFFICES ASSUME "kept" \notin cost'
               PROVE  (OnlyLastPending /\ WholeAtRest /\ LastRestorable /\ OpKept
                        /\ UndoKept)'
    BY DEF KeptInv
  <2>1. OnlyLastPending /\ WholeAtRest /\ LastRestorable /\ OpKept /\ UndoKept
    BY <1>1, <1>2 DEF KeptInv
  <2>2. OnlyLastPending'
    BY <1>1, <1>2, <2>1, StepsByName
       DEF OnlyLastPending, Pending, CurTyped, StateOfStep, TxSteps, FinishSteps, Finishing
  <2>3. WholeAtRest'
    BY <1>1, <1>2, <2>1, StepsByName
       DEF WholeAtRest, NonePending, Pending, Finishing, Whole, Verifies, RemoveSteps,
           CurTyped, StateOfStep, TxSteps, FinishSteps
  <2>4. LastRestorable'
    BY <1>1, <1>2, <2>1, StepsByName
       DEF Tx, Version, OnlyLastPending, LastRestorable, Restorable, Last, Target, Pending,
           Finishing, Verifies, CurTyped, StateOfStep, TxSteps, FinishSteps
  <2>5. OpKept'
    BY <1>1, <1>2, <2>1, StepsByName
       DEF OpKept, Whole, Verifies, Tx, Version, AfterSwitch, CurTyped, StateOfStep, TxSteps,
           FinishSteps, Pending, Finishing
  <2>6. UndoKept'
    BY <1>1, <1>2, <2>1, StepsByName
       DEF UndoKept, HasBackup, Whole, Verifies, Tx, Version, Pending, Finishing, Undoing,
           CurTyped, StateOfStep, TxSteps, FinishSteps
  <2> QED  BY <2>2, <2>3, <2>4, <2>5, <2>6
<1> QED  BY <1>3, <1>4, <1>5, <1>6, <1>7, <1>8, <1>9, <1>10 DEF IInv, Shape

\* Clean keeps the invariant.
LEMMA CleanKeeps == IInv /\ Clean => IInv'
<1> SUFFICES ASSUME IInv, Clean PROVE IInv'
  OBVIOUS
<1>1. /\ Shape /\ TypeOK /\ JournalsTyped /\ CurTyped /\ StateOfStep
      /\ MemorySaved /\ TargetVerified /\ LoadedInv /\ KeptInv
  BY DEF IInv, Shape
<1>2. /\ pc = "clean" /\ pc' = "unlink"
      /\ cur.tx \in Txs /\ cur.tx = clock /\ Started(cur.tx) /\ ~cur.recovering
      /\ backup' \in [Txs -> Contents]
      /\ UNCHANGED <<payload, rec, journal, lock, mem, loaded, cur, outcome, clock, failures,
                     promised, since, cost>>
  BY <1>1, CleanEffect
<1>3. TypeOK'
  BY <1>1, <1>2, StepsByName, Empties, BoundsAssumption
     DEF TypeOK, Steps, StartSteps, RemoveSteps, Outcomes, Txs, None
<1>4. JournalsTyped'
  BY <1>1, <1>2, StepsByName DEF JournalsTyped, Started, Tx, Version
<1>5. CurTyped'
  BY <1>1, <1>2, StepsByName
     DEF CurTyped, Started, Order, Tx, AtRest, RemoveSteps, TxSteps, FinishSteps
<1>6. StateOfStep'
  BY <1>1, <1>2, StepsByName
     DEF CurTyped, TxSteps, StateOfStep, Pending, Finishing, Undoing, Undone, FinishSteps, Tx
<1>7. MemorySaved'
  BY <1>1, <1>2, StepsByName
     DEF CurTyped, StateOfStep, MemorySaved, Tx, OthersPending, LeftBehind, Pending,
         AfterSwitch, Undoing, Undone, AtRest, RemoveSteps, TxSteps, FinishSteps
<1>8. TargetVerified'
  BY <1>1, <1>2, StepsByName
     DEF CurTyped, MemorySaved, TargetVerified, OthersPending, Pending, Verifies, Tx, Version,
         AfterSwitch, TxSteps
<1>9. LoadedInv'
  BY <1>1, <1>2, StepsByName
     DEF CurTyped, StateOfStep, MemorySaved, LoadedInv, OthersPending, Pending, Tx, Ran,
         Undone, AfterSwitch, AtRest, RemoveSteps, TxSteps, FinishSteps
<1>10. KeptInv'
  <2> SUFFICES ASSUME "kept" \notin cost'
               PROVE  (OnlyLastPending /\ WholeAtRest /\ LastRestorable /\ OpKept
                        /\ UndoKept)'
    BY DEF KeptInv
  <2>1. OnlyLastPending /\ WholeAtRest /\ LastRestorable /\ OpKept /\ UndoKept
    BY <1>1, <1>2 DEF KeptInv
  <2>2. OnlyLastPending'
    BY <1>1, <1>2, <2>1, StepsByName
       DEF OnlyLastPending, Pending, CurTyped, StateOfStep, TxSteps, FinishSteps, Finishing
  <2>3. WholeAtRest'
    BY <1>1, <1>2, <2>1, StepsByName
       DEF WholeAtRest, NonePending, Pending, Finishing, Whole, Verifies, RemoveSteps,
           CurTyped, StateOfStep, TxSteps, FinishSteps
  <2>4. LastRestorable'
    BY <1>1, <1>2, <2>1, StepsByName
       DEF Tx, Version, OnlyLastPending, LastRestorable, Restorable, Last, Target, Pending,
           Finishing, Verifies, CurTyped, StateOfStep, TxSteps, FinishSteps
  <2>5. OpKept'
    BY <1>1, <1>2, <2>1, StepsByName
       DEF OpKept, Whole, Verifies, Tx, Version, AfterSwitch, CurTyped, StateOfStep, TxSteps,
           FinishSteps, Pending, Finishing
  <2>6. UndoKept'
    BY <1>1, <1>2, <2>1, StepsByName
       DEF UndoKept, HasBackup, Whole, Verifies, Tx, Version, Pending, Finishing, Undoing,
           CurTyped, StateOfStep, TxSteps, FinishSteps
  <2> QED  BY <2>2, <2>3, <2>4, <2>5, <2>6
<1> QED  BY <1>3, <1>4, <1>5, <1>6, <1>7, <1>8, <1>9, <1>10 DEF IInv, Shape

\* Finish keeps the invariant.
LEMMA FinishKeeps == IInv /\ Finish => IInv'
<1> SUFFICES ASSUME IInv, Finish PROVE IInv'
  OBVIOUS
<1>1. /\ Shape /\ TypeOK /\ JournalsTyped /\ CurTyped /\ StateOfStep
      /\ MemorySaved /\ TargetVerified /\ LoadedInv /\ KeptInv
  BY DEF IInv, Shape
<1>2. /\ pc = "unlink" /\ pc' = "ready"
      /\ cur.tx \in Txs /\ cur.tx = clock /\ Started(cur.tx) /\ ~cur.recovering
      /\ journal'[cur.tx] = NoJournal /\ journal' \in [Txs -> Journals]
      /\ \A t \in Txs : t # cur.tx => journal'[t] = journal[t]
      /\ outcome' \in Outcomes /\ promised' = rec /\ since' = cur.tx /\ cur' = NoCur
      /\ UNCHANGED <<payload, rec, backup, lock, mem, loaded, clock, failures, cost>>
  BY <1>1, FinishEffect
<1>t. clock \in Nat /\ since \in Nat /\ Txs \subseteq Nat \ {0}
  BY <1>1, BoundsAssumption DEF TypeOK, Txs
<1>3. TypeOK'
  BY <1>1, <1>2, StepsByName, Empties, BoundsAssumption
     DEF TypeOK, Steps, StartSteps, RemoveSteps, Outcomes, Txs, None
<1>4. JournalsTyped'
  BY <1>1, <1>2, StepsByName, <1>t, Empties
     DEF JournalsTyped, Started, Tx, Version, CurTyped, TxSteps, FinishSteps
<1>5. CurTyped'
  BY <1>1, <1>2, StepsByName, Empties, <1>t
     DEF CurTyped, Started, Order, Tx, AtRest, RemoveSteps, TxSteps, FinishSteps
<1>6. StateOfStep'
  BY <1>1, <1>2, StepsByName, Empties
     DEF CurTyped, TxSteps, StateOfStep, Pending, Finishing, Undoing, Undone, FinishSteps, Tx
<1>7. MemorySaved'
  BY <1>1, <1>2, StepsByName, Empties, <1>t
     DEF CurTyped, StateOfStep, MemorySaved, Tx, OthersPending, LeftBehind, Pending,
         AfterSwitch, Undoing, Undone, AtRest, RemoveSteps, TxSteps, FinishSteps
<1>8. TargetVerified'
  BY <1>1, <1>2, StepsByName, <1>t
     DEF CurTyped, MemorySaved, TargetVerified, OthersPending, Pending, Verifies, Tx, Version,
         AfterSwitch, TxSteps
<1>9. LoadedInv'
  BY <1>1, <1>2, StepsByName, Empties, <1>t
     DEF CurTyped, StateOfStep, MemorySaved, LoadedInv, OthersPending, Pending, Tx, Ran,
         Undone, AfterSwitch, AtRest, RemoveSteps, TxSteps, FinishSteps
<1>10. KeptInv'
  <2> SUFFICES ASSUME "kept" \notin cost'
               PROVE  (OnlyLastPending /\ WholeAtRest /\ LastRestorable /\ OpKept
                        /\ UndoKept)'
    BY DEF KeptInv
  <2>1. OnlyLastPending /\ WholeAtRest /\ LastRestorable /\ OpKept /\ UndoKept
    BY <1>1, <1>2 DEF KeptInv
  <2>2. OnlyLastPending'
    BY <1>1, <1>2, <2>1, StepsByName, Empties, <1>t
       DEF OnlyLastPending, Pending, CurTyped, StateOfStep, TxSteps, FinishSteps, Finishing
  <2>3. WholeAtRest'
    <3>1. Whole(rec)' <=> Whole(rec)  BY <1>2 DEF Whole, Verifies
    <3>2. Whole(rec)  BY <1>2, <2>1 DEF OpKept, AfterSwitch
    <3>3. mem = rec  BY <1>1, <1>2 DEF MemorySaved, AfterSwitch
    <3>4. \A t \in Txs : t # cur.tx => ~Pending(t)  BY <1>2, <2>1 DEF OnlyLastPending
    <3> QED
      BY <1>2, <3>1, <3>2, <3>3, <3>4, Empties
         DEF WholeAtRest, NonePending, Pending, Finishing, RemoveSteps
  <2>4. LastRestorable'
    BY <1>1, <1>2, <2>1, StepsByName, Empties, <1>t
       DEF Tx, Version, OnlyLastPending, LastRestorable, Restorable, Last, Target, Pending,
           Finishing, Verifies, CurTyped, StateOfStep, TxSteps, FinishSteps
  <2>5. OpKept'
    BY <1>1, <1>2, <2>1, StepsByName
       DEF OpKept, Whole, Verifies, Tx, Version, AfterSwitch, CurTyped, StateOfStep, TxSteps,
           FinishSteps, Pending, Finishing
  <2>6. UndoKept'
    BY <1>1, <1>2, <2>1, StepsByName
       DEF UndoKept, HasBackup, Whole, Verifies, Tx, Version, Pending, Finishing, Undoing,
           CurTyped, StateOfStep, TxSteps, FinishSteps
  <2> QED  BY <2>2, <2>3, <2>4, <2>5, <2>6
<1> QED  BY <1>3, <1>4, <1>5, <1>6, <1>7, <1>8, <1>9, <1>10 DEF IInv, Shape

\* OpFault keeps the invariant.
LEMMA OpFaultKeeps == IInv /\ OpFault => IInv'
<1> SUFFICES ASSUME IInv, OpFault PROVE IInv'
  OBVIOUS
<1>1. /\ Shape /\ TypeOK /\ JournalsTyped /\ CurTyped /\ StateOfStep
      /\ MemorySaved /\ TargetVerified /\ LoadedInv /\ KeptInv
  BY DEF IInv, Shape
<1>2. /\ pc \in OpSteps \ {"lock", "unlock"} /\ pc' = "fail"
      /\ cur.tx \in Txs /\ cur.tx = clock /\ Started(cur.tx) /\ ~cur.recovering
      /\ Version \in Versions
      /\ payload' \in [Versions -> Contents] /\ backup' \in [Txs -> Contents]
      /\ \A v \in Versions \ {Version} : payload'[v] = payload[v]
      /\ payload' = payload \/ pc \in {"remove", "copy"}
      /\ backup' = backup \/ pc \in {"backup", "clean"}
      /\ mem' \in Records /\ lock' \in {"free", "held", "fresh", "stale"}
      /\ failures' \in 0..MaxFailures /\ cost' \subseteq Costs /\ cost \subseteq cost'
      /\ pc \in {"clean", "unlink"} => "kept" \in cost'
      /\ pc \in {"activated", "committed", "clean", "unlink"} => "loaded" \in cost'
      /\ UNCHANGED <<rec, journal, loaded, cur, outcome, clock, promised, since>>
  BY <1>1, OpFaultEffect
<1>3. TypeOK'
  BY <1>1, <1>2, StepsByName, Empties, BoundsAssumption
     DEF TypeOK, Steps, StartSteps, RemoveSteps, Outcomes, Txs, None
<1>4. JournalsTyped'
  BY <1>1, <1>2, StepsByName DEF JournalsTyped, Started, Tx, Version
<1>5. CurTyped'
  BY <1>1, <1>2, StepsByName
     DEF CurTyped, Started, Order, Tx, AtRest, RemoveSteps, TxSteps, FinishSteps
<1>6. StateOfStep'
  BY <1>1, <1>2, StepsByName
     DEF CurTyped, TxSteps, StateOfStep, Pending, Finishing, Undoing, Undone, FinishSteps, Tx
<1>7. MemorySaved'
  BY <1>1, <1>2, StepsByName
     DEF CurTyped, StateOfStep, MemorySaved, Tx, OthersPending, LeftBehind, Pending,
         AfterSwitch, Undoing, Undone, AtRest, RemoveSteps, TxSteps, FinishSteps
<1>8. TargetVerified'
  BY <1>1, <1>2, StepsByName
     DEF CurTyped, MemorySaved, TargetVerified, OthersPending, Pending, Verifies, Tx, Version,
         AfterSwitch, TxSteps
<1>9. LoadedInv'
  BY <1>1, <1>2, StepsByName
     DEF CurTyped, StateOfStep, MemorySaved, LoadedInv, OthersPending, Pending, Tx, Ran,
         Undone, AfterSwitch, AtRest, RemoveSteps, TxSteps, FinishSteps
<1>10. KeptInv'
  <2> SUFFICES ASSUME "kept" \notin cost'
               PROVE  (OnlyLastPending /\ WholeAtRest /\ LastRestorable /\ OpKept
                        /\ UndoKept)'
    BY DEF KeptInv
  <2>1. OnlyLastPending /\ WholeAtRest /\ LastRestorable /\ OpKept /\ UndoKept
    BY <1>1, <1>2 DEF KeptInv
  <2>2. OnlyLastPending'
    BY <1>1, <1>2, <2>1, StepsByName
       DEF OnlyLastPending, Pending, CurTyped, StateOfStep, TxSteps, FinishSteps, Finishing
  <2>3. WholeAtRest'
    BY <1>1, <1>2, <2>1, StepsByName
       DEF WholeAtRest, NonePending, Pending, Finishing, Whole, Verifies, RemoveSteps,
           CurTyped, StateOfStep, TxSteps, FinishSteps
  <2>4. LastRestorable'
    <3>1. Pending(cur.tx)  BY <1>1, <1>2, StepsByName DEF StateOfStep
    <3>2. /\ cur.tx = clock /\ clock \in Txs /\ Pending(clock)
          /\ Tx = Last /\ Version = Target
      BY <1>2, <2>1, <3>1, PendingIsLast
    <3>3. ASSUME Tx.op # "rollback" PROVE Restorable'
      <4>1. Finishing(clock) => pc = "committed"
        BY <1>1, <1>2, <3>2, StepsByName DEF StateOfStep
      <4>2. Restorable  BY <2>1, <3>2, <3>3, <4>1 DEF LastRestorable
      <4>3. pc = "backup" => ~Last.backed  BY <2>1, <3>2 DEF OpKept
      <4>4. pc \in {"remove", "copy"} /\ Target \in promised.versions => Last.backed
        BY <2>1, <3>2, <3>3 DEF OpKept
      <4>5. Last.backed => backup' = backup  BY <1>2, <4>3
      <4> QED  BY <1>2, <3>2, <4>2, <4>4, <4>5, RestorableKept DEF Last, Target
    <3> QED  BY <1>2, <3>2, <3>3 DEF LastRestorable, Last
  <2>5. OpKept'
    BY <1>1, <1>2, <2>1, StepsByName
       DEF OpKept, Whole, Verifies, Tx, Version, AfterSwitch, CurTyped, StateOfStep, TxSteps,
           FinishSteps, Pending, Finishing
  <2>6. UndoKept'
    <3>1. pc # "name" => cur.backed = Tx.backed
      BY <1>1, <1>2, <2>1, Flags, StepsByName DEF OpKept, AfterSwitch, TxSteps
    <3>2. pc = "name" => /\ cur.backed /\ Version \in promised.versions
                         /\ backup[cur.tx] = payload[Version] /\ rec = promised /\ Whole(rec)
      BY <1>1, <1>2, <2>1, StepsByName DEF OpKept, CurTyped, Order
    <3>3. pc = "name" => backup'[cur.tx] = promised.hashes[Version]
      BY <1>2, <3>2 DEF Whole, Verifies
    <3> QED  BY <1>2, <3>1, <3>2, <3>3 DEF UndoKept, Tx, Version, Undoing
  <2> QED  BY <2>2, <2>3, <2>4, <2>5, <2>6
<1> QED  BY <1>3, <1>4, <1>5, <1>6, <1>7, <1>8, <1>9, <1>10 DEF IInv, Shape

\* Fail keeps the invariant.
LEMMA FailKeeps == IInv /\ Fail => IInv'
<1> SUFFICES ASSUME IInv, Fail PROVE IInv'
  OBVIOUS
<1>1. /\ Shape /\ TypeOK /\ JournalsTyped /\ CurTyped /\ StateOfStep
      /\ MemorySaved /\ TargetVerified /\ LoadedInv /\ KeptInv
  BY DEF IInv, Shape
<1>2. /\ pc = "fail"
      /\ cur.tx \in Txs /\ cur.tx = clock /\ Started(cur.tx) /\ ~cur.recovering
      /\ failures' \in 0..MaxFailures
      /\ \/ /\ pc' = "undo_lock" /\ UNCHANGED <<cur, outcome>>
            /\ journal' \in [Txs -> Journals]
            /\ \A t \in Txs : t # cur.tx => journal'[t] = journal[t]
            /\ journal'[cur.tx].state = "rollback_required"
            /\ journal'[cur.tx].backed = cur.backed
            /\ journal'[cur.tx].op = Tx.op /\ journal'[cur.tx].version = Version
            /\ journal'[cur.tx].prev = Tx.prev
         \/ pc' = "ready" /\ outcome' = "failed" /\ cur' = NoCur /\ UNCHANGED journal
      /\ UNCHANGED <<payload, rec, backup, lock, mem, loaded, clock, promised, since, cost>>
  BY <1>1, FailEffect
<1>t. clock \in Nat /\ since \in Nat /\ Txs \subseteq Nat \ {0}
  BY <1>1, BoundsAssumption DEF TypeOK, Txs
<1>3. TypeOK'
  BY <1>1, <1>2, StepsByName, Empties, BoundsAssumption
     DEF TypeOK, Steps, StartSteps, RemoveSteps, Outcomes, Txs, None
<1>4. JournalsTyped'
  BY <1>1, <1>2, StepsByName DEF JournalsTyped, Started, Tx, Version
<1>5. CurTyped'
  BY <1>1, <1>2, StepsByName, Empties
     DEF CurTyped, Started, Order, Tx, AtRest, RemoveSteps, TxSteps, FinishSteps
<1>6. StateOfStep'
  BY <1>1, <1>2, StepsByName, Empties
     DEF CurTyped, TxSteps, StateOfStep, Pending, Finishing, Undoing, Undone, FinishSteps, Tx
<1>7. MemorySaved'
  BY <1>1, <1>2, StepsByName, Empties, <1>t
     DEF CurTyped, StateOfStep, MemorySaved, Tx, OthersPending, LeftBehind, Pending,
         AfterSwitch, Undoing, Undone, AtRest, RemoveSteps, TxSteps, FinishSteps
<1>8. TargetVerified'
  BY <1>1, <1>2, StepsByName
     DEF CurTyped, MemorySaved, TargetVerified, OthersPending, Pending, Verifies, Tx, Version,
         AfterSwitch, TxSteps
<1>9. LoadedInv'
  BY <1>1, <1>2, StepsByName, Empties, <1>t
     DEF CurTyped, StateOfStep, MemorySaved, LoadedInv, OthersPending, Pending, Tx, Ran,
         Undone, AfterSwitch, AtRest, RemoveSteps, TxSteps, FinishSteps, JournalsTyped,
         Started
<1>10. KeptInv'
  <2> SUFFICES ASSUME "kept" \notin cost'
               PROVE  (OnlyLastPending /\ WholeAtRest /\ LastRestorable /\ OpKept
                        /\ UndoKept)'
    BY DEF KeptInv
  <2>1. OnlyLastPending /\ WholeAtRest /\ LastRestorable /\ OpKept /\ UndoKept
    BY <1>1, <1>2 DEF KeptInv
  <2>2. OnlyLastPending'
    BY <1>1, <1>2, <2>1, StepsByName, Empties
       DEF OnlyLastPending, Pending, CurTyped, StateOfStep, TxSteps, FinishSteps, Finishing
  <2>3. WholeAtRest'
    BY <1>1, <1>2, <2>1, StepsByName, Empties
       DEF WholeAtRest, NonePending, Pending, Finishing, Whole, Verifies, RemoveSteps,
           CurTyped, StateOfStep, TxSteps, FinishSteps
  <2>4. LastRestorable'
    <3>1. Pending(cur.tx)  BY <1>1, <1>2, StepsByName DEF StateOfStep
    <3>2. /\ cur.tx = clock /\ clock \in Txs /\ Pending(clock)
          /\ Tx = Last /\ Version = Target
      BY <1>2, <2>1, <3>1, PendingIsLast
    <3>3. ASSUME Tx.op # "rollback" PROVE Restorable
      BY <1>2, <2>1, <3>2, <3>3 DEF LastRestorable
    <3>4. CASE UNCHANGED journal
      <4>1. Tx.op # "rollback" => Restorable'
        BY <1>2, <3>2, <3>3, <3>4 DEF Restorable, Last, Target, Verifies
      <4> QED  BY <1>2, <3>2, <3>4, <4>1 DEF LastRestorable, Last
    <3>5. CASE journal'[clock].backed = cur.backed /\ journal'[clock].prev = Last.prev
                 /\ journal'[clock].version = Target /\ journal'[clock].op = Last.op
      <4>1. ASSUME Tx.op # "rollback", cur.backed = Tx.backed PROVE Restorable'
        BY <1>2, <3>2, <3>3, <3>5, <4>1, RestorableKept
      <4>2. ASSUME Tx.op # "rollback", cur.backed # Tx.backed PROVE Restorable'
        <5>1. cur.backed /\ ~Last.backed /\ Target \in promised.versions
                /\ backup[clock] = promised.hashes[Target]
          BY <1>2, <2>1, <3>2, <4>2, InTx, JournalParts DEF UndoKept, IInv, TxSteps, TxTyped
        <5>2. Restorable /\ Verifies(promised, Target)  BY <3>3, <4>2, <5>1 DEF Restorable
        <5>3. Last' = journal'[clock] /\ Target' = Target
          BY <1>2, <3>2, <3>5 DEF Last, Target
        <5> QED  BY <1>2, <3>2, <3>5, <5>1, <5>2, <5>3 DEF Restorable, Verifies
      <4> QED  BY <1>2, <3>2, <3>5, <4>1, <4>2 DEF LastRestorable, Last
    <3> QED  BY <1>2, <3>2, <3>4, <3>5
  <2>5. OpKept'
    BY <1>1, <1>2, <2>1, StepsByName
       DEF OpKept, Whole, Verifies, Tx, Version, AfterSwitch, CurTyped, StateOfStep, TxSteps,
           FinishSteps, Pending, Finishing
  <2>6. UndoKept'
    BY <1>1, <1>2, <2>1, StepsByName
       DEF UndoKept, HasBackup, Whole, Verifies, Tx, Version, Pending, Finishing, Undoing,
           CurTyped, StateOfStep, TxSteps, FinishSteps
  <2> QED  BY <2>2, <2>3, <2>4, <2>5, <2>6
<1> QED  BY <1>3, <1>4, <1>5, <1>6, <1>7, <1>8, <1>9, <1>10 DEF IInv, Shape

\* UndoRemove keeps the invariant.
LEMMA UndoRemoveKeeps == IInv /\ UndoRemove => IInv'
<1> SUFFICES ASSUME IInv, UndoRemove PROVE IInv'
  OBVIOUS
<1>1. /\ Shape /\ TypeOK /\ JournalsTyped /\ CurTyped /\ StateOfStep
      /\ MemorySaved /\ TargetVerified /\ LoadedInv /\ KeptInv
  BY DEF IInv, Shape
<1>2. /\ pc = "undo_remove" /\ pc' = "undo_copy"
      /\ cur.tx \in Txs /\ Started(cur.tx) /\ (~cur.recovering => cur.tx = clock)
      /\ Version \in Versions
      /\ payload' \in [Versions -> Contents]
      /\ payload'[Version] = (IF UndoRemoves THEN None ELSE payload[Version])
      /\ \A v \in Versions \ {Version} : payload'[v] = payload[v]
      /\ cost' \subseteq Costs /\ cost \subseteq cost'
      /\ Tx.op = "rollback" => "kept" \in cost'
      /\ UNCHANGED <<rec, backup, journal, lock, mem, loaded, cur, outcome, clock, failures,
                     promised, since>>
  BY <1>1, UndoRemoveEffect
<1>3. TypeOK'
  BY <1>1, <1>2, StepsByName, Empties, BoundsAssumption
     DEF TypeOK, Steps, StartSteps, RemoveSteps, Outcomes, Txs, None
<1>4. JournalsTyped'
  BY <1>1, <1>2, StepsByName DEF JournalsTyped, Started, Tx, Version
<1>5. CurTyped'
  BY <1>1, <1>2, StepsByName
     DEF CurTyped, Started, Order, Tx, AtRest, RemoveSteps, TxSteps, FinishSteps
<1>6. StateOfStep'
  BY <1>1, <1>2, StepsByName
     DEF CurTyped, TxSteps, StateOfStep, Pending, Finishing, Undoing, Undone, FinishSteps, Tx
<1>7. MemorySaved'
  BY <1>1, <1>2, StepsByName
     DEF CurTyped, StateOfStep, MemorySaved, Tx, OthersPending, LeftBehind, Pending,
         AfterSwitch, Undoing, Undone, AtRest, RemoveSteps, TxSteps, FinishSteps
<1>8. TargetVerified'
  BY <1>1, <1>2, StepsByName
     DEF CurTyped, MemorySaved, TargetVerified, OthersPending, Pending, Verifies, Tx, Version,
         AfterSwitch, TxSteps
<1>9. LoadedInv'
  BY <1>1, <1>2, StepsByName
     DEF CurTyped, StateOfStep, MemorySaved, LoadedInv, OthersPending, Pending, Tx, Ran,
         Undone, AfterSwitch, AtRest, RemoveSteps, TxSteps, FinishSteps
<1>10. KeptInv'
  <2> SUFFICES ASSUME "kept" \notin cost'
               PROVE  (OnlyLastPending /\ WholeAtRest /\ LastRestorable /\ OpKept
                        /\ UndoKept)'
    BY DEF KeptInv
  <2>1. OnlyLastPending /\ WholeAtRest /\ LastRestorable /\ OpKept /\ UndoKept
    BY <1>1, <1>2 DEF KeptInv
  <2>2. OnlyLastPending'
    BY <1>1, <1>2, <2>1, StepsByName
       DEF OnlyLastPending, Pending, CurTyped, StateOfStep, TxSteps, FinishSteps, Finishing
  <2>3. WholeAtRest'
    <3>1. Pending(cur.tx) /\ ~Finishing(cur.tx)
      BY <1>1, <1>2, StepsByName DEF StateOfStep, Undoing
    <3>2. Pending(clock) /\ ~Finishing(clock) /\ clock \in Txs /\ ~NonePending
      BY <1>2, <2>1, <3>1, PendingIsLast
    <3> QED  BY <1>2, <3>2 DEF WholeAtRest, NonePending, Pending, Finishing, RemoveSteps
  <2>4. LastRestorable'
    <3>1. Pending(cur.tx) /\ ~Finishing(cur.tx)
      BY <1>1, <1>2, StepsByName DEF StateOfStep, Undoing
    <3>2. /\ cur.tx = clock /\ clock \in Txs /\ Pending(clock) /\ ~Finishing(clock)
          /\ Tx = Last /\ Version = Target
      BY <1>2, <2>1, <3>1, PendingIsLast
    <3>3. Tx.op # "rollback" => Restorable
      BY <2>1, <3>2 DEF LastRestorable
    <3>4. cur.backed = Tx.backed  BY <1>2, <2>1 DEF UndoKept, Undoing
    <3>5. Tx.op # "rollback"  BY <1>2
    <3>6. Target \in promised.versions /\ ~Last.backed => ~UndoRemoves
      <4>1. Target \in promised.versions => promised # NoRec  BY DEF NoRec
      <4> QED  BY <3>2, <3>3, <3>4, <3>5, <4>1 DEF UndoRemoves, HasBackup, Restorable
    <3>7. Restorable'  BY <1>2, <3>2, <3>3, <3>5, <3>6, RestorableKept DEF Last, Target
    <3> QED  BY <3>7 DEF LastRestorable
  <2>5. OpKept'
    BY <1>1, <1>2, <2>1, StepsByName
       DEF OpKept, Whole, Verifies, Tx, Version, AfterSwitch, CurTyped, StateOfStep, TxSteps,
           FinishSteps, Pending, Finishing
  <2>6. UndoKept'
    <3>1. Pending(cur.tx) /\ ~Finishing(cur.tx)
      BY <1>1, <1>2, StepsByName DEF StateOfStep, Undoing
    <3>2. /\ cur.tx = clock /\ clock \in Txs /\ Pending(clock) /\ ~Finishing(clock)
          /\ Tx = Last /\ Version = Target
      BY <1>2, <2>1, <3>1, PendingIsLast
    <3>3. Tx.op # "rollback" => Restorable
      BY <2>1, <3>2 DEF LastRestorable
    <3>4. cur.backed = Tx.backed  BY <1>2, <2>1 DEF UndoKept, Undoing
    <3>5. Tx.op # "rollback"  BY <1>2
    <3>6. Restorable  BY <3>3, <3>5
    <3>7. CASE cur.backed
      <4>1. HasBackup'  BY <1>2, <3>2, <3>4, <3>6, <3>7 DEF HasBackup, Restorable
      <4> QED  BY <1>2, <3>4, <3>5, <4>1 DEF UndoKept, Tx, Version, Undoing
    <3>8. CASE ~cur.backed
      <4>1. Target \in promised.versions => promised # NoRec  BY DEF NoRec
      <4>2. UndoRemoves <=> Target \notin promised.versions
        BY <3>2, <3>6, <3>8, <4>1 DEF UndoRemoves, HasBackup, Restorable
      <4>3. Target \in promised.versions => Verifies(promised, Target)
        BY <3>2, <3>4, <3>6, <3>8 DEF Restorable
      <4>4. Version' = Target  BY <1>2, <3>2 DEF Version, Tx
      <4>5. IF Target \in promised.versions
            THEN payload'[Target] \notin {None, Partial}
              /\ payload'[Target] = promised.hashes[Target]
            ELSE payload'[Target] = None
        BY <1>2, <3>2, <4>2, <4>3 DEF Verifies
      <4>6. IF Version' \in promised'.versions THEN Verifies(promised, Version)'
                                              ELSE payload'[Version'] = None
        BY <1>2, <4>4, <4>5 DEF Verifies
      <4>7. Tx' = Tx  BY <1>2 DEF Tx
      <4> QED  BY <1>2, <3>4, <3>5, <4>6, <4>7 DEF UndoKept, Undoing
    <3> QED  BY <3>7, <3>8
  <2> QED  BY <2>2, <2>3, <2>4, <2>5, <2>6
<1> QED  BY <1>3, <1>4, <1>5, <1>6, <1>7, <1>8, <1>9, <1>10 DEF IInv, Shape

\* UndoCopy keeps the invariant.
LEMMA UndoCopyKeeps == IInv /\ UndoCopy => IInv'
<1> SUFFICES ASSUME IInv, UndoCopy PROVE IInv'
  OBVIOUS
<1>1. /\ Shape /\ TypeOK /\ JournalsTyped /\ CurTyped /\ StateOfStep
      /\ MemorySaved /\ TargetVerified /\ LoadedInv /\ KeptInv
  BY DEF IInv, Shape
<1>2. /\ pc = "undo_copy" /\ pc' = "undo_record"
      /\ cur.tx \in Txs /\ Started(cur.tx) /\ (~cur.recovering => cur.tx = clock)
      /\ Version \in Versions
      /\ payload' \in [Versions -> Contents]
      /\ payload'[Version] = (IF HasBackup THEN backup[cur.tx] ELSE payload[Version])
      /\ \A v \in Versions \ {Version} : payload'[v] = payload[v]
      /\ UNCHANGED <<rec, backup, journal, lock, mem, loaded, cur, outcome, clock, failures,
                     promised, since, cost>>
  BY <1>1, UndoCopyEffect
<1>3. TypeOK'
  BY <1>1, <1>2, StepsByName, Empties, BoundsAssumption
     DEF TypeOK, Steps, StartSteps, RemoveSteps, Outcomes, Txs, None
<1>4. JournalsTyped'
  BY <1>1, <1>2, StepsByName DEF JournalsTyped, Started, Tx, Version
<1>5. CurTyped'
  BY <1>1, <1>2, StepsByName
     DEF CurTyped, Started, Order, Tx, AtRest, RemoveSteps, TxSteps, FinishSteps
<1>6. StateOfStep'
  BY <1>1, <1>2, StepsByName
     DEF CurTyped, TxSteps, StateOfStep, Pending, Finishing, Undoing, Undone, FinishSteps, Tx
<1>7. MemorySaved'
  BY <1>1, <1>2, StepsByName
     DEF CurTyped, StateOfStep, MemorySaved, Tx, OthersPending, LeftBehind, Pending,
         AfterSwitch, Undoing, Undone, AtRest, RemoveSteps, TxSteps, FinishSteps
<1>8. TargetVerified'
  BY <1>1, <1>2, StepsByName
     DEF CurTyped, MemorySaved, TargetVerified, OthersPending, Pending, Verifies, Tx, Version,
         AfterSwitch, TxSteps
<1>9. LoadedInv'
  BY <1>1, <1>2, StepsByName
     DEF CurTyped, StateOfStep, MemorySaved, LoadedInv, OthersPending, Pending, Tx, Ran,
         Undone, AfterSwitch, AtRest, RemoveSteps, TxSteps, FinishSteps
<1>10. KeptInv'
  <2> SUFFICES ASSUME "kept" \notin cost'
               PROVE  (OnlyLastPending /\ WholeAtRest /\ LastRestorable /\ OpKept
                        /\ UndoKept)'
    BY DEF KeptInv
  <2>1. OnlyLastPending /\ WholeAtRest /\ LastRestorable /\ OpKept /\ UndoKept
    BY <1>1, <1>2 DEF KeptInv
  <2>2. OnlyLastPending'
    BY <1>1, <1>2, <2>1, StepsByName
       DEF OnlyLastPending, Pending, CurTyped, StateOfStep, TxSteps, FinishSteps, Finishing
  <2>3. WholeAtRest'
    <3>1. Pending(cur.tx) /\ ~Finishing(cur.tx)
      BY <1>1, <1>2, StepsByName DEF StateOfStep, Undoing
    <3>2. Pending(clock) /\ ~Finishing(clock) /\ clock \in Txs /\ ~NonePending
      BY <1>2, <2>1, <3>1, PendingIsLast
    <3> QED  BY <1>2, <3>2 DEF WholeAtRest, NonePending, Pending, Finishing, RemoveSteps
  <2>4. LastRestorable'
    <3>1. Pending(cur.tx) /\ ~Finishing(cur.tx)
      BY <1>1, <1>2, StepsByName DEF StateOfStep, Undoing
    <3>2. /\ cur.tx = clock /\ clock \in Txs /\ Pending(clock) /\ ~Finishing(clock)
          /\ Tx = Last /\ Version = Target
      BY <1>2, <2>1, <3>1, PendingIsLast
    <3>3. Tx.op # "rollback" => Restorable
      BY <2>1, <3>2 DEF LastRestorable
    <3>4. cur.backed = Tx.backed  BY <1>2, <2>1 DEF UndoKept, Undoing
    <3>5. Tx.op # "rollback"  BY <1>2, <2>1 DEF UndoKept
    <3>6. Restorable'
      BY <1>2, <3>2, <3>3, <3>4, <3>5, RestorableKept DEF Last, Target, HasBackup
    <3> QED  BY <3>6 DEF LastRestorable
  <2>5. OpKept'
    BY <1>1, <1>2, <2>1, StepsByName
       DEF OpKept, Whole, Verifies, Tx, Version, AfterSwitch, CurTyped, StateOfStep, TxSteps,
           FinishSteps, Pending, Finishing
  <2>6. UndoKept'
    <3>1. Pending(cur.tx) /\ ~Finishing(cur.tx)
      BY <1>1, <1>2, StepsByName DEF StateOfStep, Undoing
    <3>2. /\ cur.tx = clock /\ clock \in Txs /\ Pending(clock) /\ ~Finishing(clock)
          /\ Tx = Last /\ Version = Target
      BY <1>2, <2>1, <3>1, PendingIsLast
    <3>3. Tx.op # "rollback" => Restorable
      BY <2>1, <3>2 DEF LastRestorable
    <3>4. cur.backed = Tx.backed  BY <1>2, <2>1 DEF UndoKept, Undoing
    <3>5. Tx.op # "rollback"  BY <1>2, <2>1 DEF UndoKept
    <3>6. Restorable  BY <3>3, <3>5
    <3>7. IF Target \in promised.versions THEN payload'[Target] = promised.hashes[Target]
            /\ payload'[Target] \notin {None, Partial}
                                          ELSE payload'[Target] = None
      <4>1. CASE HasBackup
        BY <1>2, <3>2, <3>4, <3>6, <4>1 DEF HasBackup, Restorable
      <4>2. CASE ~HasBackup
        BY <1>2, <2>1, <3>2, <4>2 DEF UndoKept, Verifies
      <4> QED  BY <4>1, <4>2
    <3>8. Whole(promised)'
      BY <1>2, <3>2, <3>6, <3>7 DEF Whole, Restorable, Verifies
    <3> QED  BY <1>2, <3>4, <3>5, <3>8 DEF UndoKept, Tx, Version, Undoing
  <2> QED  BY <2>2, <2>3, <2>4, <2>5, <2>6
<1> QED  BY <1>3, <1>4, <1>5, <1>6, <1>7, <1>8, <1>9, <1>10 DEF IInv, Shape

\* UndoRecord keeps the invariant.
LEMMA UndoRecordKeeps == IInv /\ UndoRecord => IInv'
<1> SUFFICES ASSUME IInv, UndoRecord PROVE IInv'
  OBVIOUS
<1>1. /\ Shape /\ TypeOK /\ JournalsTyped /\ CurTyped /\ StateOfStep
      /\ MemorySaved /\ TargetVerified /\ LoadedInv /\ KeptInv
  BY DEF IInv, Shape
<1>2. /\ pc = "undo_record" /\ pc' = "undo_mark"
      /\ cur.tx \in Txs /\ Started(cur.tx) /\ (~cur.recovering => cur.tx = clock)
      /\ mem' = Tx.prev /\ rec' = Tx.prev /\ Tx.prev \in Records
      /\ UNCHANGED <<payload, backup, journal, lock, loaded, cur, outcome, clock, failures,
                     promised, since, cost>>
  BY <1>1, UndoRecordEffect
<1>3. TypeOK'
  BY <1>1, <1>2, StepsByName, Empties, BoundsAssumption
     DEF TypeOK, Steps, StartSteps, RemoveSteps, Outcomes, Txs, None
<1>4. JournalsTyped'
  BY <1>1, <1>2, StepsByName DEF JournalsTyped, Started, Tx, Version
<1>5. CurTyped'
  BY <1>1, <1>2, StepsByName
     DEF CurTyped, Started, Order, Tx, AtRest, RemoveSteps, TxSteps, FinishSteps
<1>6. StateOfStep'
  BY <1>1, <1>2, StepsByName
     DEF CurTyped, TxSteps, StateOfStep, Pending, Finishing, Undoing, Undone, FinishSteps, Tx
<1>7. MemorySaved'
  BY <1>1, <1>2, StepsByName
     DEF CurTyped, StateOfStep, MemorySaved, Tx, OthersPending, LeftBehind, Pending,
         AfterSwitch, Undoing, Undone, AtRest, RemoveSteps, TxSteps, FinishSteps
<1>8. TargetVerified'
  BY <1>1, <1>2, StepsByName
     DEF CurTyped, MemorySaved, TargetVerified, OthersPending, Pending, Verifies, Tx, Version,
         AfterSwitch, TxSteps
<1>9. LoadedInv'
  BY <1>1, <1>2, StepsByName
     DEF CurTyped, StateOfStep, MemorySaved, LoadedInv, OthersPending, Pending, Tx, Ran,
         Undone, AfterSwitch, AtRest, RemoveSteps, TxSteps, FinishSteps
<1>10. KeptInv'
  <2> SUFFICES ASSUME "kept" \notin cost'
               PROVE  (OnlyLastPending /\ WholeAtRest /\ LastRestorable /\ OpKept
                        /\ UndoKept)'
    BY DEF KeptInv
  <2>1. OnlyLastPending /\ WholeAtRest /\ LastRestorable /\ OpKept /\ UndoKept
    BY <1>1, <1>2 DEF KeptInv
  <2>2. OnlyLastPending'
    BY <1>1, <1>2, <2>1, StepsByName
       DEF OnlyLastPending, Pending, CurTyped, StateOfStep, TxSteps, FinishSteps, Finishing
  <2>3. WholeAtRest'
    <3>1. Pending(cur.tx) /\ ~Finishing(cur.tx)
      BY <1>1, <1>2, StepsByName DEF StateOfStep, Undoing
    <3>2. Pending(clock) /\ ~Finishing(clock) /\ clock \in Txs /\ ~NonePending
      BY <1>2, <2>1, <3>1, PendingIsLast
    <3> QED  BY <1>2, <3>2 DEF WholeAtRest, NonePending, Pending, Finishing, RemoveSteps
  <2>4. LastRestorable'
    BY <1>1, <1>2, <2>1, StepsByName
       DEF Tx, Version, OnlyLastPending, LastRestorable, Restorable, Last, Target, Pending,
           Finishing, Verifies, CurTyped, StateOfStep, TxSteps, FinishSteps
  <2>5. OpKept'
    BY <1>1, <1>2, <2>1, StepsByName
       DEF OpKept, Whole, Verifies, Tx, Version, AfterSwitch, CurTyped, StateOfStep, TxSteps,
           FinishSteps, Pending, Finishing
  <2>6. UndoKept'
    <3>1. Pending(cur.tx) /\ ~Finishing(cur.tx)
      BY <1>1, <1>2, StepsByName DEF StateOfStep, Undoing
    <3>2. /\ cur.tx = clock /\ clock \in Txs /\ Pending(clock) /\ ~Finishing(clock)
          /\ Tx = Last /\ Version = Target
      BY <1>2, <2>1, <3>1, PendingIsLast
    <3>3. Tx.op # "rollback" => Restorable
      BY <2>1, <3>2 DEF LastRestorable
    <3>4. cur.backed = Tx.backed  BY <1>2, <2>1 DEF UndoKept, Undoing
    <3>5. Tx.op # "rollback" /\ Whole(promised)  BY <1>2, <2>1 DEF UndoKept
    <3>6. rec' = promised'  BY <1>2, <3>2, <3>3, <3>5 DEF Restorable
    <3>7. Whole(promised)'  BY <1>2, <3>5 DEF Whole, Verifies
    <3> QED  BY <1>2, <3>4, <3>5, <3>6, <3>7 DEF UndoKept, Tx, Version, Undoing
  <2> QED  BY <2>2, <2>3, <2>4, <2>5, <2>6
<1> QED  BY <1>3, <1>4, <1>5, <1>6, <1>7, <1>8, <1>9, <1>10 DEF IInv, Shape

\* UndoMark keeps the invariant.
LEMMA UndoMarkKeeps == IInv /\ UndoMark => IInv'
<1> SUFFICES ASSUME IInv, UndoMark PROVE IInv'
  OBVIOUS
<1>1. /\ Shape /\ TypeOK /\ JournalsTyped /\ CurTyped /\ StateOfStep
      /\ MemorySaved /\ TargetVerified /\ LoadedInv /\ KeptInv
  BY DEF IInv, Shape
<1>2. /\ pc = "undo_mark" /\ pc' = "undo_unlock"
      /\ cur.tx \in Txs /\ Started(cur.tx) /\ (~cur.recovering => cur.tx = clock)
      /\ journal' \in [Txs -> Journals]
      /\ \A t \in Txs : t # cur.tx => journal'[t] = journal[t]
      /\ journal'[cur.tx].state = "rolled_back" /\ journal'[cur.tx].backed = cur.backed
      /\ journal'[cur.tx].op = Tx.op /\ journal'[cur.tx].version = Version
      /\ journal'[cur.tx].prev = Tx.prev
      /\ UNCHANGED <<payload, rec, backup, lock, mem, loaded, cur, outcome, clock, failures,
                     promised, since, cost>>
  BY <1>1, UndoMarkEffect
<1>3. TypeOK'
  BY <1>1, <1>2, StepsByName, Empties, BoundsAssumption
     DEF TypeOK, Steps, StartSteps, RemoveSteps, Outcomes, Txs, None
<1>4. JournalsTyped'
  BY <1>1, <1>2, StepsByName DEF JournalsTyped, Started, Tx, Version
<1>5. CurTyped'
  BY <1>1, <1>2, StepsByName
     DEF CurTyped, Started, Order, Tx, AtRest, RemoveSteps, TxSteps, FinishSteps
<1>6. StateOfStep'
  BY <1>1, <1>2, StepsByName
     DEF CurTyped, TxSteps, StateOfStep, Pending, Finishing, Undoing, Undone, FinishSteps, Tx
<1>7. MemorySaved'
  BY <1>1, <1>2, StepsByName
     DEF CurTyped, StateOfStep, MemorySaved, Tx, OthersPending, LeftBehind, Pending,
         AfterSwitch, Undoing, Undone, AtRest, RemoveSteps, TxSteps, FinishSteps
<1>8. TargetVerified'
  BY <1>1, <1>2, StepsByName
     DEF CurTyped, MemorySaved, TargetVerified, OthersPending, Pending, Verifies, Tx, Version,
         AfterSwitch, TxSteps
<1>9. LoadedInv'
  BY <1>1, <1>2, StepsByName
     DEF CurTyped, StateOfStep, MemorySaved, LoadedInv, OthersPending, Pending, Tx, Ran,
         Undone, AfterSwitch, AtRest, RemoveSteps, TxSteps, FinishSteps
<1>10. KeptInv'
  <2> SUFFICES ASSUME "kept" \notin cost'
               PROVE  (OnlyLastPending /\ WholeAtRest /\ LastRestorable /\ OpKept
                        /\ UndoKept)'
    BY DEF KeptInv
  <2>1. OnlyLastPending /\ WholeAtRest /\ LastRestorable /\ OpKept /\ UndoKept
    BY <1>1, <1>2 DEF KeptInv
  <2>2. OnlyLastPending'
    BY <1>1, <1>2, <2>1, StepsByName
       DEF OnlyLastPending, Pending, CurTyped, StateOfStep, TxSteps, FinishSteps, Finishing
  <2>3. WholeAtRest'
    <3>1. Whole(rec)' <=> Whole(rec)  BY <1>2 DEF Whole, Verifies
    <3>2. Whole(rec) /\ rec = promised  BY <1>2, <2>1 DEF UndoKept
    <3> QED
      BY <1>2, <2>1, <3>1, <3>2, StepsByName
         DEF WholeAtRest, NonePending, Pending, Finishing, RemoveSteps, OnlyLastPending
  <2>4. LastRestorable'
    BY <1>1, <1>2, <2>1, StepsByName
       DEF Tx, Version, OnlyLastPending, LastRestorable, Restorable, Last, Target, Pending,
           Finishing, Verifies, CurTyped, StateOfStep, TxSteps, FinishSteps
  <2>5. OpKept'
    BY <1>1, <1>2, <2>1, StepsByName
       DEF OpKept, Whole, Verifies, Tx, Version, AfterSwitch, CurTyped, StateOfStep, TxSteps,
           FinishSteps, Pending, Finishing
  <2>6. UndoKept'
    BY <1>1, <1>2, <2>1, StepsByName
       DEF UndoKept, HasBackup, Whole, Verifies, Tx, Version, Pending, Finishing, Undoing,
           CurTyped, StateOfStep, TxSteps, FinishSteps
  <2> QED  BY <2>2, <2>3, <2>4, <2>5, <2>6
<1> QED  BY <1>3, <1>4, <1>5, <1>6, <1>7, <1>8, <1>9, <1>10 DEF IInv, Shape

\* UndoUnlock keeps the invariant.
LEMMA UndoUnlockKeeps == IInv /\ UndoUnlock => IInv'
<1> SUFFICES ASSUME IInv, UndoUnlock PROVE IInv'
  OBVIOUS
<1>1. /\ Shape /\ TypeOK /\ JournalsTyped /\ CurTyped /\ StateOfStep
      /\ MemorySaved /\ TargetVerified /\ LoadedInv /\ KeptInv
  BY DEF IInv, Shape
<1>2. /\ pc = "undo_unlock"
      /\ pc' = (IF cur.recovering THEN "recover" ELSE "undo_clean")
      /\ cur.tx \in Txs /\ Started(cur.tx) /\ (~cur.recovering => cur.tx = clock)
      /\ lock' = "free"
      /\ UNCHANGED <<payload, rec, backup, journal, mem, loaded, cur, outcome, clock,
                     failures, promised, since, cost>>
  BY <1>1, UndoUnlockEffect
<1>3. TypeOK'
  BY <1>1, <1>2, StepsByName, Empties, BoundsAssumption
     DEF TypeOK, Steps, StartSteps, RemoveSteps, Outcomes, Txs, None
<1>4. JournalsTyped'
  BY <1>1, <1>2, StepsByName DEF JournalsTyped, Started, Tx, Version
<1>5. CurTyped'
  BY <1>1, <1>2, StepsByName
     DEF CurTyped, Started, Order, Tx, AtRest, RemoveSteps, TxSteps, FinishSteps
<1>6. StateOfStep'
  BY <1>1, <1>2, StepsByName
     DEF CurTyped, TxSteps, StateOfStep, Pending, Finishing, Undoing, Undone, FinishSteps, Tx
<1>7. MemorySaved'
  BY <1>1, <1>2, StepsByName
     DEF CurTyped, StateOfStep, MemorySaved, Tx, OthersPending, LeftBehind, Pending,
         AfterSwitch, Undoing, Undone, AtRest, RemoveSteps, TxSteps, FinishSteps
<1>8. TargetVerified'
  BY <1>1, <1>2, StepsByName
     DEF CurTyped, MemorySaved, TargetVerified, OthersPending, Pending, Verifies, Tx, Version,
         AfterSwitch, TxSteps
<1>9. LoadedInv'
  BY <1>1, <1>2, StepsByName
     DEF CurTyped, StateOfStep, MemorySaved, LoadedInv, OthersPending, Pending, Tx, Ran,
         Undone, AfterSwitch, AtRest, RemoveSteps, TxSteps, FinishSteps
<1>10. KeptInv'
  <2> SUFFICES ASSUME "kept" \notin cost'
               PROVE  (OnlyLastPending /\ WholeAtRest /\ LastRestorable /\ OpKept
                        /\ UndoKept)'
    BY DEF KeptInv
  <2>1. OnlyLastPending /\ WholeAtRest /\ LastRestorable /\ OpKept /\ UndoKept
    BY <1>1, <1>2 DEF KeptInv
  <2>2. OnlyLastPending'
    BY <1>1, <1>2, <2>1, StepsByName
       DEF OnlyLastPending, Pending, CurTyped, StateOfStep, TxSteps, FinishSteps, Finishing
  <2>3. WholeAtRest'
    BY <1>1, <1>2, <2>1, StepsByName
       DEF WholeAtRest, NonePending, Pending, Finishing, Whole, Verifies, RemoveSteps,
           CurTyped, StateOfStep, TxSteps, FinishSteps
  <2>4. LastRestorable'
    BY <1>1, <1>2, <2>1, StepsByName
       DEF Tx, Version, OnlyLastPending, LastRestorable, Restorable, Last, Target, Pending,
           Finishing, Verifies, CurTyped, StateOfStep, TxSteps, FinishSteps
  <2>5. OpKept'
    BY <1>1, <1>2, <2>1, StepsByName
       DEF OpKept, Whole, Verifies, Tx, Version, AfterSwitch, CurTyped, StateOfStep, TxSteps,
           FinishSteps, Pending, Finishing
  <2>6. UndoKept'
    BY <1>1, <1>2, <2>1, StepsByName
       DEF UndoKept, HasBackup, Whole, Verifies, Tx, Version, Pending, Finishing, Undoing,
           CurTyped, StateOfStep, TxSteps, FinishSteps
  <2> QED  BY <2>2, <2>3, <2>4, <2>5, <2>6
<1> QED  BY <1>3, <1>4, <1>5, <1>6, <1>7, <1>8, <1>9, <1>10 DEF IInv, Shape

\* UndoClean keeps the invariant.
LEMMA UndoCleanKeeps == IInv /\ UndoClean => IInv'
<1> SUFFICES ASSUME IInv, UndoClean PROVE IInv'
  OBVIOUS
<1>1. /\ Shape /\ TypeOK /\ JournalsTyped /\ CurTyped /\ StateOfStep
      /\ MemorySaved /\ TargetVerified /\ LoadedInv /\ KeptInv
  BY DEF IInv, Shape
<1>2. /\ pc = "undo_clean" /\ pc' = "ready"
      /\ cur.tx \in Txs /\ Started(cur.tx) /\ (~cur.recovering => cur.tx = clock)
      /\ ~cur.recovering
      /\ backup' \in [Txs -> Contents]
      /\ \A t \in Txs : t # cur.tx => backup'[t] = backup[t]
      /\ outcome' = "failed" /\ cur' = NoCur
      /\ UNCHANGED <<payload, rec, journal, lock, mem, loaded, clock, failures, promised,
                     since, cost>>
  BY <1>1, UndoCleanEffect
<1>t. clock \in Nat /\ since \in Nat /\ Txs \subseteq Nat \ {0}
  BY <1>1, BoundsAssumption DEF TypeOK, Txs
<1>3. TypeOK'
  BY <1>1, <1>2, StepsByName, Empties, BoundsAssumption
     DEF TypeOK, Steps, StartSteps, RemoveSteps, Outcomes, Txs, None
<1>4. JournalsTyped'
  BY <1>1, <1>2, StepsByName DEF JournalsTyped, Started, Tx, Version
<1>5. CurTyped'
  BY <1>1, <1>2, StepsByName, Empties
     DEF CurTyped, Started, Order, Tx, AtRest, RemoveSteps, TxSteps, FinishSteps
<1>6. StateOfStep'
  BY <1>1, <1>2, StepsByName, Empties
     DEF CurTyped, TxSteps, StateOfStep, Pending, Finishing, Undoing, Undone, FinishSteps, Tx
<1>7. MemorySaved'
  BY <1>1, <1>2, StepsByName, Empties, <1>t
     DEF CurTyped, StateOfStep, MemorySaved, Tx, OthersPending, LeftBehind, Pending,
         AfterSwitch, Undoing, Undone, AtRest, RemoveSteps, TxSteps, FinishSteps
<1>8. TargetVerified'
  BY <1>1, <1>2, StepsByName
     DEF CurTyped, MemorySaved, TargetVerified, OthersPending, Pending, Verifies, Tx, Version,
         AfterSwitch, TxSteps
<1>9. LoadedInv'
  BY <1>1, <1>2, StepsByName, Empties, <1>t
     DEF CurTyped, StateOfStep, MemorySaved, LoadedInv, OthersPending, Pending, Tx, Ran,
         Undone, AfterSwitch, AtRest, RemoveSteps, TxSteps, FinishSteps, JournalsTyped,
         Started
<1>10. KeptInv'
  <2> SUFFICES ASSUME "kept" \notin cost'
               PROVE  (OnlyLastPending /\ WholeAtRest /\ LastRestorable /\ OpKept
                        /\ UndoKept)'
    BY DEF KeptInv
  <2>1. OnlyLastPending /\ WholeAtRest /\ LastRestorable /\ OpKept /\ UndoKept
    BY <1>1, <1>2 DEF KeptInv
  <2>2. OnlyLastPending'
    BY <1>1, <1>2, <2>1, StepsByName, Empties
       DEF OnlyLastPending, Pending, CurTyped, StateOfStep, TxSteps, FinishSteps, Finishing
  <2>3. WholeAtRest'
    <3>1. Whole(rec)' <=> Whole(rec)  BY <1>2 DEF Whole, Verifies
    <3>2. mem = rec  BY <1>1, <1>2 DEF MemorySaved, Undone
    <3> QED
      BY <1>2, <2>1, <3>1, <3>2, StepsByName
         DEF WholeAtRest, NonePending, Pending, Finishing, RemoveSteps
  <2>4. LastRestorable'
    <3>1. cur.tx = clock /\ Tx.state = "rolled_back"  BY <1>1, <1>2 DEF StateOfStep, Undone
    <3> QED  BY <1>2, <3>1 DEF LastRestorable, Pending, Tx
  <2>5. OpKept'
    BY <1>1, <1>2, <2>1, StepsByName
       DEF OpKept, Whole, Verifies, Tx, Version, AfterSwitch, CurTyped, StateOfStep, TxSteps,
           FinishSteps, Pending, Finishing
  <2>6. UndoKept'
    BY <1>1, <1>2, <2>1, StepsByName
       DEF UndoKept, HasBackup, Whole, Verifies, Tx, Version, Pending, Finishing, Undoing,
           CurTyped, StateOfStep, TxSteps, FinishSteps
  <2> QED  BY <2>2, <2>3, <2>4, <2>5, <2>6
<1> QED  BY <1>3, <1>4, <1>5, <1>6, <1>7, <1>8, <1>9, <1>10 DEF IInv, Shape

\* UndoFault keeps the invariant.
LEMMA UndoFaultKeeps == IInv /\ UndoFault => IInv'
<1> SUFFICES ASSUME IInv, UndoFault PROVE IInv'
  OBVIOUS
<1>1. /\ Shape /\ TypeOK /\ JournalsTyped /\ CurTyped /\ StateOfStep
      /\ MemorySaved /\ TargetVerified /\ LoadedInv /\ KeptInv
  BY DEF IInv, Shape
<1>2. /\ pc \in {"undo_remove", "undo_copy", "undo_record", "undo_mark", "undo_clean"}
      /\ pc' = (IF cur.recovering THEN "remark" ELSE "give_up")
      /\ cur.tx \in Txs /\ Started(cur.tx) /\ (~cur.recovering => cur.tx = clock)
      /\ Version \in Versions
      /\ payload' \in [Versions -> Contents] /\ backup' \in [Txs -> Contents]
      /\ \A v \in Versions \ {Version} : payload'[v] = payload[v]
      /\ payload' = payload \/ (pc = "undo_remove" /\ UndoRemoves)
           \/ (pc = "undo_copy" /\ HasBackup)
      /\ backup' = backup \/ pc = "undo_clean"
      /\ mem' \in Records /\ lock' \in {"free", "held", "fresh", "stale"}
      /\ failures' \in 0..MaxFailures /\ cost' \subseteq Costs /\ cost \subseteq cost'
      /\ pc = "undo_clean" => "kept" \in cost' /\ mem' = mem
      /\ UNCHANGED <<rec, journal, loaded, cur, outcome, clock, promised, since>>
  BY <1>1, UndoFaultEffect
<1>t. clock \in Nat /\ since \in Nat /\ Txs \subseteq Nat \ {0}
  BY <1>1, BoundsAssumption DEF TypeOK, Txs
<1>3. TypeOK'
  BY <1>1, <1>2, StepsByName, Empties, BoundsAssumption
     DEF TypeOK, Steps, StartSteps, RemoveSteps, Outcomes, Txs, None
<1>4. JournalsTyped'
  BY <1>1, <1>2, StepsByName DEF JournalsTyped, Started, Tx, Version
<1>5. CurTyped'
  BY <1>1, <1>2, StepsByName
     DEF CurTyped, Started, Order, Tx, AtRest, RemoveSteps, TxSteps, FinishSteps
<1>6. StateOfStep'
  BY <1>1, <1>2, StepsByName
     DEF CurTyped, TxSteps, StateOfStep, Pending, Finishing, Undoing, Undone, FinishSteps, Tx
<1>7. MemorySaved'
  BY <1>1, <1>2, StepsByName, <1>t
     DEF CurTyped, StateOfStep, MemorySaved, Tx, OthersPending, LeftBehind, Pending,
         AfterSwitch, Undoing, Undone, AtRest, RemoveSteps, TxSteps, FinishSteps
<1>8. TargetVerified'
  BY <1>1, <1>2, StepsByName
     DEF CurTyped, MemorySaved, TargetVerified, OthersPending, Pending, Verifies, Tx, Version,
         AfterSwitch, TxSteps
<1>9. LoadedInv'
  <2> SUFFICES ASSUME "loaded" \notin cost' PROVE LoadedInv'
    BY DEF LoadedInv
  <2>1. "loaded" \notin cost  BY <1>2
  <2>2. (OthersPending' <=> OthersPending) /\ Tx' = Tx
          /\ (Pending(cur.tx)' <=> Pending(cur.tx))
    BY <1>2 DEF OthersPending, Pending, Tx
  <2>3. pc \in TxSteps \ Ran /\ pc' \in TxSteps \ Ran
          /\ pc' \notin {"ready", "undo_mark"} \cup RemoveSteps \cup Ran \cup Undone
    BY <1>2, StepsByName DEF TxSteps, Ran, RemoveSteps, Undone
  <2>4. ~Pending(cur.tx) => pc = "undo_clean"
    BY <1>1, <1>2, StepsByName DEF StateOfStep, Undoing
  <2>5. pc = "undo_clean" => rec = Tx.prev  BY <1>1, <2>1 DEF LoadedInv, Undone
  <2>6. ~cur.recovering /\ ~OthersPending /\ Tx.op = "upgrade" => loaded = Tx.prev.active
    BY <1>1, <2>1, <2>3 DEF LoadedInv
  <2> QED  BY <1>2, <2>2, <2>3, <2>4, <2>5, <2>6 DEF LoadedInv
<1>10. KeptInv'
  <2> SUFFICES ASSUME "kept" \notin cost'
               PROVE  (OnlyLastPending /\ WholeAtRest /\ LastRestorable /\ OpKept
                        /\ UndoKept)'
    BY DEF KeptInv
  <2>1. OnlyLastPending /\ WholeAtRest /\ LastRestorable /\ OpKept /\ UndoKept
    BY <1>1, <1>2 DEF KeptInv
  <2>2. OnlyLastPending'
    BY <1>1, <1>2, <2>1, StepsByName
       DEF OnlyLastPending, Pending, CurTyped, StateOfStep, TxSteps, FinishSteps, Finishing
  <2>3. WholeAtRest'
    <3>1. Pending(cur.tx) /\ ~Finishing(cur.tx)
      BY <1>1, <1>2, StepsByName DEF StateOfStep, Undoing
    <3>2. Pending(clock) /\ ~Finishing(clock) /\ clock \in Txs /\ ~NonePending
      BY <1>2, <2>1, <3>1, PendingIsLast
    <3> QED  BY <1>2, <3>2 DEF WholeAtRest, NonePending, Pending, Finishing, RemoveSteps
  <2>4. LastRestorable'
    <3>1. Pending(cur.tx) /\ ~Finishing(cur.tx)
      BY <1>1, <1>2, StepsByName DEF StateOfStep, Undoing
    <3>2. /\ cur.tx = clock /\ clock \in Txs /\ Pending(clock) /\ ~Finishing(clock)
          /\ Tx = Last /\ Version = Target
      BY <1>2, <2>1, <3>1, PendingIsLast
    <3>3. Tx.op # "rollback" => Restorable
      BY <2>1, <3>2 DEF LastRestorable
    <3>4. cur.backed = Tx.backed  BY <1>2, <2>1 DEF UndoKept, Undoing
    <3>5. ASSUME Tx.op # "rollback" PROVE Restorable'
      <4>1. Restorable  BY <3>3, <3>5
      <4>2. Target \in promised.versions /\ ~Last.backed => ~UndoRemoves /\ ~HasBackup
        <5>1. Target \in promised.versions => promised # NoRec  BY DEF NoRec
        <5> QED  BY <3>2, <3>4, <4>1, <5>1 DEF UndoRemoves, HasBackup, Restorable
      <4> QED  BY <1>2, <3>2, <4>1, <4>2, RestorableKept DEF Last, Target
    <3> QED  BY <1>2, <3>2, <3>5 DEF LastRestorable, Last
  <2>5. OpKept'
    BY <1>1, <1>2, <2>1, StepsByName
       DEF OpKept, Whole, Verifies, Tx, Version, AfterSwitch, CurTyped, StateOfStep, TxSteps,
           FinishSteps, Pending, Finishing
  <2>6. UndoKept'
    BY <1>1, <1>2, <2>1, StepsByName
       DEF UndoKept, HasBackup, Whole, Verifies, Tx, Version, Pending, Finishing, Undoing,
           CurTyped, StateOfStep, TxSteps, FinishSteps
  <2> QED  BY <2>2, <2>3, <2>4, <2>5, <2>6
<1> QED  BY <1>3, <1>4, <1>5, <1>6, <1>7, <1>8, <1>9, <1>10 DEF IInv, Shape

\* GiveUp keeps the invariant.
LEMMA GiveUpKeeps == IInv /\ GiveUp => IInv'
<1> SUFFICES ASSUME IInv, GiveUp PROVE IInv'
  OBVIOUS
<1>1. /\ Shape /\ TypeOK /\ JournalsTyped /\ CurTyped /\ StateOfStep
      /\ MemorySaved /\ TargetVerified /\ LoadedInv /\ KeptInv
  BY DEF IInv, Shape
<1>2. /\ pc = "give_up" /\ pc' = "ready"
      /\ cur.tx \in Txs /\ cur.tx = clock /\ ~cur.recovering /\ Started(cur.tx)
      /\ failures' \in 0..MaxFailures
      /\ outcome' = "failed" /\ cur' = NoCur
      /\ \/ /\ journal' \in [Txs -> Journals]
            /\ \A t \in Txs : t # cur.tx => journal'[t] = journal[t]
            /\ journal'[cur.tx].state = "rollback_required"
            /\ journal'[cur.tx].backed = cur.backed
            /\ journal'[cur.tx].op = Tx.op /\ journal'[cur.tx].version = Version
            /\ journal'[cur.tx].prev = Tx.prev
         \/ UNCHANGED journal
      /\ UNCHANGED <<payload, rec, backup, lock, mem, loaded, clock, promised, since, cost>>
  BY <1>1, GiveUpEffect
<1>t. clock \in Nat /\ since \in Nat /\ Txs \subseteq Nat \ {0}
  BY <1>1, BoundsAssumption DEF TypeOK, Txs
<1>3. TypeOK'
  BY <1>1, <1>2, StepsByName, Empties, BoundsAssumption
     DEF TypeOK, Steps, StartSteps, RemoveSteps, Outcomes, Txs, None
<1>4. JournalsTyped'
  BY <1>1, <1>2, StepsByName DEF JournalsTyped, Started, Tx, Version
<1>5. CurTyped'
  BY <1>1, <1>2, StepsByName, Empties
     DEF CurTyped, Started, Order, Tx, AtRest, RemoveSteps, TxSteps, FinishSteps
<1>6. StateOfStep'
  BY <1>1, <1>2, StepsByName, Empties
     DEF CurTyped, TxSteps, StateOfStep, Pending, Finishing, Undoing, Undone, FinishSteps, Tx
<1>7. MemorySaved'
  BY <1>1, <1>2, StepsByName, Empties, <1>t
     DEF CurTyped, StateOfStep, MemorySaved, Tx, OthersPending, LeftBehind, Pending,
         AfterSwitch, Undoing, Undone, AtRest, RemoveSteps, TxSteps, FinishSteps
<1>8. TargetVerified'
  BY <1>1, <1>2, StepsByName
     DEF CurTyped, MemorySaved, TargetVerified, OthersPending, Pending, Verifies, Tx, Version,
         AfterSwitch, TxSteps
<1>9. LoadedInv'
  BY <1>1, <1>2, StepsByName, Empties, <1>t
     DEF CurTyped, StateOfStep, MemorySaved, LoadedInv, OthersPending, Pending, Tx, Ran,
         Undone, AfterSwitch, AtRest, RemoveSteps, TxSteps, FinishSteps, JournalsTyped,
         Started
<1>10. KeptInv'
  <2> SUFFICES ASSUME "kept" \notin cost'
               PROVE  (OnlyLastPending /\ WholeAtRest /\ LastRestorable /\ OpKept
                        /\ UndoKept)'
    BY DEF KeptInv
  <2>1. OnlyLastPending /\ WholeAtRest /\ LastRestorable /\ OpKept /\ UndoKept
    BY <1>1, <1>2 DEF KeptInv
  <2>2. OnlyLastPending'
    BY <1>1, <1>2, <2>1, StepsByName, Empties
       DEF OnlyLastPending, Pending, CurTyped, StateOfStep, TxSteps, FinishSteps, Finishing,
           UndoKept
  <2>3. WholeAtRest'
    BY <1>1, <1>2, <2>1, StepsByName, Empties
       DEF WholeAtRest, NonePending, Pending, Finishing, Whole, Verifies, RemoveSteps,
           CurTyped, StateOfStep, TxSteps, FinishSteps, UndoKept, OnlyLastPending
  <2>4. LastRestorable'
    BY <1>1, <1>2, <2>1, StepsByName, Empties
       DEF Tx, Version, OnlyLastPending, LastRestorable, Restorable, Last, Target, Pending,
           Finishing, Verifies, CurTyped, StateOfStep, TxSteps, FinishSteps, UndoKept
  <2>5. OpKept'
    BY <1>1, <1>2, <2>1, StepsByName
       DEF OpKept, Whole, Verifies, Tx, Version, AfterSwitch, CurTyped, StateOfStep, TxSteps,
           FinishSteps, Pending, Finishing
  <2>6. UndoKept'
    BY <1>1, <1>2, <2>1, StepsByName
       DEF UndoKept, HasBackup, Whole, Verifies, Tx, Version, Pending, Finishing, Undoing,
           CurTyped, StateOfStep, TxSteps, FinishSteps
  <2> QED  BY <2>2, <2>3, <2>4, <2>5, <2>6
<1> QED  BY <1>3, <1>4, <1>5, <1>6, <1>7, <1>8, <1>9, <1>10 DEF IInv, Shape

\* Uninstall keeps the invariant.
LEMMA UninstallKeeps == IInv /\ Uninstall => IInv'
<1> SUFFICES ASSUME IInv, Uninstall PROVE IInv'
  OBVIOUS
<1>1. /\ Shape /\ TypeOK /\ JournalsTyped /\ CurTyped /\ StateOfStep
      /\ MemorySaved /\ TargetVerified /\ LoadedInv /\ KeptInv
  BY DEF IInv, Shape
<1>2. /\ pc = "ready" /\ pc' = "un_lock"
      /\ clock' = clock + 1 /\ clock' \in Txs
      /\ outcome' = "none"
      /\ cost' \subseteq Costs /\ cost \subseteq cost' /\ ("kept" \notin cost' => NonePending)
      /\ UNCHANGED <<payload, rec, backup, journal, lock, mem, loaded, cur, failures,
                     promised, since>>
  BY <1>1, UninstallEffect
<1>t. clock \in Nat /\ since \in Nat /\ Txs \subseteq Nat \ {0}
  BY <1>1, BoundsAssumption DEF TypeOK, Txs
<1>3. TypeOK'
  <2>1. pc' \in Steps  BY <1>2, StepsByName DEF Steps, StartSteps, RemoveSteps
  <2>2. clock' \in 0..MaxTx /\ since' \in 0..MaxTx /\ loaded' \in 0..MaxVersion
    BY <1>1, <1>2, BoundsAssumption DEF TypeOK, Txs, None
  <2>3. cur' \in Locals /\ mem' \in Records /\ promised' \in Records /\ rec' \in Records
    BY <1>1, <1>2, Empties DEF TypeOK
  <2>4. outcome' \in Outcomes  BY <1>1, <1>2 DEF TypeOK, Outcomes
  <2> QED  BY <1>1, <1>2, <2>1, <2>2, <2>3, <2>4 DEF TypeOK
<1>4. JournalsTyped'
  BY <1>1, <1>2, StepsByName, <1>t DEF JournalsTyped, Started, Tx, Version
<1>5. CurTyped'
  BY <1>1, <1>2, StepsByName, <1>t
     DEF CurTyped, Started, Order, Tx, AtRest, RemoveSteps, TxSteps, FinishSteps
<1>6. StateOfStep'
  BY <1>1, <1>2, StepsByName
     DEF CurTyped, TxSteps, StateOfStep, Pending, Finishing, Undoing, Undone, FinishSteps, Tx
<1>7. MemorySaved'
  BY <1>1, <1>2, StepsByName, <1>t
     DEF CurTyped, StateOfStep, MemorySaved, Tx, OthersPending, LeftBehind, Pending,
         AfterSwitch, Undoing, Undone, AtRest, RemoveSteps, TxSteps, FinishSteps
<1>8. TargetVerified'
  BY <1>1, <1>2, StepsByName, <1>t
     DEF CurTyped, MemorySaved, TargetVerified, OthersPending, Pending, Verifies, Tx, Version,
         AfterSwitch, TxSteps
<1>9. LoadedInv'
  BY <1>1, <1>2, StepsByName, <1>t
     DEF CurTyped, StateOfStep, MemorySaved, LoadedInv, OthersPending, Pending, Tx, Ran,
         Undone, AfterSwitch, AtRest, RemoveSteps, TxSteps, FinishSteps
<1>10. KeptInv'
  <2> SUFFICES ASSUME "kept" \notin cost'
               PROVE  (OnlyLastPending /\ WholeAtRest /\ LastRestorable /\ OpKept
                        /\ UndoKept)'
    BY DEF KeptInv
  <2>1. OnlyLastPending /\ WholeAtRest /\ LastRestorable /\ OpKept /\ UndoKept
    BY <1>1, <1>2 DEF KeptInv
  <2>2. OnlyLastPending'
    BY <1>1, <1>2, <2>1, StepsByName, <1>t
       DEF OnlyLastPending, Pending, CurTyped, StateOfStep, TxSteps, FinishSteps, Finishing,
           NonePending, JournalsTyped, Started
  <2>3. WholeAtRest'
    BY <1>1, <1>2, <2>1, StepsByName, <1>t
       DEF WholeAtRest, NonePending, Pending, Finishing, Whole, Verifies, RemoveSteps,
           CurTyped, StateOfStep, TxSteps, FinishSteps
  <2>4. LastRestorable'
    BY <1>1, <1>2, <2>1, StepsByName, <1>t
       DEF Tx, Version, OnlyLastPending, LastRestorable, Restorable, Last, Target, Pending,
           Finishing, Verifies, CurTyped, StateOfStep, TxSteps, FinishSteps
  <2>5. OpKept'
    BY <1>1, <1>2, <2>1, StepsByName
       DEF OpKept, Whole, Verifies, Tx, Version, AfterSwitch, CurTyped, StateOfStep, TxSteps,
           FinishSteps, Pending, Finishing
  <2>6. UndoKept'
    BY <1>1, <1>2, <2>1, StepsByName
       DEF UndoKept, HasBackup, Whole, Verifies, Tx, Version, Pending, Finishing, Undoing,
           CurTyped, StateOfStep, TxSteps, FinishSteps
  <2> QED  BY <2>2, <2>3, <2>4, <2>5, <2>6
<1> QED  BY <1>3, <1>4, <1>5, <1>6, <1>7, <1>8, <1>9, <1>10 DEF IInv, Shape

\* RemovePayloads keeps the invariant.
LEMMA RemovePayloadsKeeps == IInv /\ RemovePayloads => IInv'
<1> SUFFICES ASSUME IInv, RemovePayloads PROVE IInv'
  OBVIOUS
<1>1. /\ Shape /\ TypeOK /\ JournalsTyped /\ CurTyped /\ StateOfStep
      /\ MemorySaved /\ TargetVerified /\ LoadedInv /\ KeptInv
  BY DEF IInv, Shape
<1>2. /\ pc = "un_remove" /\ pc' = "un_save"
      /\ mem' = NoRec
      /\ payload' \in [Versions -> Contents] /\ \A v \in Versions : payload'[v] = None
      /\ UNCHANGED <<rec, backup, journal, lock, loaded, cur, outcome, clock, failures,
                     promised, since, cost>>
  BY <1>1, RemovePayloadsEffect
<1>3. TypeOK'
  BY <1>1, <1>2, StepsByName, Empties, BoundsAssumption
     DEF TypeOK, Steps, StartSteps, RemoveSteps, Outcomes, Txs, None
<1>4. JournalsTyped'
  BY <1>1, <1>2, StepsByName DEF JournalsTyped, Started, Tx, Version
<1>5. CurTyped'
  BY <1>1, <1>2, StepsByName
     DEF CurTyped, Started, Order, Tx, AtRest, RemoveSteps, TxSteps, FinishSteps
<1>6. StateOfStep'
  BY <1>1, <1>2, StepsByName
     DEF CurTyped, TxSteps, StateOfStep, Pending, Finishing, Undoing, Undone, FinishSteps, Tx
<1>7. MemorySaved'
  BY <1>1, <1>2, StepsByName
     DEF CurTyped, StateOfStep, MemorySaved, Tx, OthersPending, LeftBehind, Pending,
         AfterSwitch, Undoing, Undone, AtRest, RemoveSteps, TxSteps, FinishSteps
<1>8. TargetVerified'
  BY <1>1, <1>2, StepsByName
     DEF CurTyped, MemorySaved, TargetVerified, OthersPending, Pending, Verifies, Tx, Version,
         AfterSwitch, TxSteps
<1>9. LoadedInv'
  BY <1>1, <1>2, StepsByName
     DEF CurTyped, StateOfStep, MemorySaved, LoadedInv, OthersPending, Pending, Tx, Ran,
         Undone, AfterSwitch, AtRest, RemoveSteps, TxSteps, FinishSteps
<1>10. KeptInv'
  <2> SUFFICES ASSUME "kept" \notin cost'
               PROVE  (OnlyLastPending /\ WholeAtRest /\ LastRestorable /\ OpKept
                        /\ UndoKept)'
    BY DEF KeptInv
  <2>1. OnlyLastPending /\ WholeAtRest /\ LastRestorable /\ OpKept /\ UndoKept
    BY <1>1, <1>2 DEF KeptInv
  <2>2. OnlyLastPending'
    BY <1>1, <1>2, <2>1, StepsByName
       DEF OnlyLastPending, Pending, CurTyped, StateOfStep, TxSteps, FinishSteps, Finishing
  <2>3. WholeAtRest'
    BY <1>1, <1>2, <2>1, StepsByName
       DEF WholeAtRest, NonePending, Pending, Finishing, Whole, Verifies, RemoveSteps,
           CurTyped, StateOfStep, TxSteps, FinishSteps
  <2>4. LastRestorable'
    BY <1>1, <1>2, <2>1, StepsByName
       DEF Tx, Version, OnlyLastPending, LastRestorable, Restorable, Last, Target, Pending,
           Finishing, Verifies, CurTyped, StateOfStep, TxSteps, FinishSteps, WholeAtRest,
           NonePending, RemoveSteps
  <2>5. OpKept'
    BY <1>1, <1>2, <2>1, StepsByName
       DEF OpKept, Whole, Verifies, Tx, Version, AfterSwitch, CurTyped, StateOfStep, TxSteps,
           FinishSteps, Pending, Finishing
  <2>6. UndoKept'
    BY <1>1, <1>2, <2>1, StepsByName
       DEF UndoKept, HasBackup, Whole, Verifies, Tx, Version, Pending, Finishing, Undoing,
           CurTyped, StateOfStep, TxSteps, FinishSteps
  <2> QED  BY <2>2, <2>3, <2>4, <2>5, <2>6
<1> QED  BY <1>3, <1>4, <1>5, <1>6, <1>7, <1>8, <1>9, <1>10 DEF IInv, Shape

\* SaveRemoval keeps the invariant.
LEMMA SaveRemovalKeeps == IInv /\ SaveRemoval => IInv'
<1> SUFFICES ASSUME IInv, SaveRemoval PROVE IInv'
  OBVIOUS
<1>1. /\ Shape /\ TypeOK /\ JournalsTyped /\ CurTyped /\ StateOfStep
      /\ MemorySaved /\ TargetVerified /\ LoadedInv /\ KeptInv
  BY DEF IInv, Shape
<1>2. /\ pc = "un_save" /\ pc' = "ready"
      /\ rec' = mem /\ promised' = NoRec /\ since' = clock
      /\ lock' = "free" /\ outcome' = "removed"
      /\ UNCHANGED <<payload, backup, journal, mem, loaded, cur, clock, failures, cost>>
  BY <1>1, SaveRemovalEffect
<1>t. clock \in Nat /\ since \in Nat /\ Txs \subseteq Nat \ {0}
  BY <1>1, BoundsAssumption DEF TypeOK, Txs
<1>3. TypeOK'
  BY <1>1, <1>2, StepsByName, Empties, BoundsAssumption
     DEF TypeOK, Steps, StartSteps, RemoveSteps, Outcomes, Txs, None
<1>4. JournalsTyped'
  BY <1>1, <1>2, StepsByName, <1>t DEF JournalsTyped, Started, Tx, Version
<1>5. CurTyped'
  BY <1>1, <1>2, StepsByName, <1>t
     DEF CurTyped, Started, Order, Tx, AtRest, RemoveSteps, TxSteps, FinishSteps
<1>6. StateOfStep'
  BY <1>1, <1>2, StepsByName
     DEF CurTyped, TxSteps, StateOfStep, Pending, Finishing, Undoing, Undone, FinishSteps, Tx
<1>7. MemorySaved'
  BY <1>1, <1>2, StepsByName, <1>t
     DEF CurTyped, StateOfStep, MemorySaved, Tx, OthersPending, LeftBehind, Pending,
         AfterSwitch, Undoing, Undone, AtRest, RemoveSteps, TxSteps, FinishSteps
<1>8. TargetVerified'
  BY <1>1, <1>2, StepsByName, <1>t
     DEF CurTyped, MemorySaved, TargetVerified, OthersPending, Pending, Verifies, Tx, Version,
         AfterSwitch, TxSteps
<1>9. LoadedInv'
  BY <1>1, <1>2, StepsByName, <1>t
     DEF CurTyped, StateOfStep, MemorySaved, LoadedInv, OthersPending, Pending, Tx, Ran,
         Undone, AfterSwitch, AtRest, RemoveSteps, TxSteps, FinishSteps
<1>10. KeptInv'
  <2> SUFFICES ASSUME "kept" \notin cost'
               PROVE  (OnlyLastPending /\ WholeAtRest /\ LastRestorable /\ OpKept
                        /\ UndoKept)'
    BY DEF KeptInv
  <2>1. OnlyLastPending /\ WholeAtRest /\ LastRestorable /\ OpKept /\ UndoKept
    BY <1>1, <1>2 DEF KeptInv
  <2>2. OnlyLastPending'
    BY <1>1, <1>2, <2>1, StepsByName, <1>t
       DEF OnlyLastPending, Pending, CurTyped, StateOfStep, TxSteps, FinishSteps, Finishing,
           WholeAtRest, NonePending, RemoveSteps
  <2>3. WholeAtRest'
    <3>1. mem = NoRec  BY <1>1, <1>2 DEF MemorySaved
    <3>2. \A v \in Versions : payload[v] = None  BY <1>2, <2>1 DEF WholeAtRest
    <3>3. NonePending  BY <1>2, <2>1 DEF WholeAtRest, RemoveSteps
    <3>4. Whole(rec)'  BY <1>2, <3>1, <3>2 DEF Whole, NoRec
    <3> QED
      BY <1>2, <3>1, <3>3, <3>4 DEF WholeAtRest, NonePending, Pending, Finishing, RemoveSteps
  <2>4. LastRestorable'
    BY <1>1, <1>2, <2>1, StepsByName, <1>t
       DEF Tx, Version, OnlyLastPending, LastRestorable, Restorable, Last, Target, Pending,
           Finishing, Verifies, CurTyped, StateOfStep, TxSteps, FinishSteps, WholeAtRest,
           NonePending, RemoveSteps
  <2>5. OpKept'
    BY <1>1, <1>2, <2>1, StepsByName
       DEF OpKept, Whole, Verifies, Tx, Version, AfterSwitch, CurTyped, StateOfStep, TxSteps,
           FinishSteps, Pending, Finishing
  <2>6. UndoKept'
    BY <1>1, <1>2, <2>1, StepsByName
       DEF UndoKept, HasBackup, Whole, Verifies, Tx, Version, Pending, Finishing, Undoing,
           CurTyped, StateOfStep, TxSteps, FinishSteps
  <2> QED  BY <2>2, <2>3, <2>4, <2>5, <2>6
<1> QED  BY <1>3, <1>4, <1>5, <1>6, <1>7, <1>8, <1>9, <1>10 DEF IInv, Shape

\* UninstallFault keeps the invariant.
LEMMA UninstallFaultKeeps == IInv /\ UninstallFault => IInv'
<1> SUFFICES ASSUME IInv, UninstallFault PROVE IInv'
  OBVIOUS
<1>1. /\ Shape /\ TypeOK /\ JournalsTyped /\ CurTyped /\ StateOfStep
      /\ MemorySaved /\ TargetVerified /\ LoadedInv /\ KeptInv
  BY DEF IInv, Shape
<1>2. /\ pc \in {"un_remove", "un_save"} /\ pc' = "ready"
      /\ payload' \in [Versions -> Contents] /\ backup' \in [Txs -> Contents]
      /\ mem' = (IF pc = "un_remove" THEN NoRec ELSE mem)
      /\ lock' \in {"free", "held", "fresh", "stale"}
      /\ failures' \in 0..MaxFailures /\ cost' \subseteq Costs /\ cost \subseteq cost'
      /\ "kept" \in cost'
      /\ outcome' = "failed"
      /\ UNCHANGED <<rec, journal, loaded, cur, clock, promised, since>>
  BY <1>1, UninstallFaultEffect
<1>3. TypeOK'
  BY <1>1, <1>2, StepsByName, Empties, BoundsAssumption
     DEF TypeOK, Steps, StartSteps, RemoveSteps, Outcomes, Txs, None
<1>4. JournalsTyped'
  BY <1>1, <1>2, StepsByName DEF JournalsTyped, Started, Tx, Version
<1>5. CurTyped'
  BY <1>1, <1>2, StepsByName
     DEF CurTyped, Started, Order, Tx, AtRest, RemoveSteps, TxSteps, FinishSteps
<1>6. StateOfStep'
  BY <1>1, <1>2, StepsByName
     DEF CurTyped, TxSteps, StateOfStep, Pending, Finishing, Undoing, Undone, FinishSteps, Tx
<1>7. MemorySaved'
  BY <1>1, <1>2, StepsByName
     DEF CurTyped, StateOfStep, MemorySaved, Tx, OthersPending, LeftBehind, Pending,
         AfterSwitch, Undoing, Undone, AtRest, RemoveSteps, TxSteps, FinishSteps
<1>8. TargetVerified'
  BY <1>1, <1>2, StepsByName
     DEF CurTyped, MemorySaved, TargetVerified, OthersPending, Pending, Verifies, Tx, Version,
         AfterSwitch, TxSteps
<1>9. LoadedInv'
  BY <1>1, <1>2, StepsByName
     DEF CurTyped, StateOfStep, MemorySaved, LoadedInv, OthersPending, Pending, Tx, Ran,
         Undone, AfterSwitch, AtRest, RemoveSteps, TxSteps, FinishSteps
<1>10. KeptInv'
  <2> SUFFICES ASSUME "kept" \notin cost'
               PROVE  (OnlyLastPending /\ WholeAtRest /\ LastRestorable /\ OpKept
                        /\ UndoKept)'
    BY DEF KeptInv
  <2>1. OnlyLastPending /\ WholeAtRest /\ LastRestorable /\ OpKept /\ UndoKept
    BY <1>1, <1>2 DEF KeptInv
  <2>2. OnlyLastPending'
    BY <1>1, <1>2, <2>1, StepsByName
       DEF OnlyLastPending, Pending, CurTyped, StateOfStep, TxSteps, FinishSteps, Finishing
  <2>3. WholeAtRest'
    BY <1>1, <1>2, <2>1, StepsByName
       DEF WholeAtRest, NonePending, Pending, Finishing, Whole, Verifies, RemoveSteps,
           CurTyped, StateOfStep, TxSteps, FinishSteps
  <2>4. LastRestorable'
    BY <1>1, <1>2, <2>1, StepsByName
       DEF Tx, Version, OnlyLastPending, LastRestorable, Restorable, Last, Target, Pending,
           Finishing, Verifies, CurTyped, StateOfStep, TxSteps, FinishSteps
  <2>5. OpKept'
    BY <1>1, <1>2, <2>1, StepsByName
       DEF OpKept, Whole, Verifies, Tx, Version, AfterSwitch, CurTyped, StateOfStep, TxSteps,
           FinishSteps, Pending, Finishing
  <2>6. UndoKept'
    BY <1>1, <1>2, <2>1, StepsByName
       DEF UndoKept, HasBackup, Whole, Verifies, Tx, Version, Pending, Finishing, Undoing,
           CurTyped, StateOfStep, TxSteps, FinishSteps
  <2> QED  BY <2>2, <2>3, <2>4, <2>5, <2>6
<1> QED  BY <1>3, <1>4, <1>5, <1>6, <1>7, <1>8, <1>9, <1>10 DEF IInv, Shape

\* Crash keeps the invariant.
LEMMA CrashKeeps == IInv /\ Crash => IInv'
<1> SUFFICES ASSUME IInv, Crash PROVE IInv'
  OBVIOUS
<1>1. /\ Shape /\ TypeOK /\ JournalsTyped /\ CurTyped /\ StateOfStep
      /\ MemorySaved /\ TargetVerified /\ LoadedInv /\ KeptInv
  BY DEF IInv, Shape
<1>2. /\ pc \notin {"down", "ready"} /\ pc' = "down"
      /\ payload' \in [Versions -> Contents] /\ backup' \in [Txs -> Contents]
      /\ payload' = payload
           \/ pc \in {"remove", "copy", "undo_remove", "undo_copy", "un_remove"}
      /\ pc \in TxSteps => \A v \in Versions \ {Version} : payload'[v] = payload[v]
      /\ pc = "undo_remove" => payload' = payload \/ UndoRemoves
      /\ pc = "undo_copy" => payload' = payload \/ HasBackup
      /\ backup' = backup
           \/ pc \in {"backup", "clean", "undo_clean", "finish_clean", "settle_clean"}
      /\ \A t \in Txs : t # cur.tx => backup'[t] = backup[t]
      /\ cur' = NoCur /\ mem' = NoRec /\ loaded' = None
      /\ lock' \in {"free", "held", "fresh", "stale"} /\ outcome' \in Outcomes
      /\ failures' \in 0..MaxFailures /\ cost' \subseteq Costs /\ cost \subseteq cost'
      /\ pc \in {"un_remove", "un_save"} => "kept" \in cost'
      /\ UNCHANGED <<rec, journal, clock, promised, since>>
  BY <1>1, CrashEffect
<1>3. TypeOK'
  <2>1. pc' \in Steps  BY <1>2, StepsByName DEF Steps, StartSteps, RemoveSteps
  <2>2. clock' \in 0..MaxTx /\ since' \in 0..MaxTx /\ loaded' \in 0..MaxVersion
    BY <1>1, <1>2, BoundsAssumption DEF TypeOK, Txs, None
  <2>3. cur' \in Locals /\ mem' \in Records /\ promised' \in Records /\ rec' \in Records
    BY <1>1, <1>2, Empties DEF TypeOK
  <2>4. outcome' \in Outcomes  BY <1>1, <1>2 DEF TypeOK, Outcomes
  <2> QED  BY <1>1, <1>2, <2>1, <2>2, <2>3, <2>4 DEF TypeOK
<1>4. JournalsTyped'
  BY <1>1, <1>2, StepsByName DEF JournalsTyped, Started, Tx, Version
<1>5. CurTyped'
  BY <1>1, <1>2, StepsByName, Empties
     DEF CurTyped, Started, Order, Tx, AtRest, RemoveSteps, TxSteps, FinishSteps
<1>6. StateOfStep'
  BY <1>1, <1>2, StepsByName, Empties
     DEF CurTyped, TxSteps, StateOfStep, Pending, Finishing, Undoing, Undone, FinishSteps, Tx
<1>7. MemorySaved'
  BY <1>1, <1>2, StepsByName, Empties
     DEF CurTyped, StateOfStep, MemorySaved, Tx, OthersPending, LeftBehind, Pending,
         AfterSwitch, Undoing, Undone, AtRest, RemoveSteps, TxSteps, FinishSteps
<1>8. TargetVerified'
  BY <1>1, <1>2, StepsByName
     DEF CurTyped, MemorySaved, TargetVerified, OthersPending, Pending, Verifies, Tx, Version,
         AfterSwitch, TxSteps
<1>9. LoadedInv'
  BY <1>1, <1>2, StepsByName, Empties
     DEF CurTyped, StateOfStep, MemorySaved, LoadedInv, OthersPending, Pending, Tx, Ran,
         Undone, AfterSwitch, AtRest, RemoveSteps, TxSteps, FinishSteps
<1>10. KeptInv'
  <2> SUFFICES ASSUME "kept" \notin cost'
               PROVE  (OnlyLastPending /\ WholeAtRest /\ LastRestorable /\ OpKept
                        /\ UndoKept)'
    BY DEF KeptInv
  <2>1. OnlyLastPending /\ WholeAtRest /\ LastRestorable /\ OpKept /\ UndoKept
    BY <1>1, <1>2 DEF KeptInv
  <2>2. OnlyLastPending'
    BY <1>1, <1>2, <2>1, StepsByName, Empties
       DEF OnlyLastPending, Pending, CurTyped, StateOfStep, TxSteps, FinishSteps, Finishing
  <2>3. WholeAtRest'
    <3>1. pc \in {"remove", "copy", "undo_remove", "undo_copy"} => clock \in Txs
            /\ Pending(clock) /\ ~Finishing(clock)
      <4>1. pc \in {"remove", "copy", "undo_remove", "undo_copy"} =>
               cur.tx \in Txs /\ Pending(cur.tx) /\ ~Finishing(cur.tx)
        BY <1>1, StepsByName DEF StateOfStep, CurTyped, TxSteps, Undoing
      <4> QED  BY <2>1, <4>1, PendingIsLast
    <3>2. NonePending \/ (clock \in Txs /\ Finishing(clock)) => payload' = payload
      BY <1>2, <3>1 DEF NonePending
    <3>3. payload' = payload => (Whole(rec)' <=> Whole(rec))  BY <1>2 DEF Whole, Verifies
    <3>4. pc # "un_save"  BY <1>2
    <3> QED
      BY <1>2, <2>1, <3>2, <3>3, <3>4
         DEF WholeAtRest, NonePending, Pending, Finishing, RemoveSteps
  <2>4. LastRestorable'
    <3>1. CASE clock \in Txs /\ Pending(clock) /\ Last.op # "rollback" /\ ~Finishing(clock)
      <4>1. Restorable  BY <2>1, <3>1 DEF LastRestorable
      <4>2. ASSUME pc \in {"remove", "copy", "undo_remove", "undo_copy", "backup"}
            PROVE  Restorable'
        <5>1. pc \in TxSteps /\ cur.tx \in Txs /\ Pending(cur.tx)
          BY <1>1, <4>2, StepsByName DEF StateOfStep, CurTyped, TxSteps, Undoing
        <5>2. cur.tx = clock /\ Tx = Last /\ Version = Target  BY <2>1, <5>1, PendingIsLast
        <5>3. pc = "backup" => ~Last.backed  BY <2>1, <5>2 DEF OpKept
        <5>4. pc \in {"remove", "copy"} /\ Target \in promised.versions => Last.backed
          BY <2>1, <3>1, <5>2 DEF OpKept
        <5>5. pc \in {"undo_remove", "undo_copy"} /\ Target \in promised.versions
                /\ ~Last.backed
                 => ~UndoRemoves /\ ~HasBackup
          <6>1. pc \in {"undo_remove", "undo_copy"} => cur.backed = Tx.backed
            BY <2>1 DEF UndoKept, Undoing
          <6>2. Target \in promised.versions => promised # NoRec  BY DEF NoRec
          <6> QED  BY <4>1, <5>2, <6>1, <6>2 DEF UndoRemoves, HasBackup, Restorable
        <5>6. payload'[Target] = payload[Target] \/ Last.backed
                \/ Target \notin promised.versions
          BY <1>2, <4>2, <5>4, <5>5
        <5>7. Last.backed => backup'[clock] = backup[clock]  BY <1>2, <4>2, <5>3
        <5>8. \A v \in Versions \ {Target} : payload'[v] = payload[v]  BY <1>2, <5>1, <5>2
        <5>9. /\ journal'[clock].prev = Last.prev /\ journal'[clock].version = Target
              /\ journal'[clock].backed = Last.backed
          BY <1>2 DEF Last, Target
        <5> QED  BY <1>2, <4>1, <5>6, <5>7, <5>8, <5>9, RestorableKept
      <4>3. ASSUME pc \notin {"remove", "copy", "undo_remove", "undo_copy", "backup"}
            PROVE  Restorable'
        <5>1. payload' = payload  BY <1>2, <4>3
        <5>2. pc \in {"clean", "undo_clean", "finish_clean", "settle_clean"} => cur.tx # clock
          BY <1>1, <3>1, StepsByName
             DEF StateOfStep, Undone, FinishSteps, Pending, Finishing, Tx
        <5>3. backup'[clock] = backup[clock]  BY <1>2, <3>1, <4>3, <5>2
        <5>4. /\ journal'[clock].prev = Last.prev /\ journal'[clock].version = Target
              /\ journal'[clock].backed = Last.backed
          BY <1>2 DEF Last, Target
        <5> QED  BY <1>2, <4>1, <5>1, <5>3, <5>4, RestorableKept
      <4>4. Restorable'
        <5> QED  BY <4>2, <4>3
      <4> QED  BY <4>4 DEF LastRestorable
    <3>2. CASE ~(clock \in Txs /\ Pending(clock) /\ Last.op # "rollback" /\ ~Finishing(clock))
      BY <1>2, <3>2 DEF LastRestorable, Pending, Finishing, Last
    <3> QED  BY <3>1, <3>2
  <2>5. OpKept'
    BY <1>1, <1>2, <2>1, StepsByName
       DEF OpKept, Whole, Verifies, Tx, Version, AfterSwitch, CurTyped, StateOfStep, TxSteps,
           FinishSteps, Pending, Finishing
  <2>6. UndoKept'
    BY <1>1, <1>2, <2>1, StepsByName
       DEF UndoKept, HasBackup, Whole, Verifies, Tx, Version, Pending, Finishing, Undoing,
           CurTyped, StateOfStep, TxSteps, FinishSteps
  <2> QED  BY <2>2, <2>3, <2>4, <2>5, <2>6
<1> QED  BY <1>3, <1>4, <1>5, <1>6, <1>7, <1>8, <1>9, <1>10 DEF IInv, Shape

\* Exit keeps the invariant.
LEMMA ExitKeeps == IInv /\ Exit => IInv'
<1> SUFFICES ASSUME IInv, Exit PROVE IInv'
  OBVIOUS
<1>1. /\ Shape /\ TypeOK /\ JournalsTyped /\ CurTyped /\ StateOfStep
      /\ MemorySaved /\ TargetVerified /\ LoadedInv /\ KeptInv
  BY DEF IInv, Shape
<1>2. /\ pc = "ready" /\ pc' = "down"
      /\ mem' = NoRec /\ loaded' = None
      /\ UNCHANGED <<payload, rec, backup, journal, lock, cur, outcome, clock, failures,
                     promised, since, cost>>
  BY <1>1, ExitEffect
<1>3. TypeOK'
  <2>1. pc' \in Steps  BY <1>2, StepsByName DEF Steps, StartSteps, RemoveSteps
  <2>2. clock' \in 0..MaxTx /\ since' \in 0..MaxTx /\ loaded' \in 0..MaxVersion
    BY <1>1, <1>2, BoundsAssumption DEF TypeOK, Txs, None
  <2>3. cur' \in Locals /\ mem' \in Records /\ promised' \in Records /\ rec' \in Records
    BY <1>1, <1>2, Empties DEF TypeOK
  <2>4. outcome' \in Outcomes  BY <1>1, <1>2 DEF TypeOK, Outcomes
  <2> QED  BY <1>1, <1>2, <2>1, <2>2, <2>3, <2>4 DEF TypeOK
<1>4. JournalsTyped'
  BY <1>1, <1>2, StepsByName DEF JournalsTyped, Started, Tx, Version
<1>5. CurTyped'
  BY <1>1, <1>2, StepsByName
     DEF CurTyped, Started, Order, Tx, AtRest, RemoveSteps, TxSteps, FinishSteps
<1>6. StateOfStep'
  BY <1>1, <1>2, StepsByName
     DEF CurTyped, TxSteps, StateOfStep, Pending, Finishing, Undoing, Undone, FinishSteps, Tx
<1>7. MemorySaved'
  BY <1>1, <1>2, StepsByName
     DEF CurTyped, StateOfStep, MemorySaved, Tx, OthersPending, LeftBehind, Pending,
         AfterSwitch, Undoing, Undone, AtRest, RemoveSteps, TxSteps, FinishSteps
<1>8. TargetVerified'
  BY <1>1, <1>2, StepsByName
     DEF CurTyped, MemorySaved, TargetVerified, OthersPending, Pending, Verifies, Tx, Version,
         AfterSwitch, TxSteps
<1>9. LoadedInv'
  BY <1>1, <1>2, StepsByName
     DEF CurTyped, StateOfStep, MemorySaved, LoadedInv, OthersPending, Pending, Tx, Ran,
         Undone, AfterSwitch, AtRest, RemoveSteps, TxSteps, FinishSteps
<1>10. KeptInv'
  <2> SUFFICES ASSUME "kept" \notin cost'
               PROVE  (OnlyLastPending /\ WholeAtRest /\ LastRestorable /\ OpKept
                        /\ UndoKept)'
    BY DEF KeptInv
  <2>1. OnlyLastPending /\ WholeAtRest /\ LastRestorable /\ OpKept /\ UndoKept
    BY <1>1, <1>2 DEF KeptInv
  <2>2. OnlyLastPending'
    BY <1>1, <1>2, <2>1, StepsByName
       DEF OnlyLastPending, Pending, CurTyped, StateOfStep, TxSteps, FinishSteps, Finishing
  <2>3. WholeAtRest'
    BY <1>1, <1>2, <2>1, StepsByName
       DEF WholeAtRest, NonePending, Pending, Finishing, Whole, Verifies, RemoveSteps,
           CurTyped, StateOfStep, TxSteps, FinishSteps
  <2>4. LastRestorable'
    BY <1>1, <1>2, <2>1, StepsByName
       DEF Tx, Version, OnlyLastPending, LastRestorable, Restorable, Last, Target, Pending,
           Finishing, Verifies, CurTyped, StateOfStep, TxSteps, FinishSteps
  <2>5. OpKept'
    BY <1>1, <1>2, <2>1, StepsByName
       DEF OpKept, Whole, Verifies, Tx, Version, AfterSwitch, CurTyped, StateOfStep, TxSteps,
           FinishSteps, Pending, Finishing
  <2>6. UndoKept'
    BY <1>1, <1>2, <2>1, StepsByName
       DEF UndoKept, HasBackup, Whole, Verifies, Tx, Version, Pending, Finishing, Undoing,
           CurTyped, StateOfStep, TxSteps, FinishSteps
  <2> QED  BY <2>2, <2>3, <2>4, <2>5, <2>6
<1> QED  BY <1>3, <1>4, <1>5, <1>6, <1>7, <1>8, <1>9, <1>10 DEF IInv, Shape

\* Age keeps the invariant.
LEMMA AgeKeeps == IInv /\ Age => IInv'
<1> SUFFICES ASSUME IInv, Age PROVE IInv'
  OBVIOUS
<1>1. /\ Shape /\ TypeOK /\ JournalsTyped /\ CurTyped /\ StateOfStep
      /\ MemorySaved /\ TargetVerified /\ LoadedInv /\ KeptInv
  BY DEF IInv, Shape
<1>2. /\ lock' \in {"free", "held", "fresh", "stale"}
      /\ UNCHANGED <<payload, rec, backup, journal, mem, loaded, pc, cur, outcome, clock,
                     failures, promised, since, cost>>
  BY <1>1, AgeEffect
<1>3. TypeOK'
  BY <1>1, <1>2, StepsByName, Empties, BoundsAssumption
     DEF TypeOK, Steps, StartSteps, RemoveSteps, Outcomes, Txs, None
<1>4. JournalsTyped'
  BY <1>1, <1>2, StepsByName DEF JournalsTyped, Started, Tx, Version
<1>5. CurTyped'
  BY <1>1, <1>2, StepsByName
     DEF CurTyped, Started, Order, Tx, AtRest, RemoveSteps, TxSteps, FinishSteps
<1>6. StateOfStep'
  BY <1>1, <1>2, StepsByName
     DEF CurTyped, TxSteps, StateOfStep, Pending, Finishing, Undoing, Undone, FinishSteps, Tx
<1>7. MemorySaved'
  BY <1>1, <1>2, StepsByName
     DEF CurTyped, StateOfStep, MemorySaved, Tx, OthersPending, LeftBehind, Pending,
         AfterSwitch, Undoing, Undone, AtRest, RemoveSteps, TxSteps, FinishSteps
<1>8. TargetVerified'
  BY <1>1, <1>2, StepsByName
     DEF CurTyped, MemorySaved, TargetVerified, OthersPending, Pending, Verifies, Tx, Version,
         AfterSwitch, TxSteps
<1>9. LoadedInv'
  BY <1>1, <1>2, StepsByName
     DEF CurTyped, StateOfStep, MemorySaved, LoadedInv, OthersPending, Pending, Tx, Ran,
         Undone, AfterSwitch, AtRest, RemoveSteps, TxSteps, FinishSteps
<1>10. KeptInv'
  <2> SUFFICES ASSUME "kept" \notin cost'
               PROVE  (OnlyLastPending /\ WholeAtRest /\ LastRestorable /\ OpKept
                        /\ UndoKept)'
    BY DEF KeptInv
  <2>1. OnlyLastPending /\ WholeAtRest /\ LastRestorable /\ OpKept /\ UndoKept
    BY <1>1, <1>2 DEF KeptInv
  <2>2. OnlyLastPending'
    BY <1>1, <1>2, <2>1, StepsByName
       DEF OnlyLastPending, Pending, CurTyped, StateOfStep, TxSteps, FinishSteps, Finishing
  <2>3. WholeAtRest'
    BY <1>1, <1>2, <2>1, StepsByName
       DEF WholeAtRest, NonePending, Pending, Finishing, Whole, Verifies, RemoveSteps,
           CurTyped, StateOfStep, TxSteps, FinishSteps
  <2>4. LastRestorable'
    BY <1>1, <1>2, <2>1, StepsByName
       DEF Tx, Version, OnlyLastPending, LastRestorable, Restorable, Last, Target, Pending,
           Finishing, Verifies, CurTyped, StateOfStep, TxSteps, FinishSteps
  <2>5. OpKept'
    BY <1>1, <1>2, <2>1, StepsByName
       DEF OpKept, Whole, Verifies, Tx, Version, AfterSwitch, CurTyped, StateOfStep, TxSteps,
           FinishSteps, Pending, Finishing
  <2>6. UndoKept'
    BY <1>1, <1>2, <2>1, StepsByName
       DEF UndoKept, HasBackup, Whole, Verifies, Tx, Version, Pending, Finishing, Undoing,
           CurTyped, StateOfStep, TxSteps, FinishSteps
  <2> QED  BY <2>2, <2>3, <2>4, <2>5, <2>6
<1> QED  BY <1>3, <1>4, <1>5, <1>6, <1>7, <1>8, <1>9, <1>10 DEF IInv, Shape

-----------------------------------------------------------------------------
(* The theorems. *)

\* The program starts in the invariant.
LEMMA InitKept == Init => IInv
<1> SUFFICES ASSUME Init PROVE IInv
  OBVIOUS
<1>1. /\ payload = [v \in Versions |-> None] /\ rec = NoRec /\ mem = NoRec
      /\ backup = [t \in Txs |-> None] /\ journal = [t \in Txs |-> NoJournal]
      /\ lock = "free" /\ loaded = None /\ pc = "down" /\ cur = NoCur
      /\ outcome = "none" /\ clock = 0 /\ failures = 0 /\ promised = NoRec
      /\ since = 0 /\ cost = {}
  BY DEF Init
<1>2. \A t \in Txs : ~Started(t) /\ ~Pending(t)
  BY <1>1, Empties DEF Started, Pending
<1>3. clock \notin Txs  BY <1>1, BoundsAssumption DEF Txs
<1>4. TypeOK
  BY <1>1, Empties, BoundsAssumption, StepsByName
     DEF TypeOK, Contents, None, Outcomes, Costs, Steps
<1>5. JournalsTyped
  BY <1>1, <1>2 DEF JournalsTyped
<1>6. CurTyped /\ StateOfStep
  BY <1>1, <1>2, Empties, StepsByName
     DEF CurTyped, StateOfStep, AtRest, TxSteps, FinishSteps, Undoing, Undone
<1>7. MemorySaved /\ TargetVerified /\ LoadedInv
  BY <1>1, StepsByName
     DEF MemorySaved, TargetVerified, LoadedInv, FinishSteps, AfterSwitch, Undoing, Undone,
         RemoveSteps, Ran, TxSteps
<1>8. KeptInv
  <2>1. Whole(rec)  BY <1>1 DEF Whole, NoRec
  <2>2. OnlyLastPending /\ NonePending  BY <1>2 DEF OnlyLastPending, NonePending
  <2>3. WholeAtRest  BY <1>1, <1>3, <2>1, <2>2 DEF WholeAtRest, RemoveSteps
  <2>4. LastRestorable  BY <1>3 DEF LastRestorable
  <2>5. OpKept /\ UndoKept
    BY <1>1, StepsByName DEF OpKept, UndoKept, AfterSwitch, Undoing
  <2> QED  BY <2>2, <2>3, <2>4, <2>5 DEF KeptInv
<1> QED  BY <1>4, <1>5, <1>6, <1>7, <1>8 DEF IInv, Shape

\* A step that changes nothing keeps the invariant.
LEMMA StutterKeeps == IInv /\ UNCHANGED vars => IInv'
<1> SUFFICES ASSUME IInv, UNCHANGED vars PROVE IInv'
  OBVIOUS
<1>1. UNCHANGED <<payload, rec, backup, journal, lock, mem, loaded, pc, cur, outcome,
                  clock, failures, promised, since, cost>>
  BY DEF vars
<1>2. TypeOK'  BY <1>1 DEF IInv, Shape, TypeOK
<1>3. JournalsTyped' /\ CurTyped' /\ StateOfStep'
  BY <1>1
     DEF IInv, Shape, JournalsTyped, CurTyped, StateOfStep, Started, Pending, Finishing, Tx,
         Order
<1>4. MemorySaved' /\ TargetVerified' /\ LoadedInv'
  BY <1>1
     DEF IInv, MemorySaved, TargetVerified, LoadedInv, OthersPending, LeftBehind, Pending,
         Verifies, Tx, Version
<1>5. KeptInv'
  BY <1>1
     DEF IInv, KeptInv, OnlyLastPending, WholeAtRest, LastRestorable, OpKept, UndoKept,
         NonePending, Pending, Finishing, Whole, Verifies, Restorable, Last, Target,
         HasBackup, Tx, Version
<1> QED  BY <1>2, <1>3, <1>4, <1>5 DEF IInv, Shape

\* Every reachable state satisfies the invariant: no step of an operation, of an undo,
\* of a recovery or of uninstall leaves it, and no exception and no crash at any of
\* them (installer.py:103-500, registry.py:106-330).
THEOREM InvariantHolds == Spec => []IInv
<1>1. Init => IInv  BY InitKept
<1>2. IInv /\ [Next]_vars => IInv'
  <2> SUFFICES ASSUME IInv, [Next]_vars PROVE IInv'
    OBVIOUS
  <2>1. CASE Recover
    BY <2>1, LoadKeeps, SaveRepairKeeps, RecoverNextKeeps, FinishCleanKeeps,
       FinishUnlinkKeeps, RemarkKeeps, RecoverFaultKeeps, ActivateAllKeeps
       DEF Recover
  <2>2. CASE Operate
    BY <2>2, MarkKeeps, LockKeeps, LockTimeoutKeeps, BackupKeeps, NameBackupKeeps,
       RemoveTargetKeeps, CopyTargetKeeps, SaveRecordKeeps, UnknownVersionKeeps,
       ActivateKeeps, UnlockKeeps, CleanKeeps, FinishKeeps, OpFaultKeeps
       DEF Operate
  <2>3. CASE Undo
    BY <2>3, FailKeeps, UndoRemoveKeeps, UndoCopyKeeps, UndoRecordKeeps, UndoMarkKeeps,
       UndoUnlockKeeps, UndoCleanKeeps, UndoFaultKeeps, GiveUpKeeps
       DEF Undo
  <2>4. CASE Remove
    BY <2>4, RemovePayloadsKeeps, SaveRemovalKeeps, UninstallFaultKeeps DEF Remove
  <2>5. CASE Commands
    BY <2>5, InstallKeeps, UpgradeKeeps, RollbackKeeps, UninstallKeeps DEF Commands
  <2>6. CASE Start \/ Crash \/ Exit \/ Age
    BY <2>6, StartKeeps, CrashKeeps, ExitKeeps, AgeKeeps
  <2>7. CASE UNCHANGED vars
    BY <2>7, StutterKeeps
  <2> QED  BY <2>1, <2>2, <2>3, <2>4, <2>5, <2>6, <2>7 DEF Next, Progress
<1> QED  BY <1>1, <1>2, PTL DEF Spec

\* The variables keep their types.
THEOREM TypeCorrect == Spec => []TypeOK
<1>1. IInv => TypeOK  BY DEF IInv, Shape
<1> QED  BY <1>1, InvariantHolds, PTL

\* When no journal waits for recovery, the registry is what the last operation that
\* succeeded left, and the payloads on disk are its versions' and no others
\* (installer.py:317-500), but for the windows that the *Costs definitions name.
THEOREM RegistryAlwaysKept == Spec => []RegistryKept
<1>1. IInv => RegistryKept
  <2> SUFFICES ASSUME IInv, Quiescent, "kept" \notin cost
               PROVE  /\ rec = promised
                      /\ \A v \in Versions : IF v \in rec.versions THEN Verifies(rec, v)
                                                                   ELSE payload[v] = None
    BY DEF RegistryKept
  <2>1. NonePending /\ pc = "ready"  BY DEF Quiescent, NonePending
  <2>2. rec = promised /\ Whole(rec)  BY <2>1 DEF IInv, KeptInv, WholeAtRest
  <2> QED  BY <2>2 DEF Whole
<1> QED  BY <1>1, InvariantHolds, PTL

\* When no journal waits for recovery, the process runs the version the registry calls
\* active (installer.py:159-180, 308-315), but for the windows that FaultCosts names.
THEOREM LoadedAlwaysActive == Spec => []LoadedIsActive
<1>1. IInv => LoadedIsActive
  <2> SUFFICES ASSUME IInv, Quiescent, "loaded" \notin cost, rec # NoRec
               PROVE  loaded = rec.active
    BY DEF LoadedIsActive
  <2>1. pc = "ready" /\ ~OthersPending  BY DEF Quiescent, OthersPending
  <2> QED  BY <2>1 DEF IInv, LoadedInv
<1> QED  BY <1>1, InvariantHolds, PTL

\* A version comes into effect only verified against the process's record, and only
\* while that record is the saved one, but for the two windows that an earlier failure
\* whose journal is not recovered yet leaves open (installer.py:237-270, 467-500).
THEOREM OnlyVerifiedRuns == Spec => NothingUnverifiedRuns
<1> DEFINE Safe == loaded' \notin {loaded, None} =>
       /\ Verifies(mem, loaded') \/ (pc = "activate" /\ Tx.op = "rollback" /\ OthersPending)
       /\ mem = rec \/ (pc = "recover" /\ \E t \in Txs : Pending(t))
<1>1. IInv /\ [Next]_vars => [Safe]_vars
  <2> SUFFICES ASSUME IInv, Next, loaded' # loaded, loaded' # None PROVE Safe
    BY DEF vars
  <2>1. Activate \/ ActivateAll
    BY DEF Next, Progress, Recover, Operate, Undo, Remove, Commands, Load, SaveRepair,
           RecoverNext, FinishClean, FinishUnlink, Remark, RecoverFault, Mark, Lock,
           LockTimeout, Backup, NameBackup, RemoveTarget, CopyTarget, SaveRecord,
           UnknownVersion, Unlock, Clean, Finish, OpFault, Fail, UndoRemove, UndoCopy,
           UndoRecord, UndoMark, UndoUnlock, UndoClean, UndoFault, GiveUp, RemovePayloads,
           SaveRemoval, UninstallFault, Install, Upgrade, Rollback, Uninstall, Begin, Start,
           Crash, Exit, Age
  <2>2. CASE Activate
    <3>1. pc = "activate" /\ loaded' = mem.active  BY <2>2 DEF Activate
    <3>2. mem = rec /\ mem.active = Version
      BY <3>1 DEF IInv, MemorySaved, TargetVerified, AfterSwitch
    <3>3. Verifies(mem, Version) \/ (Tx.op = "rollback" /\ OthersPending)
      BY <3>1 DEF IInv, TargetVerified
    <3> QED  BY <3>1, <3>2, <3>3
  <2>3. CASE ActivateAll
    <3>1. pc = "recover" /\ Verifies(mem, loaded')  BY <2>3 DEF ActivateAll
    <3>2. mem = rec \/ \E t \in Txs : Pending(t)
      BY <3>1 DEF IInv, MemorySaved, LeftBehind
    <3> QED  BY <3>1, <3>2
  <2> QED  BY <2>1, <2>2, <2>3
<1> QED  BY <1>1, InvariantHolds, PTL DEF Spec, NothingUnverifiedRuns
=============================================================================
