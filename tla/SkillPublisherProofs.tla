------------------------ MODULE SkillPublisherProofs ------------------------
(***************************************************************************)
(* Theorems about SkillPublisher, for every MaxOps: any step of any call   *)
(* may raise, and the process may die at any step.                         *)
(*                                                                         *)
(* First the inductive invariant and the trees it keeps; then what the     *)
(* Publisher reports, what it leaves in the slot and the pointer, and what *)
(* recovery can always finish; last that it implements ReleaseSlot.        *)
(*                                                                         *)
(* Six invariants strengthen the inductive one.  Each says what holds as   *)
(* long as nothing hit the window of its promise: ReportInv what each step *)
(* of a call has done, ServiceInv that recovery has at most one journal to *)
(* take apart and finds its trees, EmptyInv that an empty slot has a tree  *)
(* to come back, PointerInv that a wrong pointer has a journal that        *)
(* rewrites it, TreesInv where a tree is before its publication is         *)
(* completed, AsideInv that the snapshot the mapping to ReleaseSlot reads  *)
(* is still claimed.                                                       *)
(***************************************************************************)
EXTENDS SkillPublisher, SequenceTheorems, WellFoundedInduction, TLAPS

\* Which call is in progress at which step, and on which number.
CallMatchesStep ==
    /\ call.id <= clock
    /\ pc \in PublishSteps \cup UndoSteps =>
           call.op = "publish" /\ call.id \in Ops
    /\ pc \in RollbackSteps => call.op = "rollback" /\ call.id \in Ops
    /\ pc \in RestoreSteps =>
           call.op \in {"publish", "rollback"} /\ call.id \in Ops
    /\ pc \in RecoverySteps => call.op = "recover"
    /\ pc \in RecoverySteps \ {"recover"} => call.id \in Ops
    /\ pc \in {"r_snapshot", "r_restore"} => call.latest \in Ops

\* Numbers not yet taken name nothing.
NumbersAreFresh ==
    \A n \in Ops : n > clock =>
        snap[n] = NoTree /\ journal[n] = "none" /\ n \notin released

\* What the slot and the call's own snapshot hold at each step.
SlotFollowsStep ==
    /\ pc \in {"compile", "begin", "name", "snapshot", "r_snapshot"} =>
           snap[call.id] = NoTree
    /\ pc \in {"mark_snapshotted", "swap", "r_restore", "reinstate", "putback"} =>
           slot = NoTree
    /\ pc \in {"mark_swapped", "point", "log", "index", "commit", "forget",
               "unpublish", "rec_log", "rec_index"} => slot = call.id
    /\ call.op = "publish" /\ call.swapped /\ pc = "abort" => slot = call.id
    /\ call.op = "publish" /\ pc \in {"abort", "displace"} /\ snap[call.id] # NoTree =>
           slot \in {NoTree, call.id}
    /\ call.swapped => call.op = "publish"
    /\ pc \in {"compile", "begin", "name", "snapshot", "mark_snapshotted", "swap"} =>
           ~call.swapped
    /\ pc \in {"displace", "reinstate"} => snap[call.id] # NoTree
    /\ call.op = "publish" /\ pc \in {"reinstate", "putback", "discard"} =>
           call.moved \in {NoTree, call.id}

\* The tree of a publication in progress is not one of the completed ones.
InProgressUnreleased ==
    pc \in PublishSteps \cup UndoSteps \cup RestoreSteps /\ call.op = "publish"
        => call.id \notin released

\* No call of rollback_latest sets a restored tree aside.
RollbackMovesNothing ==
    call.op = "rollback" =>
        /\ pc = "displace" => slot = NoTree
        /\ pc \in {"reinstate", "putback", "discard"} => call.moved = NoTree

IInv == TypeOK /\ CallMatchesStep /\ NumbersAreFresh /\ SlotFollowsStep

-----------------------------------------------------------------------------
(* Lemmas. *)

\* The last entry of a history is an entry, and is absent only when empty.
LEMMA LastEntryType ==
    ASSUME NEW h \in Seq(Entries)
    PROVE  LastEntry(h) \in Entries
  <1>1. CASE h = <<>>
    BY <1>1, MaxOpsAssumption DEF LastEntry, NoEntry, Entries, Kinds, Trees, NoTree
  <1>2. CASE h # <<>>
    BY <1>2 DEF LastEntry
  <1>3. QED
    BY <1>1, <1>2

\* Dropping the last entry of a history leaves a history.
LEMMA DropLastType ==
    ASSUME NEW S, NEW h \in Seq(S)
    PROVE  SubSeq(h, 1, Len(h) - 1) \in Seq(S)
  <1>1. Len(h) \in Nat /\ \A i \in 1 .. Len(h) - 1 : h[i] \in S
    OBVIOUS
  <1>2. QED
    BY <1>1, SubSeqProperties

\* The entry publish() logs is an entry.
LEMMA PublishEntryType ==
    ASSUME NEW n \in Ops
    PROVE  PublishEntry(n) \in Entries
  BY DEF PublishEntry, Entries, Kinds, Ops, Trees

\* The locals of a call keep their types under each change the steps make.
LEMMA NoCallType == NoCall \in Calls
  BY MaxOpsAssumption DEF NoCall, Calls, Kinds, Trees, NoTree

\* Picking a journal, displacing the slot and swapping keep the locals' type.
LEMMA CallChangeType ==
    ASSUME NEW c \in Calls, NEW n \in Trees
    PROVE  /\ [c EXCEPT !.id = n] \in Calls
           /\ [c EXCEPT !.moved = n] \in Calls
           /\ [c EXCEPT !.swapped = TRUE] \in Calls
  BY DEF Calls

\* The locals a constructor, publish() and rollback_latest() start with.
LEMMA CallStartType ==
    ASSUME NEW o \in Kinds, NEW i \in Trees, NEW l \in Trees, NEW b \in Trees
    PROVE  /\ [NoCall EXCEPT !.op = o] \in Calls
           /\ [NoCall EXCEPT !.op = o, !.id = i, !.before = b] \in Calls
           /\ [NoCall EXCEPT !.op = o, !.id = i, !.latest = l, !.before = b] \in Calls
  BY NoCallType DEF Calls

\* An empty data home satisfies the inductive invariant.
THEOREM InitIInv == Init => IInv
  <1> SUFFICES ASSUME Init PROVE IInv
    OBVIOUS
  <1> USE MaxOpsAssumption DEF Init, Ops, Trees, NoTree
  <1>1. TypeOK
    <2>1. NoEntry \in Entries
      BY DEF NoEntry, Entries, Kinds
    <2>2. NoCall \in Calls
      BY DEF NoCall, Calls, Kinds
    <2>3. QED
      BY <2>1, <2>2 DEF TypeOK, Journals, Steps, Outcomes
  <1>2. CallMatchesStep
    BY DEF CallMatchesStep, NoCall, PublishSteps, UndoSteps, RollbackSteps, RestoreSteps, RecoverySteps
  <1>3. NumbersAreFresh
    BY DEF NumbersAreFresh
  <1>4. SlotFollowsStep
    BY DEF SlotFollowsStep, NoCall
  <1>5. QED
    BY <1>1, <1>2, <1>3, <1>4 DEF IInv

\* Every step of publish() up to its return, or to its except clause, keeps IInv.
LEMMA PublishIInv == IInv /\ Publish => IInv'
  <1> SUFFICES ASSUME IInv, Publish PROVE IInv'
    OBVIOUS
  <1> USE MaxOpsAssumption DEF IInv, TypeOK, CallMatchesStep, NumbersAreFresh,
          SlotFollowsStep, dirs, records, history, Goto, Report, SetJournal,
          Ops, Trees, NoTree, Calls, Kinds, Journals, Outcomes, Steps,
          PublishSteps, RestoreSteps, UndoSteps, RollbackSteps, RecoverySteps
  <1>1. CASE Compile
    BY <1>1 DEF Compile
  <1>2. CASE BeginJournal
    BY <1>2 DEF BeginJournal
  <1>3. CASE NameSnapshot
    <2>1. TypeOK'
      BY SMTT(60), <1>3 DEF NameSnapshot
    <2>2. CallMatchesStep'
      BY <1>3 DEF NameSnapshot
    <2>3. NumbersAreFresh'
      BY <1>3 DEF NameSnapshot
    <2>4. SlotFollowsStep'
      BY <1>3 DEF NameSnapshot
    <2>5. QED
      BY <2>1, <2>2, <2>3, <2>4
  <1>4. CASE TakeSnapshot
    <2>1. TypeOK'
      BY SMTT(60), <1>4 DEF TakeSnapshot
    <2>2. CallMatchesStep'
      BY <1>4 DEF TakeSnapshot
    <2>3. NumbersAreFresh'
      BY <1>4 DEF TakeSnapshot
    <2>4. SlotFollowsStep'
      BY <1>4 DEF TakeSnapshot
    <2>5. QED
      BY <2>1, <2>2, <2>3, <2>4
  <1>5. CASE MarkSnapshotted
    <2>1. TypeOK'
      BY SMTT(60), <1>5 DEF MarkSnapshotted
    <2>2. CallMatchesStep'
      BY <1>5 DEF MarkSnapshotted
    <2>3. NumbersAreFresh'
      BY <1>5 DEF MarkSnapshotted
    <2>4. SlotFollowsStep'
      BY <1>5 DEF MarkSnapshotted
    <2>5. QED
      BY <2>1, <2>2, <2>3, <2>4
  <1>6. CASE Swap
    BY <1>6 DEF Swap
  <1>7. CASE MarkSwapped
    <2>1. TypeOK'
      BY SMTT(60), <1>7 DEF MarkSwapped
    <2>2. CallMatchesStep'
      BY <1>7 DEF MarkSwapped
    <2>3. NumbersAreFresh'
      BY <1>7 DEF MarkSwapped
    <2>4. SlotFollowsStep'
      BY <1>7 DEF MarkSwapped
    <2>5. QED
      BY <2>1, <2>2, <2>3, <2>4
  <1>8. CASE WritePointer
    BY <1>8 DEF WritePointer
  <1>9. CASE LogSuccess
    <2>1. TypeOK'
      BY SMTT(60), <1>9, PublishEntryType DEF LogSuccess
    <2>2. CallMatchesStep'
      BY <1>9, PublishEntryType DEF LogSuccess
    <2>3. NumbersAreFresh'
      BY <1>9, PublishEntryType DEF LogSuccess
    <2>4. SlotFollowsStep'
      BY <1>9, PublishEntryType DEF LogSuccess
    <2>5. QED
      BY <2>1, <2>2, <2>3, <2>4
  <1>10. CASE UpdateIndex
    BY <1>10, LastEntryType DEF UpdateIndex
  <1>11. CASE CommitJournal
    <2>1. TypeOK'
      BY SMTT(60), <1>11 DEF CommitJournal
    <2>2. CallMatchesStep'
      BY <1>11 DEF CommitJournal
    <2>3. NumbersAreFresh'
      BY <1>11 DEF CommitJournal
    <2>4. SlotFollowsStep'
      BY <1>11 DEF CommitJournal
    <2>5. QED
      BY <2>1, <2>2, <2>3, <2>4
  <1>12. CASE ForgetJournal
    <2>1. TypeOK'
      BY ZenonT(60), <1>12 DEF ForgetJournal
    <2>2. NumbersAreFresh'
      BY <1>12 DEF ForgetJournal
    <2>3. CallMatchesStep' /\ SlotFollowsStep'
      BY <1>12 DEF ForgetJournal
    <2>4. QED
      BY <2>1, <2>2, <2>3
  <1>13. QED
    BY <1>1, <1>2, <1>3, <1>4, <1>5, <1>6, <1>7, <1>8, <1>9, <1>10, <1>11,
       <1>12 DEF Publish

\* Every step of the except clause and of _restore_on_failure keeps IInv.
LEMMA CompensateIInv == IInv /\ Compensate => IInv'
  <1> SUFFICES ASSUME IInv, Compensate PROVE IInv'
    OBVIOUS
  <1> USE MaxOpsAssumption DEF IInv, TypeOK, CallMatchesStep, NumbersAreFresh,
          SlotFollowsStep, dirs, records, history, Goto, Report, SetJournal,
          Ops, Trees, NoTree, Calls, Kinds, Journals, Outcomes, Steps,
          PublishSteps, RestoreSteps, UndoSteps, RollbackSteps, RecoverySteps
  <1>1. CASE Abort
    BY <1>1 DEF Abort
  <1>2. CASE Displace
    <2>1. TypeOK'
      <3> HIDE DEF Calls
      <3>1. call' \in Calls
        BY <1>2, CallChangeType DEF Displace
      <3>2. QED
        BY <1>2, <3>1 DEF Displace
    <2>2. CallMatchesStep'
      BY <1>2 DEF Displace
    <2>3. NumbersAreFresh'
      BY <1>2 DEF Displace
    <2>4. SlotFollowsStep'
      BY <1>2 DEF Displace
    <2>5. QED
      BY <2>1, <2>2, <2>3, <2>4
  <1>3. CASE Reinstate
    BY <1>3 DEF Reinstate
  <1>4. CASE Discard
    BY <1>4 DEF Discard
  <1>5. CASE PutBack
    BY <1>5 DEF PutBack
  <1>6. CASE Unpublish
    <2>1. TypeOK'
      BY SMTT(60), <1>6 DEF Unpublish
    <2>2. CallMatchesStep'
      BY <1>6 DEF Unpublish
    <2>3. NumbersAreFresh'
      BY <1>6 DEF Unpublish
    <2>4. SlotFollowsStep'
      BY <1>6 DEF Unpublish
    <2>5. QED
      BY <2>1, <2>2, <2>3, <2>4
  <1>7. CASE ForgetFailed
    BY <1>7 DEF ForgetFailed
  <1>8. CASE Repoint
    BY <1>8 DEF Repoint
  <1>9. CASE LogFailure
    BY <1>9, DropLastType DEF LogFailure
  <1>10. CASE IndexFailure
    BY <1>10, LastEntryType DEF IndexFailure
  <1>11. QED
    BY <1>1, <1>2, <1>3, <1>4, <1>5, <1>6, <1>7, <1>8, <1>9, <1>10 DEF Compensate

\* Every step of rollback_latest() keeps IInv.
LEMMA RollbackIInv == IInv /\ Rollback => IInv'
  <1> SUFFICES ASSUME IInv, Rollback PROVE IInv'
    OBVIOUS
  <1> USE MaxOpsAssumption DEF IInv, TypeOK, CallMatchesStep, NumbersAreFresh,
          SlotFollowsStep, dirs, records, history, Goto, Report, SetJournal,
          Ops, Trees, NoTree, Calls, Kinds, Journals, Outcomes, Steps,
          PublishSteps, RestoreSteps, UndoSteps, RollbackSteps, RecoverySteps
  <1>1. CASE RollbackSnapshot
    <2>1. TypeOK'
      BY SMTT(60), <1>1 DEF RollbackSnapshot
    <2>2. CallMatchesStep'
      BY <1>1 DEF RollbackSnapshot
    <2>3. NumbersAreFresh'
      BY <1>1 DEF RollbackSnapshot
    <2>4. SlotFollowsStep'
      BY <1>1 DEF RollbackSnapshot
    <2>5. QED
      BY <2>1, <2>2, <2>3, <2>4
  <1>2. CASE RollbackRestore
    <2>1. TypeOK'
      BY SMTT(60), <1>2 DEF RollbackRestore
    <2>2. CallMatchesStep'
      BY <1>2 DEF RollbackRestore
    <2>3. NumbersAreFresh'
      BY <1>2 DEF RollbackRestore
    <2>4. SlotFollowsStep'
      BY <1>2 DEF RollbackRestore
    <2>5. QED
      BY <2>1, <2>2, <2>3, <2>4
  <1>3. CASE RollbackPoint
    BY <1>3 DEF RollbackPoint
  <1>4. CASE RollbackLog
    <2>1. [kind |-> "rollback", op |-> call.id, tree |-> slot] \in Entries
      BY <1>4 DEF RollbackLog, Entries
    <2>2. hist' \in Seq(Entries)
      <3> HIDE DEF Calls, Kinds, Trees
      <3>1. QED
        BY <1>4, <2>1 DEF RollbackLog
    <2>3. TypeOK'
      BY SMTT(60), <1>4, <2>2 DEF RollbackLog
    <2>4. CallMatchesStep' /\ NumbersAreFresh'
      BY <1>4 DEF RollbackLog
    <2>5. SlotFollowsStep'
      BY <1>4 DEF RollbackLog
    <2>6. QED
      BY <2>3, <2>4, <2>5
  <1>5. CASE RollbackIndex
    BY <1>5, LastEntryType DEF RollbackIndex
  <1>6. QED
    BY <1>1, <1>2, <1>3, <1>4, <1>5 DEF Rollback

\* Every step of the constructor's journal recovery keeps IInv.
LEMMA RecoverIInv == IInv /\ Recover => IInv'
  <1> SUFFICES ASSUME IInv, Recover PROVE IInv'
    OBVIOUS
  <1> USE MaxOpsAssumption DEF IInv, TypeOK, CallMatchesStep, NumbersAreFresh,
          SlotFollowsStep, dirs, records, history, Goto, Report, SetJournal,
          Ops, Trees, NoTree, Calls, Kinds, Journals, Outcomes, Steps,
          PublishSteps, RestoreSteps, UndoSteps, RollbackSteps, RecoverySteps
  <1>1. CASE RecoverJournal
    <2> SUFFICES ASSUME NEW n \in Ops,
                        \/ RecoverCommitted(n) \/ RecoverForward(n)
                        \/ RecoverBack(n) \/ RecoverAbandon(n)
                        \/ RecoverSwapped(n) \/ RecoverLost(n)
                        \/ RecoverRefuse(n)
                 PROVE  IInv'
      BY <1>1 DEF RecoverJournal
    <2>0. journal[n] # "none" => n <= clock
      OBVIOUS
    <2>c. [call EXCEPT !.id = n] \in Calls
      <3>1. call \in Calls /\ n \in Trees
        OBVIOUS
      <3>2. QED
        <4> HIDE DEF Calls, Trees
        <4>1. QED
          BY <3>1, CallChangeType
    <2> USE DEF Pick, InGap
    <2>1. CASE RecoverCommitted(n)
      <3>1. TypeOK'
        <4> HIDE DEF Calls
        <4>1. call' \in Calls
          BY <2>1, <2>c DEF RecoverCommitted
        <4>2. QED
          BY <2>1, <4>1 DEF RecoverCommitted
      <3>2. CallMatchesStep'
        BY <2>0, <2>1 DEF RecoverCommitted
      <3>3. NumbersAreFresh'
        BY <2>0, <2>1 DEF RecoverCommitted
      <3>4. SlotFollowsStep'
        BY <2>0, <2>1 DEF RecoverCommitted
      <3>5. QED
        BY <3>1, <3>2, <3>3, <3>4
    <2>2. CASE RecoverForward(n)
      <3>1. TypeOK'
        <4> HIDE DEF Calls
        <4>1. call' \in Calls
          BY <2>2, <2>c DEF RecoverForward
        <4>2. QED
          BY <2>2, <4>1 DEF RecoverForward
      <3>2. CallMatchesStep'
        BY <2>0, <2>2 DEF RecoverForward
      <3>3. NumbersAreFresh'
        BY <2>0, <2>2 DEF RecoverForward
      <3>4. SlotFollowsStep'
        BY <2>0, <2>2 DEF RecoverForward
      <3>5. QED
        BY <3>1, <3>2, <3>3, <3>4
    <2>3. CASE RecoverBack(n)
      <3>1. TypeOK'
        <4> HIDE DEF Calls
        <4>1. call' \in Calls
          BY <2>3, <2>c DEF RecoverBack
        <4>2. QED
          BY <2>3, <4>1 DEF RecoverBack
      <3>2. CallMatchesStep'
        BY <2>0, <2>3 DEF RecoverBack
      <3>3. NumbersAreFresh'
        BY <2>0, <2>3 DEF RecoverBack
      <3>4. SlotFollowsStep'
        BY <2>0, <2>3 DEF RecoverBack
      <3>5. QED
        BY <3>1, <3>2, <3>3, <3>4
    <2>4. CASE RecoverAbandon(n)
      <3>1. TypeOK'
        <4> HIDE DEF Calls
        <4>1. call' \in Calls
          BY <2>4, <2>c DEF RecoverAbandon
        <4>2. QED
          BY <2>4, <4>1 DEF RecoverAbandon
      <3>2. CallMatchesStep'
        BY <2>0, <2>4 DEF RecoverAbandon
      <3>3. NumbersAreFresh'
        BY <2>0, <2>4 DEF RecoverAbandon
      <3>4. SlotFollowsStep'
        BY <2>0, <2>4 DEF RecoverAbandon
      <3>5. QED
        BY <3>1, <3>2, <3>3, <3>4
    <2>5. CASE RecoverSwapped(n)
      <3>1. TypeOK'
        <4> HIDE DEF Calls
        <4>1. call' \in Calls
          BY <2>5, <2>c DEF RecoverSwapped
        <4>2. QED
          BY <2>5, <4>1 DEF RecoverSwapped
      <3>2. CallMatchesStep'
        BY <2>0, <2>5 DEF RecoverSwapped
      <3>3. NumbersAreFresh'
        BY <2>0, <2>5 DEF RecoverSwapped
      <3>4. SlotFollowsStep'
        BY <2>0, <2>5 DEF RecoverSwapped
      <3>5. QED
        BY <3>1, <3>2, <3>3, <3>4
    <2>6. CASE RecoverLost(n)
      <3>1. TypeOK'
        <4> HIDE DEF Calls
        <4>1. call' \in Calls
          BY <2>6, <2>c DEF RecoverLost
        <4>2. QED
          BY <2>6, <4>1 DEF RecoverLost
      <3>2. CallMatchesStep'
        BY <2>0, <2>6 DEF RecoverLost
      <3>3. NumbersAreFresh'
        BY <2>0, <2>6 DEF RecoverLost
      <3>4. SlotFollowsStep'
        BY <2>0, <2>6 DEF RecoverLost
      <3>5. QED
        BY <3>1, <3>2, <3>3, <3>4
    <2>7. CASE RecoverRefuse(n)
      <3>1. TypeOK'
        BY SMTT(60), <2>7 DEF RecoverRefuse, NoCall
      <3>2. CallMatchesStep'
        BY <2>7 DEF RecoverRefuse, NoCall
      <3>3. NumbersAreFresh'
        BY <2>7 DEF RecoverRefuse, NoCall
      <3>4. SlotFollowsStep'
        BY <2>7 DEF RecoverRefuse, NoCall
      <3>5. QED
        BY <3>1, <3>2, <3>3, <3>4
    <2>8. QED
      BY <2>1, <2>2, <2>3, <2>4, <2>5, <2>6, <2>7
  <1>2. CASE RecoverMark
    <2>1. TypeOK'
      BY SMTT(60), <1>2 DEF RecoverMark
    <2>2. CallMatchesStep'
      BY <1>2 DEF RecoverMark
    <2>3. NumbersAreFresh'
      BY <1>2 DEF RecoverMark
    <2>4. SlotFollowsStep'
      BY <1>2 DEF RecoverMark
    <2>5. QED
      BY <2>1, <2>2, <2>3, <2>4
  <1>3. CASE RecoverPoint
    BY <1>3 DEF RecoverPoint
  <1>4. CASE RecoverVerify
    BY <1>4 DEF RecoverVerify
  <1>5. CASE RecoverLog
    <2>1. TypeOK'
      BY SMTT(60), <1>5, PublishEntryType DEF RecoverLog
    <2>2. CallMatchesStep'
      BY <1>5, PublishEntryType DEF RecoverLog
    <2>3. NumbersAreFresh'
      BY <1>5, PublishEntryType DEF RecoverLog
    <2>4. SlotFollowsStep'
      BY <1>5, PublishEntryType DEF RecoverLog
    <2>5. QED
      BY <2>1, <2>2, <2>3, <2>4
  <1>6. CASE RecoverIndex
    <2>1. TypeOK'
      BY ZenonT(60), <1>6, LastEntryType DEF RecoverIndex
    <2>2. CallMatchesStep'
      BY <1>6, LastEntryType DEF RecoverIndex
    <2>3. NumbersAreFresh'
      BY <1>6, LastEntryType DEF RecoverIndex
    <2>4. SlotFollowsStep'
      BY <1>6, LastEntryType DEF RecoverIndex
    <2>5. QED
      BY <2>1, <2>2, <2>3, <2>4
  <1>7. CASE RecoverUnpoint
    <2>1. TypeOK'
      BY SMTT(60), <1>7 DEF RecoverUnpoint
    <2>2. CallMatchesStep'
      BY <1>7 DEF RecoverUnpoint
    <2>3. NumbersAreFresh'
      BY <1>7 DEF RecoverUnpoint
    <2>4. SlotFollowsStep'
      BY <1>7 DEF RecoverUnpoint
    <2>5. QED
      BY <2>1, <2>2, <2>3, <2>4
  <1>8. CASE RecoverForget
    BY <1>8 DEF RecoverForget
  <1>9. CASE RecoverBlock
    <2>1. TypeOK'
      <3> HIDE DEF Calls
      <3>1. call' \in Calls
        BY <1>9, NoCallType DEF RecoverBlock
      <3>2. QED
        BY <1>9, <3>1 DEF RecoverBlock
    <2>2. CallMatchesStep'
      BY <1>9 DEF RecoverBlock, NoCall
    <2>3. NumbersAreFresh'
      BY <1>9 DEF RecoverBlock, NoCall
    <2>4. SlotFollowsStep'
      BY <1>9 DEF RecoverBlock, NoCall
    <2>5. QED
      BY <2>1, <2>2, <2>3, <2>4
  <1>10. CASE RecoverDone
    <2>1. TypeOK'
      BY SMTT(60), <1>10 DEF RecoverDone, NoCall
    <2>2. CallMatchesStep'
      BY <1>10 DEF RecoverDone, NoCall
    <2>3. NumbersAreFresh'
      BY <1>10 DEF RecoverDone, NoCall
    <2>4. SlotFollowsStep'
      BY <1>10 DEF RecoverDone, NoCall
    <2>5. QED
      BY <2>1, <2>2, <2>3, <2>4
  <1>12. QED
    BY <1>1, <1>2, <1>3, <1>4, <1>5, <1>6, <1>7, <1>8, <1>9, <1>10, <1>10 DEF Recover

\* What a failure may cost is added to what earlier ones did.
LEMMA LoseType ==
    ASSUME lost \subseteq Costs, NEW w, Lose(w)
    PROVE  lost' \subseteq Costs /\ lost \subseteq lost'
  BY DEF Lose

\* A step that raises, anywhere, keeps IInv.
LEMMA FailureIInv == IInv /\ Failure => IInv'
  <1> SUFFICES ASSUME IInv, Failure PROVE IInv'
    OBVIOUS
  <1> USE MaxOpsAssumption DEF IInv, TypeOK, CallMatchesStep, NumbersAreFresh,
          SlotFollowsStep, dirs, records, Goto, Report,
          Ops, Trees, NoTree, Calls, Kinds, Journals, Outcomes, Steps,
          PublishSteps, RestoreSteps, UndoSteps, RollbackSteps, RecoverySteps
  <1>0. lost' \subseteq Costs
    BY LoseType DEF Failure, PublishFault, UndoFault, RollbackFault, RecoverFault,
       MarkFault
  <1>1. CASE PublishFault
    <2>1. TypeOK'
      BY SMTT(60), <1>0, <1>1 DEF PublishFault
    <2>2. CallMatchesStep'
      BY <1>0, <1>1 DEF PublishFault
    <2>3. NumbersAreFresh'
      BY <1>0, <1>1 DEF PublishFault
    <2>4. SlotFollowsStep'
      BY <1>0, <1>1 DEF PublishFault
    <2>5. QED
      BY <2>1, <2>2, <2>3, <2>4
  <1>2. CASE UndoFault
    BY <1>0, <1>2 DEF UndoFault
  <1>3. CASE RollbackFault
    BY <1>0, <1>3 DEF RollbackFault
  <1>4. CASE RecoverFault
    <2>1. TypeOK'
      <3> HIDE DEF Calls
      <3>0. ASSUME NEW n \in Ops PROVE [call EXCEPT !.id = n] \in Calls
        <4>1. n \in Trees
          OBVIOUS
        <4>2. QED
          <5> HIDE DEF Trees
          <5>1. QED
            BY <4>1, CallChangeType
      <3>1. call' \in Calls
        BY <1>0, <1>4, <3>0 DEF RecoverFault
      <3>2. QED
        BY <1>0, <1>4, <3>1 DEF RecoverFault
    <2>2. CallMatchesStep'
      BY <1>0, <1>4 DEF RecoverFault
    <2>3. NumbersAreFresh'
      BY <1>0, <1>4 DEF RecoverFault
    <2>4. SlotFollowsStep'
      BY <1>0, <1>4 DEF RecoverFault
    <2>5. QED
      BY <2>1, <2>2, <2>3, <2>4
  <1>5. CASE MarkFault
    <2>1. TypeOK'
      <3> HIDE DEF Calls
      <3>1. call' \in Calls
        BY <1>5, NoCallType DEF MarkFault
      <3>2. QED
        BY <1>0, <1>5, <3>1 DEF MarkFault
    <2>2. CallMatchesStep'
      BY <1>5 DEF MarkFault, NoCall
    <2>3. NumbersAreFresh'
      BY <1>5 DEF MarkFault
    <2>4. SlotFollowsStep'
      BY <1>5 DEF MarkFault, NoCall
    <2>5. QED
      BY <2>1, <2>2, <2>3, <2>4
  <1>6. QED
    BY <1>1, <1>2, <1>3, <1>4, <1>5 DEF Failure

\* A new call, a crash, an exit and a start of the process keep IInv.
LEMMA EnvironmentIInv == IInv /\ Environment => IInv'
  <1> SUFFICES ASSUME IInv, Environment PROVE IInv'
    OBVIOUS
  <1> USE MaxOpsAssumption DEF IInv, TypeOK, CallMatchesStep, NumbersAreFresh,
          SlotFollowsStep, dirs, records, history, Goto, Report, SetJournal,
          Ops, Trees, NoTree, Calls, Kinds, Journals, Outcomes, Steps,
          PublishSteps, RestoreSteps, UndoSteps, RollbackSteps, RecoverySteps
  <1>1. CASE PublishStart
    <2>1. TypeOK'
      <3> HIDE DEF Calls
      <3>0. clock + 1 \in Trees /\ slot \in Trees /\ "publish" \in Kinds
        BY <1>1 DEF PublishStart
      <3>1. call' \in Calls
        <4>1. call' = [NoCall EXCEPT !.op = "publish", !.id = clock + 1, !.before = slot]
          BY <1>1 DEF PublishStart
        <4>2. QED
          <5> HIDE DEF Trees, Kinds
          <5>1. QED
            BY <3>0, <4>1, CallStartType
      <3>2. QED
        BY <1>1, <3>1 DEF PublishStart
    <2>2. CallMatchesStep'
      BY <1>1 DEF PublishStart, NoCall
    <2>3. NumbersAreFresh'
      BY <1>1 DEF PublishStart, NoCall
    <2>4. SlotFollowsStep'
      BY <1>1 DEF PublishStart, NoCall
    <2>5. QED
      BY <2>1, <2>2, <2>3, <2>4
  <1>2. CASE RollbackStart
    <2>1. TypeOK'
      <3> HIDE DEF Calls
      <3>0. clock + 1 \in Trees /\ slot \in Trees /\ "rollback" \in Kinds
        BY <1>2 DEF RollbackStart
      <3>1. call' \in Calls
        <4>1. PICK n \in Ops : call' = [NoCall EXCEPT !.op = "rollback",
                      !.id = clock + 1, !.latest = n, !.before = slot]
          BY <1>2 DEF RollbackStart
        <4>2. n \in Trees
          OBVIOUS
        <4>3. QED
          <5> HIDE DEF Trees, Kinds
          <5>1. QED
            BY <3>0, <4>1, <4>2, CallStartType
      <3>2. QED
        BY <1>2, <3>1 DEF RollbackStart
    <2>2. CallMatchesStep'
      BY <1>2 DEF RollbackStart, NoCall, IsLatest, Snapshots
    <2>3. NumbersAreFresh'
      BY <1>2 DEF RollbackStart, NoCall, IsLatest, Snapshots
    <2>4. SlotFollowsStep'
      BY <1>2 DEF RollbackStart, NoCall, IsLatest, Snapshots
    <2>5. QED
      BY <2>1, <2>2, <2>3, <2>4
  <1>3. CASE Crash
    <2>0. lost' \subseteq Costs
      BY <1>3, LoseType DEF Crash
    <2>1. TypeOK'
      BY SMTT(60), <1>3, <2>0 DEF Crash, NoCall
    <2>2. CallMatchesStep'
      BY <1>3 DEF Crash, NoCall
    <2>3. NumbersAreFresh'
      BY <1>3 DEF Crash, NoCall
    <2>4. SlotFollowsStep'
      BY <1>3 DEF Crash, NoCall
    <2>5. QED
      BY <2>1, <2>2, <2>3, <2>4
  <1>4. CASE Exit
    <2>1. TypeOK'
      BY SMTT(60), <1>4 DEF Exit, NoCall
    <2>2. CallMatchesStep'
      BY <1>4 DEF Exit, NoCall
    <2>3. NumbersAreFresh'
      BY <1>4 DEF Exit, NoCall
    <2>4. SlotFollowsStep'
      BY <1>4 DEF Exit, NoCall
    <2>5. QED
      BY <2>1, <2>2, <2>3, <2>4
  <1>5. CASE Start
    <2>1. TypeOK'
      <3> HIDE DEF Calls
      <3>1. call' \in Calls
        BY <1>5, CallStartType DEF Start
      <3>2. QED
        BY <1>5, <3>1 DEF Start
    <2>2. CallMatchesStep'
      BY <1>5 DEF Start, NoCall
    <2>3. NumbersAreFresh'
      BY <1>5 DEF Start, NoCall
    <2>4. SlotFollowsStep'
      BY <1>5 DEF Start, NoCall
    <2>5. QED
      BY <2>1, <2>2, <2>3, <2>4
  <1>6. QED
    BY <1>1, <1>2, <1>3, <1>4, <1>5 DEF Environment

\* A step that changes none of the variables keeps IInv.
LEMMA StutterIInv == IInv /\ UNCHANGED vars => IInv'
  BY DEF IInv, TypeOK, CallMatchesStep, NumbersAreFresh, SlotFollowsStep, vars

\* IInv holds in every reachable state.
THEOREM Inductive == Spec => []IInv
  <1>1. IInv /\ [Next]_vars => IInv'
    BY PublishIInv, CompensateIInv, RollbackIInv, RecoverIInv, FailureIInv,
       EnvironmentIInv, StutterIInv DEF Next, Progress, Work
  <1>2. QED
    BY <1>1, InitIInv, PTL DEF Spec

\* The publisher's state keeps its type, whichever steps fail or crash.
THEOREM TypeCorrect == Spec => []TypeOK
  <1>1. IInv => TypeOK
    BY DEF IInv
  <1>2. QED
    BY <1>1, Inductive, PTL

\* No rename of a directory ever lands on an existing tree (the Windows-safe
\* swap of publisher.py), whichever steps fail or crash.
THEOREM RenameTargetsAbsent == Spec => []RenameTargetAbsent
  <1>1. IInv => RenameTargetAbsent
    BY DEF IInv, SlotFollowsStep, RenameTargetAbsent
  <1>2. QED
    BY <1>1, Inductive, PTL

-----------------------------------------------------------------------------
(* Completed publications are kept.  RollbackMovesNothing is what a failing  *)
(* pointer write of rollback_latest breaks: with the restored tree already   *)
(* in the slot, the compensation deletes it.                                 *)

KeptParts ==
    "tree" \notin lost =>
        InProgressUnreleased /\ RollbackMovesNothing /\ ReleasedKept

\* The window of ReleasedKept is an exception at the pointer write of
\* rollback_latest.
LEMMA PointerFaultLosesTree ==
    ASSUME pc = "r_point", call.op = "rollback", Lose(FaultWindow)
    PROVE  "tree" \in lost'
  <1>1. Here \in FaultWindow["tree"]
    BY DEF Here, FaultWindow
  <1>2. QED
    BY <1>1 DEF Lose, Costs

\* publish() keeps every completed tree: its own is not among them, and the one
\* it moves aside goes to a number no other tree uses.
LEMMA PublishKept ==
    ASSUME IInv, KeptParts, Publish
    PROVE  KeptParts'
  <1> USE MaxOpsAssumption DEF IInv, TypeOK, KeptParts, InProgressUnreleased,
          RollbackMovesNothing, ReleasedKept, dirs, records, history, Goto, Report,
          SetJournal, Ops, Trees, NoTree
  <1> USE DEF PublishSteps, RestoreSteps, UndoSteps, RollbackSteps, RecoverySteps, NumbersAreFresh, SlotFollowsStep, CallMatchesStep
  <1>1. CASE Compile
    BY <1>1 DEF Compile
  <1>2. CASE BeginJournal
    BY <1>2 DEF BeginJournal
  <1>3. CASE NameSnapshot
    BY <1>3 DEF NameSnapshot
  <1>4. CASE TakeSnapshot
    BY <1>4 DEF TakeSnapshot
  <1>5. CASE MarkSnapshotted
    BY <1>5 DEF MarkSnapshotted
  <1>6. CASE Swap
    BY <1>6 DEF Swap
  <1>7. CASE MarkSwapped
    BY <1>7 DEF MarkSwapped
  <1>8. CASE WritePointer
    BY <1>8 DEF WritePointer
  <1>9. CASE LogSuccess
    BY <1>9 DEF LogSuccess
  <1>10. CASE UpdateIndex
    BY <1>10 DEF UpdateIndex
  <1>11. CASE CommitJournal
    BY <1>11 DEF CommitJournal
  <1>12. CASE ForgetJournal
    BY ZenonT(60), <1>12 DEF ForgetJournal
  <1>13. QED
    BY <1>1, <1>2, <1>3, <1>4, <1>5, <1>6, <1>7, <1>8, <1>9, <1>10, <1>11, <1>12 DEF Publish

\* The compensation discards the tree of the failed call only.
LEMMA CompensateKept ==
    ASSUME IInv, KeptParts, Compensate
    PROVE  KeptParts'
  <1> USE MaxOpsAssumption DEF IInv, TypeOK, KeptParts, InProgressUnreleased,
          RollbackMovesNothing, ReleasedKept, dirs, records, history, Goto, Report,
          SetJournal, Ops, Trees, NoTree
  <1> USE DEF PublishSteps, RestoreSteps, UndoSteps, RollbackSteps, RecoverySteps, NumbersAreFresh, SlotFollowsStep, CallMatchesStep
  <1>1. CASE Abort
    BY <1>1 DEF Abort
  <1>2. CASE Displace
    BY <1>2 DEF Displace
  <1>3. CASE Reinstate
    BY <1>3 DEF Reinstate
  <1>4. CASE Discard
    BY <1>4 DEF Discard
  <1>5. CASE PutBack
    BY <1>5 DEF PutBack
  <1>6. CASE Unpublish
    BY <1>6 DEF Unpublish
  <1>7. CASE ForgetFailed
    BY <1>7 DEF ForgetFailed
  <1>8. CASE Repoint
    BY <1>8 DEF Repoint
  <1>9. CASE LogFailure
    BY <1>9 DEF LogFailure
  <1>10. CASE IndexFailure
    BY <1>10 DEF IndexFailure
  <1>11. QED
    BY <1>1, <1>2, <1>3, <1>4, <1>5, <1>6, <1>7, <1>8, <1>9, <1>10 DEF Compensate

\* rollback_latest() exchanges the slot and a snapshot.
LEMMA RollbackKept ==
    ASSUME IInv, KeptParts, Rollback
    PROVE  KeptParts'
  <1> USE MaxOpsAssumption DEF IInv, TypeOK, KeptParts, InProgressUnreleased,
          RollbackMovesNothing, ReleasedKept, dirs, records, history, Goto, Report,
          SetJournal, Ops, Trees, NoTree
  <1> USE DEF PublishSteps, RestoreSteps, UndoSteps, RollbackSteps, RecoverySteps, NumbersAreFresh, SlotFollowsStep, CallMatchesStep
  <1>1. CASE RollbackSnapshot
    BY <1>1 DEF RollbackSnapshot
  <1>2. CASE RollbackRestore
    BY <1>2 DEF RollbackRestore
  <1>3. CASE RollbackPoint
    BY <1>3 DEF RollbackPoint
  <1>4. CASE RollbackLog
    BY <1>4 DEF RollbackLog
  <1>5. CASE RollbackIndex
    BY <1>5 DEF RollbackIndex
  <1>6. QED
    BY <1>1, <1>2, <1>3, <1>4, <1>5 DEF Rollback

\* Recovery moves trees between slot and snapshots, and completes the one it
\* found in the slot.
LEMMA RecoverKept ==
    ASSUME IInv, KeptParts, Recover
    PROVE  KeptParts'
  <1> USE MaxOpsAssumption DEF IInv, TypeOK, KeptParts, InProgressUnreleased,
          RollbackMovesNothing, ReleasedKept, dirs, records, history, Goto, Report,
          SetJournal, Ops, Trees, NoTree
  <1> USE DEF PublishSteps, RestoreSteps, UndoSteps, RollbackSteps, RecoverySteps, NumbersAreFresh, SlotFollowsStep, CallMatchesStep
  <1>1. CASE RecoverJournal
    <2> PICK n \in Ops : \/ RecoverCommitted(n) \/ RecoverForward(n)
                         \/ RecoverBack(n) \/ RecoverAbandon(n)
                         \/ RecoverSwapped(n) \/ RecoverLost(n)
                         \/ RecoverRefuse(n)
      BY <1>1 DEF RecoverJournal
    <2> USE DEF Pick, InGap, NoCall
    <2>1. call.op = "recover" /\ pc = "recover"
      BY DEF RecoverCommitted, RecoverForward, RecoverBack, RecoverAbandon,
             RecoverSwapped, RecoverLost, RecoverRefuse
    <2>2. InProgressUnreleased' /\ RollbackMovesNothing'
      BY <2>1 DEF RecoverCommitted, RecoverForward, RecoverBack, RecoverAbandon,
             RecoverSwapped, RecoverLost, RecoverRefuse
    <2>3. CASE RecoverForward(n)
      BY <2>2, <2>3 DEF RecoverForward
    <2>4. CASE RecoverBack(n)
      BY <2>2, <2>4 DEF RecoverBack
    <2>5. CASE ~ RecoverForward(n) /\ ~ RecoverBack(n)
      BY <2>2, <2>5 DEF RecoverCommitted, RecoverAbandon, RecoverSwapped,
             RecoverLost, RecoverRefuse
    <2>6. QED
      BY <2>3, <2>4, <2>5
  <1>2. CASE RecoverMark
    BY <1>2 DEF RecoverMark
  <1>3. CASE RecoverPoint
    BY <1>3 DEF RecoverPoint
  <1>4. CASE RecoverVerify
    BY <1>4 DEF RecoverVerify
  <1>5. CASE RecoverLog
    BY <1>5 DEF RecoverLog
  <1>6. CASE RecoverIndex
    BY ZenonT(60), <1>6 DEF RecoverIndex
  <1>7. CASE RecoverUnpoint
    BY <1>7 DEF RecoverUnpoint
  <1>8. CASE RecoverForget
    BY <1>8 DEF RecoverForget
  <1>9. CASE RecoverBlock
    BY <1>9 DEF RecoverBlock, NoCall
  <1>10. CASE RecoverDone
    BY <1>10 DEF RecoverDone, NoCall
  <1>11. QED
    BY <1>1, <1>2, <1>3, <1>4, <1>5, <1>6, <1>7, <1>8, <1>9, <1>10 DEF Recover

\* A step that raises moves no tree; the one that would let a later step delete a
\* completed tree is the window.
LEMMA FailureKept ==
    ASSUME IInv, KeptParts, Failure
    PROVE  KeptParts'
  <1> USE MaxOpsAssumption DEF IInv, TypeOK, KeptParts, InProgressUnreleased,
          RollbackMovesNothing, ReleasedKept, dirs, records, Goto, Report,
          Ops, Trees, NoTree
  <1> USE DEF PublishSteps, RestoreSteps, UndoSteps, RollbackSteps, RecoverySteps, NumbersAreFresh, SlotFollowsStep, CallMatchesStep
  <1>0. lost \subseteq lost'
    BY LoseType DEF Failure, PublishFault, UndoFault, RollbackFault, RecoverFault,
       MarkFault
  <1>1. CASE PublishFault
    BY <1>0, <1>1 DEF PublishFault
  <1>2. CASE UndoFault
    BY <1>0, <1>2 DEF UndoFault
  <1>3. CASE RollbackFault
    <2>1. CASE pc = "r_point"
      BY <1>3, <2>1, PointerFaultLosesTree DEF RollbackFault
    <2>2. CASE pc # "r_point"
      BY <1>0, <1>3, <2>2 DEF RollbackFault
    <2>3. QED
      BY <2>1, <2>2
  <1>4. CASE RecoverFault
    BY <1>0, <1>4 DEF RecoverFault
  <1>5. CASE MarkFault
    BY <1>0, <1>5 DEF MarkFault, NoCall
  <1>6. QED
    BY <1>1, <1>2, <1>3, <1>4, <1>5 DEF Failure

\* Calls that start and processes that end move no tree.
LEMMA EnvironmentKept ==
    ASSUME IInv, KeptParts, Environment
    PROVE  KeptParts'
  <1> USE MaxOpsAssumption DEF IInv, TypeOK, KeptParts, InProgressUnreleased,
          RollbackMovesNothing, ReleasedKept, dirs, records, history, Goto, Report,
          SetJournal, Ops, Trees, NoTree
  <1> USE DEF PublishSteps, RestoreSteps, UndoSteps, RollbackSteps, RecoverySteps, NumbersAreFresh, SlotFollowsStep, CallMatchesStep
  <1>1. CASE PublishStart
    BY <1>1 DEF PublishStart, NoCall
  <1>2. CASE RollbackStart
    BY <1>2 DEF RollbackStart, NoCall
  <1>3. CASE Crash
    <2>1. lost \subseteq lost'
      BY <1>3, LoseType DEF Crash
    <2>2. QED
      BY <1>3, <2>1 DEF Crash, NoCall
  <1>4. CASE Exit
    BY <1>4 DEF Exit, NoCall
  <1>5. CASE Start
    BY <1>5 DEF Start, NoCall
  <1>6. QED
    BY <1>1, <1>2, <1>3, <1>4, <1>5 DEF Environment

\* A tree whose publication was completed stays in the slot, in a snapshot or in
\* a .failed sibling, whatever fails or crashes, unless the pointer write of
\* rollback_latest raised.
THEOREM CompletedTreesKept == Spec => []ReleasedKept
  <1>1. Init => KeptParts
    BY MaxOpsAssumption DEF Init, KeptParts, InProgressUnreleased, RollbackMovesNothing, ReleasedKept, NoCall
  <1>2. IInv /\ KeptParts /\ [Next]_vars => KeptParts'
    <2> SUFFICES ASSUME IInv, KeptParts, [Next]_vars PROVE KeptParts'
      OBVIOUS
    <2>1. CASE UNCHANGED vars
      BY <2>1 DEF KeptParts, InProgressUnreleased, RollbackMovesNothing, ReleasedKept, vars
    <2>2. CASE Next
      BY <2>2, PublishKept, CompensateKept, RollbackKept, RecoverKept,
         FailureKept, EnvironmentKept DEF Next, Progress, Work
    <2>3. QED
      BY <2>1, <2>2
  <1>3. KeptParts => ReleasedKept
    BY DEF KeptParts, ReleasedKept
  <1>4. QED
    BY <1>1, <1>2, <1>3, Inductive, PTL DEF Spec

-----------------------------------------------------------------------------
(* What a call has done, step by step, and what it reports. *)

\* A call holds the newest number.
CallIsNewest == call.op \in {"publish", "rollback"} => call.id = clock

\* Which call an outcome is the report of, and when there is none.
ReportMatchesCall ==
    /\ pc \notin {"idle", "down"} => outcome = "none"
    /\ outcome \in {"published", "restored", "rejected"} => pc = "idle" /\ call.op = "publish"
    /\ outcome = "rolled_back" => pc = "idle" /\ call.op = "rollback"
    /\ outcome = "blocked" => pc = "down"
    /\ pc = "down" => call.op = "none"

\* What a publication has done by each of its steps.
PublishProgress ==
    call.op = "publish" =>
        /\ pc \in {"compile", "begin", "name", "snapshot"} => slot = call.before
        /\ pc \in {"name", "snapshot"} => slot # NoTree
        /\ pc = "mark_snapshotted" => call.before # NoTree
        /\ pc \in {"mark_snapshotted", "swap", "mark_swapped", "point", "log", "index",
                   "commit", "forget"} => snap[call.id] = call.before
        /\ pc \in {"mark_swapped", "point", "log", "index", "commit", "forget"} => call.swapped
        /\ pc \in {"log", "index", "commit", "forget"} => pointer = call.id
        /\ pc \in {"index", "commit", "forget"} => LastEntry(hist) = PublishEntry(call.id)
        /\ pc \in {"commit", "forget"} => index = PublishEntry(call.id)

\* How far the journal of a call has come.
JournalProgress ==
    /\ call.op = "publish" =>
          /\ pc \in {"compile", "begin", "repoint", "log_failed", "index_failed"} =>
                 journal[call.id] = "none"
          /\ pc = "name" => journal[call.id] = "prepared"
          /\ pc \in {"snapshot", "mark_snapshotted"} => journal[call.id] = "named"
          /\ pc \in {"swap", "mark_swapped"} =>
                 journal[call.id] = IF call.before = NoTree THEN "prepared" ELSE "snapshotted"
          /\ pc \in {"point", "log", "index", "commit"} => journal[call.id] = "swapped"
          /\ pc = "forget" => journal[call.id] = "committed"
          /\ pc = "abort" /\ ~call.swapped /\ snap[call.id] = NoTree =>
                 journal[call.id] \in {"none", "prepared", "named"}
    /\ call.op = "rollback" /\ pc = "r_snapshot" => journal[call.id] = "none"

\* What its compensation has, and what it still has to undo.
WithdrawalProgress ==
    call.op = "publish" =>
        /\ pc \in {"abort", "displace", "reinstate"} /\ snap[call.id] # NoTree =>
               snap[call.id] = call.before
        /\ pc = "abort" /\ snap[call.id] = NoTree =>
               IF call.swapped THEN call.before = NoTree ELSE slot = call.before
        /\ pc = "unpublish" => call.before = NoTree /\ call.swapped /\ snap[call.id] = NoTree
        /\ pc \in {"discard", "forget_failed", "repoint", "log_failed", "index_failed"} =>
               slot = call.before
        /\ pc \in {"log_failed", "index_failed"} => pointer = slot

\* What rollback_latest has done by each of its steps.
RollbackProgress ==
    call.op = "rollback" =>
        /\ pc = "r_snapshot" => slot = call.before /\ slot # NoTree
        /\ pc \in {"r_restore", "r_point", "r_log", "r_index"} => snap[call.id] = call.before
        /\ pc \in {"r_snapshot", "r_restore"} =>
               snap[call.latest] # NoTree /\ call.latest # call.id
        /\ pc \in {"r_point", "r_log", "r_index"} => slot # NoTree
        /\ pc \in {"r_log", "r_index"} => pointer = slot
        /\ pc = "r_index" => LastEntry(hist).tree = slot

ReportInv ==
    /\ CallIsNewest /\ ReportMatchesCall
    /\ JournalProgress /\ PublishProgress /\ WithdrawalProgress /\ RollbackProgress
    /\ PublishedVisible /\ FailureRestores /\ RollbackReversible

\* The last entry is the one just appended.
LEMMA LastEntryAppend ==
    ASSUME NEW h \in Seq(Entries), NEW e \in Entries
    PROVE  LastEntry(Append(h, e)) = e
  BY DEF LastEntry

\* Every step keeps what the calls have done so far, and so what they report.
LEMMA ReportInvNext ==
    ASSUME IInv, ReportInv, [Next]_vars
    PROVE  ReportInv'
  <1> USE MaxOpsAssumption DEF IInv, TypeOK, CallMatchesStep, NumbersAreFresh,
          SlotFollowsStep, ReportInv, CallIsNewest, ReportMatchesCall, JournalProgress, PublishProgress,
          WithdrawalProgress, RollbackProgress, PublishedVisible, FailureRestores,
          RollbackReversible, IsLatest, Snapshots, dirs, records, history, Goto, Report,
          SetJournal, Ops, Trees, NoTree, NoCall, PublishSteps, RestoreSteps, UndoSteps,
          RollbackSteps, RecoverySteps
  <1>1. CASE Compile
    BY <1>1 DEF Compile
  <1>2. CASE BeginJournal
    BY <1>2 DEF BeginJournal
  <1>3. CASE NameSnapshot
    BY <1>3 DEF NameSnapshot
  <1>4. CASE TakeSnapshot
    BY <1>4 DEF TakeSnapshot
  <1>5. CASE MarkSnapshotted
    BY <1>5 DEF MarkSnapshotted
  <1>6. CASE Swap
    BY <1>6 DEF Swap
  <1>7. CASE MarkSwapped
    BY <1>7 DEF MarkSwapped
  <1>8. CASE WritePointer
    BY <1>8 DEF WritePointer
  <1>9. CASE LogSuccess
    <2>1. LastEntry(hist') = PublishEntry(call.id)
      BY <1>9, LastEntryAppend, PublishEntryType DEF LogSuccess
    <2>2. QED
      BY <1>9, <2>1 DEF LogSuccess
  <1>10. CASE UpdateIndex
    BY <1>10 DEF UpdateIndex
  <1>11. CASE CommitJournal
    BY <1>11 DEF CommitJournal
  <1>12. CASE ForgetJournal
    BY <1>12 DEF ForgetJournal
  <1>13. CASE Abort
    BY <1>13 DEF Abort
  <1>14. CASE Displace
    BY <1>14 DEF Displace
  <1>15. CASE Reinstate
    BY <1>15 DEF Reinstate
  <1>16. CASE Discard
    BY <1>16 DEF Discard
  <1>17. CASE PutBack
    BY <1>17 DEF PutBack
  <1>18. CASE Unpublish
    BY <1>18 DEF Unpublish
  <1>19. CASE ForgetFailed
    BY <1>19 DEF ForgetFailed
  <1>20. CASE Repoint
    BY <1>20 DEF Repoint
  <1>21. CASE LogFailure
    BY <1>21 DEF LogFailure
  <1>22. CASE IndexFailure
    BY <1>22 DEF IndexFailure
  <1>23. CASE RollbackSnapshot
    BY <1>23 DEF RollbackSnapshot
  <1>24. CASE RollbackRestore
    BY <1>24 DEF RollbackRestore
  <1>25. CASE RollbackPoint
    BY <1>25 DEF RollbackPoint
  <1>26. CASE RollbackLog
    <2>1. LastEntry(hist').tree = slot
      <3>1. [kind |-> "rollback", op |-> call.id, tree |-> slot] \in Entries
        BY <1>26 DEF RollbackLog, Entries, Kinds
      <3>2. QED
        BY <1>26, <3>1, LastEntryAppend DEF RollbackLog
    <2>2. QED
      BY <1>26, <2>1 DEF RollbackLog
  <1>27. CASE RollbackIndex
    BY <1>27 DEF RollbackIndex
  <1>28. ASSUME NEW n \in Ops, RecoverCommitted(n) PROVE ReportInv'
    BY <1>28 DEF RecoverCommitted, Pick
  <1>29. ASSUME NEW n \in Ops, RecoverForward(n) PROVE ReportInv'
    BY <1>29 DEF RecoverForward, Pick
  <1>30. ASSUME NEW n \in Ops, RecoverBack(n) PROVE ReportInv'
    BY <1>30 DEF RecoverBack, Pick
  <1>31. ASSUME NEW n \in Ops, RecoverAbandon(n) PROVE ReportInv'
    BY <1>31 DEF RecoverAbandon, Pick
  <1>32. ASSUME NEW n \in Ops, RecoverSwapped(n) PROVE ReportInv'
    BY <1>32 DEF RecoverSwapped, Pick
  <1>33. ASSUME NEW n \in Ops, RecoverLost(n) PROVE ReportInv'
    BY <1>33 DEF RecoverLost, Pick
  <1>34. ASSUME NEW n \in Ops, RecoverRefuse(n) PROVE ReportInv'
    BY <1>34 DEF RecoverRefuse
  <1>35. CASE RecoverMark
    BY <1>35 DEF RecoverMark
  <1>36. CASE RecoverPoint
    BY <1>36 DEF RecoverPoint
  <1>37. CASE RecoverVerify
    BY <1>37 DEF RecoverVerify
  <1>38. CASE RecoverLog
    BY <1>38 DEF RecoverLog
  <1>39. CASE RecoverIndex
    BY <1>39 DEF RecoverIndex
  <1>40. CASE RecoverUnpoint
    BY <1>40 DEF RecoverUnpoint
  <1>41. CASE RecoverForget
    BY <1>41 DEF RecoverForget
  <1>42. CASE RecoverBlock
    BY <1>42 DEF RecoverBlock
  <1>43. CASE RecoverDone
    BY <1>43 DEF RecoverDone
  <1>44. CASE PublishFault
    <2>1. JournalProgress' /\ PublishProgress' /\ RollbackProgress' /\ CallIsNewest' /\ ReportMatchesCall'
      BY <1>44 DEF PublishFault
    <2>2. WithdrawalProgress'
      BY <1>44 DEF PublishFault
    <2>3. PublishedVisible' /\ FailureRestores' /\ RollbackReversible'
      BY <1>44 DEF PublishFault
    <2>4. QED
      BY <2>1, <2>2, <2>3
  <1>45. CASE UndoFault
    BY <1>45 DEF UndoFault
  <1>46. CASE RollbackFault
    BY <1>46 DEF RollbackFault
  <1>47. CASE RecoverFault
    BY <1>47 DEF RecoverFault, Calls, Kinds
  <1>48. CASE MarkFault
    BY <1>48 DEF MarkFault
  <1>49. CASE PublishStart
    BY <1>49 DEF PublishStart
  <1>50. CASE RollbackStart
    BY <1>50 DEF RollbackStart
  <1>51. CASE Crash
    BY <1>51 DEF Crash
  <1>52. CASE Exit
    BY <1>52 DEF Exit
  <1>53. CASE Start
    BY <1>53 DEF Start
  <1>54. CASE UNCHANGED vars
    BY <1>54 DEF vars
  <1>55. QED
    BY <1>1, <1>2, <1>3, <1>4, <1>5, <1>6, <1>7, <1>8, <1>9, <1>10, <1>11,
       <1>12, <1>13, <1>14, <1>15, <1>16, <1>17, <1>18, <1>19, <1>20, <1>21,
       <1>22, <1>23, <1>24, <1>25, <1>26, <1>27, <1>28, <1>29, <1>30, <1>31,
       <1>32, <1>33, <1>34, <1>35, <1>36, <1>37, <1>38, <1>39, <1>40, <1>41,
       <1>42, <1>43, <1>44, <1>45, <1>46, <1>47, <1>48, <1>49, <1>50, <1>51,
       <1>52, <1>53, <1>54
       DEF Next, Progress, Work, Publish, Compensate, Rollback, Recover, RecoverJournal,
           Failure, Environment

-----------------------------------------------------------------------------
(* The costs of failures. *)

\* A failure takes no promise back that was lost before.
LEMMA LoseMore ==
    ASSUME NEW window, Lose(window)
    PROVE  lost \subseteq lost'
  BY DEF Lose

\* What a crash leaves of the promises about the slot and the pointer.
LEMMA CrashCost ==
    ASSUME Crash
    PROVE  /\ lost \subseteq lost'
           /\ "slot" \notin lost' => Here \notin CrashWindow["slot"]
           /\ "pointer" \notin lost' => Here \notin CrashWindow["pointer"]
           /\ "service" \notin lost' => Here \notin CrashWindow["service"]
  BY DEF Crash, Lose, Costs

\* What an exception leaves of them.
LEMMA FaultCost ==
    ASSUME Failure
    PROVE  /\ lost \subseteq lost'
           /\ "slot" \notin lost' => Here \notin FaultWindow["slot"]
           /\ "pointer" \notin lost' => Here \notin FaultWindow["pointer"]
           /\ "service" \notin lost' => Here \notin FaultWindow["service"]
  BY DEF Failure, PublishFault, UndoFault, RollbackFault, RecoverFault, MarkFault, Lose, Costs

-----------------------------------------------------------------------------
(* Recovery can finish. *)

\* Recovery of journal n changes nothing but the journal and a staging tree.
Harmless(n) ==
    \/ journal[n] \in {"none", "committed"}
    \/ journal[n] \in {"prepared", "named"} /\ snap[n] = NoTree

\* At most one journal is not harmless, and it is that of the call in progress.
OneToRecover ==
    /\ pc = "idle" \/ call.op = "rollback" => \A n \in Ops : Harmless(n)
    /\ pc \in Steps \ {"idle", "down", "recover", "rec_forget"} =>
           \A n \in Ops \ {call.id} : Harmless(n)
    /\ \A m, n \in Ops : ~Harmless(m) /\ ~Harmless(n) => m = n

\* A journal "swapped" has its tree in the slot, or its snapshot and an empty slot.
SwappedInPlace ==
    /\ \A n \in Ops : journal[n] = "swapped" =>
          \/ slot = n
          \/ slot = NoTree /\ snap[n] # NoTree
          \/ n = call.id /\ pc \in {"discard", "forget_failed", "rec_unpoint", "rec_forget"}
    /\ pc \in {"rec_mark", "rec_point", "rec_verify"} => slot = call.id

\* No journal asks for manual work.
Unblocked ==
    /\ pc \notin {"putback", "rec_block"} /\ outcome # "blocked"
    /\ \A n \in Ops : journal[n] # "rollback_required"

ServiceInv ==
    "service" \notin lost => Unblocked /\ OneToRecover /\ SwappedInPlace

\* Every step keeps at most one journal to recover, and recovery able to do so.
LEMMA ServiceInvNext ==
    ASSUME IInv, ReportInv, ServiceInv, [Next]_vars
    PROVE  ServiceInv'
  <1> USE MaxOpsAssumption DEF IInv, TypeOK, CallMatchesStep, NumbersAreFresh,
          SlotFollowsStep, ReportInv, CallIsNewest,
          JournalProgress, PublishProgress, RollbackProgress, ServiceInv, Unblocked, OneToRecover, SwappedInPlace,
          Harmless, dirs, records, history, Goto, Report,
          SetJournal, Ops, Trees, NoTree, NoCall, PublishSteps, RestoreSteps, UndoSteps,
          RollbackSteps, RecoverySteps, Steps, Journals
  <1>1. CASE Compile
    BY <1>1 DEF Compile
  <1>2. CASE BeginJournal
    BY <1>2 DEF BeginJournal
  <1>3. CASE NameSnapshot
    BY SMTT(30), <1>3 DEF NameSnapshot
  <1>4. CASE TakeSnapshot
    <2> USE DEF TakeSnapshot
    <2>1. CASE "service" \notin lost
      <3>1. Unblocked'
        BY <1>4, <2>1
      <3>2. OneToRecover'
        <4>1. \A n \in Ops : Harmless(n)' => Harmless(n) \/ n = call.id
          BY <1>4
        <4>2. \A n \in Ops : Harmless(n) => Harmless(n)' \/ n = call.id
          BY <1>4
        <4>3. QED
          BY SMTT(30), <1>4, <2>1, <4>1, <4>2
      <3>3. SwappedInPlace'
        BY SMTT(30), <1>4, <2>1
      <3>4. QED
        BY <3>1, <3>2, <3>3
    <2>2. QED
      BY <1>4, <2>1
  <1>5. CASE MarkSnapshotted
    BY <1>5 DEF MarkSnapshotted
  <1>6. CASE Swap
    <2> USE DEF Swap
    <2>1. CASE "service" \notin lost
      <3>1. Unblocked'
        BY <1>6, <2>1
      <3>2. OneToRecover'
        <4>1. \A n \in Ops : Harmless(n)' => Harmless(n) \/ n = call.id
          BY <1>6
        <4>2. \A n \in Ops : Harmless(n) => Harmless(n)' \/ n = call.id
          BY <1>6
        <4>3. QED
          BY <1>6, <2>1, <4>1, <4>2
      <3>3. SwappedInPlace'
        BY SMTT(30), <1>6, <2>1
      <3>4. QED
        BY <3>1, <3>2, <3>3
    <2>2. QED
      BY <1>6, <2>1
  <1>7. CASE MarkSwapped
    BY <1>7 DEF MarkSwapped
  <1>8. CASE WritePointer
    BY <1>8 DEF WritePointer
  <1>9. CASE LogSuccess
    BY <1>9 DEF LogSuccess
  <1>10. CASE UpdateIndex
    BY <1>10 DEF UpdateIndex
  <1>11. CASE CommitJournal
    BY <1>11 DEF CommitJournal
  <1>12. CASE ForgetJournal
    BY <1>12 DEF ForgetJournal
  <1>13. CASE Abort
    BY <1>13 DEF Abort
  <1>14. CASE Displace
    BY <1>14 DEF Displace
  <1>15. CASE Reinstate
    <2> USE DEF Reinstate
    <2>1. CASE "service" \notin lost
      <3>1. Unblocked'
        BY <1>15, <2>1
      <3>2. OneToRecover'
        <4>1. \A n \in Ops : Harmless(n)' => Harmless(n) \/ n = call.id
          BY <1>15
        <4>2. \A n \in Ops : Harmless(n) => Harmless(n)' \/ n = call.id
          BY <1>15
        <4>3. QED
          BY <1>15, <2>1, <4>1, <4>2
      <3>3. SwappedInPlace'
        BY SMTT(30), <1>15, <2>1
      <3>4. QED
        BY <3>1, <3>2, <3>3
    <2>2. QED
      BY <1>15, <2>1
  <1>16. CASE Discard
    BY <1>16 DEF Discard
  <1>17. CASE PutBack
    BY <1>17 DEF PutBack
  <1>18. CASE Unpublish
    BY <1>18 DEF Unpublish
  <1>19. CASE ForgetFailed
    BY <1>19 DEF ForgetFailed
  <1>20. CASE Repoint
    BY <1>20 DEF Repoint
  <1>21. CASE LogFailure
    BY <1>21 DEF LogFailure
  <1>22. CASE IndexFailure
    BY <1>22 DEF IndexFailure
  <1>23. CASE RollbackSnapshot
    <2> USE DEF RollbackSnapshot
    <2>1. CASE "service" \notin lost
      <3>1. Unblocked'
        BY <1>23, <2>1
      <3>2. OneToRecover'
        <4>1. \A n \in Ops : Harmless(n)' => Harmless(n) \/ n = call.id
          BY <1>23
        <4>2. \A n \in Ops : Harmless(n) => Harmless(n)' \/ n = call.id
          BY <1>23
        <4>3. QED
          BY <1>23, <2>1, <4>1, <4>2
      <3>3. SwappedInPlace'
        <4>1. \A n \in Ops : journal[n] # "swapped"
          BY <1>23, <2>1
        <4>2. pc' \notin {"rec_mark", "rec_point", "rec_verify"} /\ journal' = journal
          BY <1>23
        <4>3. QED
          BY <4>1, <4>2
      <3>4. QED
        BY <3>1, <3>2, <3>3
    <2>2. QED
      BY <1>23, <2>1
  <1>24. CASE RollbackRestore
    <2> USE DEF RollbackRestore
    <2>1. CASE "service" \notin lost
      <3>1. Unblocked'
        BY <1>24, <2>1
      <3>2. OneToRecover'
        <4>1. \A n \in Ops : Harmless(n) => Harmless(n)'
          BY <1>24
        <4>2. QED
          BY <1>24, <2>1, <4>1
      <3>3. SwappedInPlace'
        <4>1. \A n \in Ops : journal[n] # "swapped"
          BY <1>24, <2>1
        <4>2. pc' \notin {"rec_mark", "rec_point", "rec_verify"} /\ journal' = journal
          BY <1>24
        <4>3. QED
          BY <4>1, <4>2
      <3>4. QED
        BY <3>1, <3>2, <3>3
    <2>2. QED
      BY <1>24, <2>1
  <1>25. CASE RollbackPoint
    BY <1>25 DEF RollbackPoint
  <1>26. CASE RollbackLog
    BY <1>26 DEF RollbackLog
  <1>27. CASE RollbackIndex
    BY <1>27 DEF RollbackIndex
  <1>28. ASSUME NEW n \in Ops, RecoverCommitted(n) PROVE ServiceInv'
    BY SMTT(30), <1>28 DEF RecoverCommitted, Pick, InGap, Calls, Kinds
  <1>29. ASSUME NEW n \in Ops, RecoverForward(n) PROVE ServiceInv'
    BY SMTT(30), <1>29 DEF RecoverForward, Pick, InGap, Calls, Kinds
  <1>30. ASSUME NEW n \in Ops, RecoverBack(n) PROVE ServiceInv'
    <2> USE DEF RecoverBack, Pick, InGap
    <2>1. CASE "service" \notin lost
      <3>1. ~Harmless(n) /\ \A m \in Ops \ {n} : Harmless(m) /\ Harmless(m)'
        BY <1>30, <2>1
      <3>2. Unblocked' /\ OneToRecover'
        BY <1>30, <2>1, <3>1
      <3>3. SwappedInPlace'
        BY <1>30, <2>1, <3>1, SMTT(30) DEF Calls, Kinds
      <3>4. QED
        BY <3>2, <3>3
    <2>2. QED
      BY <1>30, <2>1
  <1>31. ASSUME NEW n \in Ops, RecoverAbandon(n) PROVE ServiceInv'
    BY SMTT(30), <1>31 DEF RecoverAbandon, Pick, InGap, Calls, Kinds
  <1>32. ASSUME NEW n \in Ops, RecoverSwapped(n) PROVE ServiceInv'
    BY <1>32 DEF RecoverSwapped, Pick, InGap, Calls, Kinds
  <1>33. ASSUME NEW n \in Ops, RecoverLost(n) PROVE ServiceInv'
    BY <1>33 DEF RecoverLost, Pick, InGap, Calls, Kinds
  <1>34. ASSUME NEW n \in Ops, RecoverRefuse(n) PROVE ServiceInv'
    BY <1>34 DEF RecoverRefuse, InGap, Calls, Kinds
  <1>35. CASE RecoverMark
    BY SMTT(30), <1>35 DEF RecoverMark
  <1>36. CASE RecoverPoint
    BY <1>36 DEF RecoverPoint
  <1>37. CASE RecoverVerify
    BY <1>37 DEF RecoverVerify
  <1>38. CASE RecoverLog
    BY <1>38 DEF RecoverLog
  <1>39. CASE RecoverIndex
    BY <1>39 DEF RecoverIndex
  <1>40. CASE RecoverUnpoint
    BY <1>40 DEF RecoverUnpoint
  <1>41. CASE RecoverForget
    BY <1>41 DEF RecoverForget
  <1>42. CASE RecoverBlock
    BY <1>42 DEF RecoverBlock
  <1>43. CASE RecoverDone
    BY <1>43 DEF RecoverDone
  <1>44. CASE PublishFault
    BY <1>44, LoseMore DEF PublishFault
  <1>45. CASE UndoFault
    BY <1>45 DEF UndoFault, Lose, Here, FaultWindow, Costs
  <1>46. CASE RollbackFault
    BY <1>46 DEF RollbackFault, Lose, Here, FaultWindow, Costs
  <1>47. CASE RecoverFault
    BY <1>47 DEF RecoverFault, Lose, Here, FaultWindow, Costs
  <1>48. CASE MarkFault
    BY <1>48 DEF MarkFault, Lose, Here, FaultWindow, Costs
  <1>49. CASE PublishStart
    BY <1>49 DEF PublishStart
  <1>50. CASE RollbackStart
    BY <1>50 DEF RollbackStart
  <1>51. CASE Crash
    BY <1>51 DEF Crash, Lose, Here, CrashWindow, Costs
  <1>52. CASE Exit
    BY <1>52 DEF Exit
  <1>53. CASE Start
    BY <1>53 DEF Start
  <1>54. CASE UNCHANGED vars
    BY <1>54 DEF vars
  <1>55. QED
    BY <1>1, <1>2, <1>3, <1>4, <1>5, <1>6, <1>7, <1>8, <1>9, <1>10, <1>11,
       <1>12, <1>13, <1>14, <1>15, <1>16, <1>17, <1>18, <1>19, <1>20, <1>21,
       <1>22, <1>23, <1>24, <1>25, <1>26, <1>27, <1>28, <1>29, <1>30, <1>31,
       <1>32, <1>33, <1>34, <1>35, <1>36, <1>37, <1>38, <1>39, <1>40, <1>41,
       <1>42, <1>43, <1>44, <1>45, <1>46, <1>47, <1>48, <1>49, <1>50, <1>51,
       <1>52, <1>53, <1>54
       DEF Next, Progress, Work, Publish, Compensate, Rollback, Recover, RecoverJournal,
           Failure, Environment

-----------------------------------------------------------------------------
(* The slot is not left empty. *)

\* The journal of n brings the tree in its snapshot back when the slot is empty.
Held(n) ==
    /\ journal[n] \in {"named", "snapshotted", "swapped", "rollback_required"}
    /\ snap[n] # NoTree

\* Nothing that could come back was ever published.
NothingPublished == \A n \in Ops : snap[n] = NoTree /\ n \notin released

\* The rollback in progress has the tree in its own snapshot.
RollbackHolds ==
    /\ call.op = "rollback"
    /\ pc \in {"r_restore", "displace", "reinstate"}
    /\ snap[call.id] # NoTree

\* An empty slot has a tree to come back to.
EmptyIsHeld ==
    slot = NoTree => NothingPublished \/ RollbackHolds \/ \E n \in Ops : Held(n)

\* So has the slot of a first publication that could be withdrawn.
FirstIsHeld ==
    /\ call.op = "publish"
    /\ pc \in {"mark_swapped", "point", "log", "index", "commit", "forget", "abort", "unpublish"}
    /\ call.swapped
    /\ snap[call.id] = NoTree
    => NothingPublished \/ \E n \in Ops : Held(n)

\* While publish() may still put a snapshot back, its journal holds it.
PublishHolds ==
    call.op = "publish" =>
        /\ pc \in {"displace", "reinstate", "putback"} => Held(call.id)
        /\ pc = "abort" /\ snap[call.id] # NoTree => Held(call.id)

\* What the slot holds where a journal is dropped.
DroppedAfterMove ==
    /\ pc \in {"discard", "rec_unpoint", "rec_mark"} => slot # NoTree
    /\ pc = "forget_failed" => slot # NoTree \/ snap[call.id] = NoTree
    /\ pc = "rec_forget" => slot # NoTree \/ snap[call.id] = NoTree
    /\ pc = "putback" => call.op = "publish"
    /\ pc = "displace" /\ call.op = "rollback" => slot = NoTree

\* What the first and the last state of a journal say of its trees.
JournalEnds ==
    /\ \A n \in Ops : journal[n] = "prepared" => snap[n] = NoTree
    /\ \A n \in Ops : journal[n] = "committed" =>
           slot = n /\ pc \in {"forget", "down"} \cup RecoverySteps

EmptyInv ==
    "slot" \notin lost =>
        EmptyIsHeld /\ FirstIsHeld /\ PublishHolds /\ DroppedAfterMove /\ JournalEnds

\* Every step keeps a way back for an empty slot.
LEMMA EmptyInvNext ==
    ASSUME IInv, ReportInv, EmptyInv, [Next]_vars
    PROVE  EmptyInv'
  <1> USE MaxOpsAssumption DEF IInv, TypeOK, CallMatchesStep, NumbersAreFresh,
          SlotFollowsStep, ReportInv, CallIsNewest, JournalProgress, PublishProgress, WithdrawalProgress, RollbackProgress,
          EmptyInv, Held, NothingPublished, RollbackHolds, EmptyIsHeld, FirstIsHeld,
          PublishHolds, DroppedAfterMove, JournalEnds, dirs, records, history, Goto, Report,
          SetJournal, Ops, Trees, NoTree, NoCall, PublishSteps, RestoreSteps, UndoSteps,
          RollbackSteps, RecoverySteps, Journals
  <1>1. CASE Compile
    BY <1>1 DEF Compile
  <1>2. CASE BeginJournal
    BY <1>2 DEF BeginJournal
  <1>3. CASE NameSnapshot
    BY <1>3 DEF NameSnapshot
  <1>4. CASE TakeSnapshot
    BY <1>4 DEF TakeSnapshot
  <1>5. CASE MarkSnapshotted
    BY <1>5 DEF MarkSnapshotted
  <1>6. CASE Swap
    BY <1>6 DEF Swap
  <1>7. CASE MarkSwapped
    BY <1>7 DEF MarkSwapped
  <1>8. CASE WritePointer
    BY <1>8 DEF WritePointer
  <1>9. CASE LogSuccess
    BY <1>9 DEF LogSuccess
  <1>10. CASE UpdateIndex
    BY <1>10 DEF UpdateIndex
  <1>11. CASE CommitJournal
    BY SMTT(30), <1>11 DEF CommitJournal
  <1>12. CASE ForgetJournal
    BY <1>12 DEF ForgetJournal
  <1>13. CASE Abort
    BY <1>13 DEF Abort
  <1>14. CASE Displace
    BY <1>14 DEF Displace
  <1>15. CASE Reinstate
    BY <1>15 DEF Reinstate
  <1>16. CASE Discard
    BY <1>16 DEF Discard
  <1>17. CASE PutBack
    BY <1>17 DEF PutBack
  <1>18. CASE Unpublish
    BY <1>18 DEF Unpublish
  <1>19. CASE ForgetFailed
    BY <1>19 DEF ForgetFailed
  <1>20. CASE Repoint
    BY <1>20 DEF Repoint
  <1>21. CASE LogFailure
    BY <1>21 DEF LogFailure
  <1>22. CASE IndexFailure
    BY <1>22 DEF IndexFailure
  <1>23. CASE RollbackSnapshot
    BY <1>23 DEF RollbackSnapshot
  <1>24. CASE RollbackRestore
    BY <1>24 DEF RollbackRestore
  <1>25. CASE RollbackPoint
    BY <1>25 DEF RollbackPoint
  <1>26. CASE RollbackLog
    BY <1>26 DEF RollbackLog
  <1>27. CASE RollbackIndex
    BY <1>27 DEF RollbackIndex
  <1>28. ASSUME NEW n \in Ops, RecoverCommitted(n) PROVE EmptyInv'
    BY <1>28 DEF RecoverCommitted, Pick, InGap, Calls, Kinds
  <1>29. ASSUME NEW n \in Ops, RecoverForward(n) PROVE EmptyInv'
    BY <1>29 DEF RecoverForward, Pick, InGap, Calls, Kinds
  <1>30. ASSUME NEW n \in Ops, RecoverBack(n) PROVE EmptyInv'
    BY <1>30 DEF RecoverBack, Pick, InGap, Calls, Kinds
  <1>31. ASSUME NEW n \in Ops, RecoverAbandon(n) PROVE EmptyInv'
    BY <1>31 DEF RecoverAbandon, Pick, InGap, Calls, Kinds
  <1>32. ASSUME NEW n \in Ops, RecoverSwapped(n) PROVE EmptyInv'
    BY <1>32 DEF RecoverSwapped, Pick, InGap, Calls, Kinds
  <1>33. ASSUME NEW n \in Ops, RecoverLost(n) PROVE EmptyInv'
    BY <1>33 DEF RecoverLost, Pick, InGap, Calls, Kinds
  <1>34. ASSUME NEW n \in Ops, RecoverRefuse(n) PROVE EmptyInv'
    BY <1>34 DEF RecoverRefuse, InGap, Calls, Kinds
  <1>35. CASE RecoverMark
    BY <1>35 DEF RecoverMark
  <1>36. CASE RecoverPoint
    BY <1>36 DEF RecoverPoint
  <1>37. CASE RecoverVerify
    BY <1>37 DEF RecoverVerify
  <1>38. CASE RecoverLog
    BY <1>38 DEF RecoverLog
  <1>39. CASE RecoverIndex
    BY <1>39 DEF RecoverIndex
  <1>40. CASE RecoverUnpoint
    BY <1>40 DEF RecoverUnpoint
  <1>41. CASE RecoverForget
    BY <1>41 DEF RecoverForget
  <1>42. CASE RecoverBlock
    BY <1>42 DEF RecoverBlock
  <1>43. CASE RecoverDone
    BY <1>43 DEF RecoverDone
  <1>44. CASE PublishFault
    BY SMTT(30), <1>44, FaultCost DEF PublishFault, Failure, Here, FaultWindow
  <1>45. CASE UndoFault
    BY SMTT(30), <1>45, FaultCost DEF UndoFault, Failure, Here, FaultWindow
  <1>46. CASE RollbackFault
    BY <1>46, FaultCost DEF RollbackFault, Failure, Here, FaultWindow
  <1>47. CASE RecoverFault
    BY <1>47, FaultCost DEF RecoverFault, Failure, Here, FaultWindow
  <1>48. CASE MarkFault
    BY <1>48, FaultCost DEF MarkFault, Failure, Here, FaultWindow
  <1>49. CASE PublishStart
    BY <1>49 DEF PublishStart
  <1>50. CASE RollbackStart
    BY <1>50 DEF RollbackStart
  <1>51. CASE Crash
    <2>1. CASE "slot" \notin lost'
      <3>1. "slot" \notin lost /\ ~RollbackHolds
        BY <1>51, <2>1, CrashCost DEF Here, CrashWindow
      <3>2. QED
        BY <1>51, <3>1 DEF Crash
    <2>2. QED
      BY <2>1
  <1>52. CASE Exit
    BY <1>52 DEF Exit
  <1>53. CASE Start
    BY <1>53 DEF Start
  <1>54. CASE UNCHANGED vars
    BY <1>54 DEF vars
  <1>55. QED
    BY <1>1, <1>2, <1>3, <1>4, <1>5, <1>6, <1>7, <1>8, <1>9, <1>10, <1>11,
       <1>12, <1>13, <1>14, <1>15, <1>16, <1>17, <1>18, <1>19, <1>20, <1>21,
       <1>22, <1>23, <1>24, <1>25, <1>26, <1>27, <1>28, <1>29, <1>30, <1>31,
       <1>32, <1>33, <1>34, <1>35, <1>36, <1>37, <1>38, <1>39, <1>40, <1>41,
       <1>42, <1>43, <1>44, <1>45, <1>46, <1>47, <1>48, <1>49, <1>50, <1>51,
       <1>52, <1>53, <1>54
       DEF Next, Progress, Work, Publish, Compensate, Rollback, Recover, RecoverJournal,
           Failure, Environment

-----------------------------------------------------------------------------
(* The pointer is not left wrong. *)

\* Journals whose recovery writes the pointer or refuses to go on.
WillRepoint(n) == journal[n] \in {"swapped", "rollback_required"}

\* The tree that publication n replaced is in its snapshot, and n is not over.
Aside(n) == journal[n] \in {"named", "snapshotted", "swapped"} /\ snap[n] # NoTree

\* Recovery finds the pointer right, or a journal that makes it right.
PointerMends ==
    \/ pointer \in {slot, NoTree}
    \/ \E n \in Ops : WillRepoint(n) \/ InGap(n)

\* The pointer names the tree in the slot where nothing is under way.
PointerFollowsStep ==
    /\ pc \in {"idle", "compile", "begin", "name", "snapshot", "log", "index", "commit",
               "forget", "unpublish", "log_failed", "index_failed", "r_snapshot", "r_log",
               "r_index"} => pointer \in {slot, NoTree}
    /\ pc \in {"mark_snapshotted", "swap", "mark_swapped", "point"} =>
           pointer \in {call.before, NoTree}
    /\ pc = "abort" /\ snap[call.id] = NoTree => pointer \in {slot, NoTree}
    /\ pc # "putback"
    /\ call.op = "rollback" =>
           /\ pc \in {"r_restore", "r_point", "displace", "reinstate"} =>
                  pointer \in {call.before, NoTree}
           /\ pc = "discard" => pointer \in {slot, NoTree}
           /\ pc \in {"displace", "reinstate"} => snap[call.id] = call.before

\* The same for the steps of recovery.
PointerRecovers ==
    /\ pc \in {"down", "recover", "rec_block", "rec_unpoint"} => PointerMends
    /\ pc = "rec_forget" =>
           \/ pointer \in {slot, NoTree}
           \/ \E n \in Ops \ {call.id} : WillRepoint(n) \/ InGap(n)
    /\ pc = "rec_mark" => Aside(call.id)
    /\ pc \in {"rec_point", "rec_verify", "rec_log", "rec_index"} =>
           journal[call.id] = "swapped"
    /\ pc \in {"rec_verify", "rec_log", "rec_index"} => pointer = call.id

\* Only one tree is aside without a pointer that was written for it: that of the
\* publication under way, or of the one a crash cut short.
OneAside ==
    /\ \A n \in Ops : Aside(n) =>
          \/ n = call.id /\ (call.op = "publish" \/ pc = "rec_mark")
          \/ journal[n] = "swapped" /\ pc \in RecoverySteps \cup {"down"}
          \/ /\ pc \in {"down", "recover", "rec_block", "rec_forget"}
             /\ slot = NoTree
             /\ \/ pointer \in {snap[n], NoTree}
                 \/ \E m \in Ops : WillRepoint(m) /\ (pc = "rec_forget" => m # call.id)
    /\ \A m, n \in Ops : Aside(m) /\ Aside(n) => m = n
    /\ pc = "idle" => \A n \in Ops : ~Aside(n)

PointerInv ==
    "pointer" \notin lost => PointerFollowsStep /\ PointerRecovers /\ OneAside

\* Every step keeps the pointer right, or a journal that rewrites it.
LEMMA PointerInvNext ==
    ASSUME IInv, ReportInv, PointerInv, [Next]_vars
    PROVE  PointerInv'
  <1> USE MaxOpsAssumption DEF IInv, TypeOK, CallMatchesStep, NumbersAreFresh,
          SlotFollowsStep, ReportInv, CallIsNewest, ReportMatchesCall,
          JournalProgress, PublishProgress, WithdrawalProgress,
          RollbackProgress, PointerInv, WillRepoint, Aside, PointerMends,
          PointerFollowsStep, PointerRecovers, OneAside, InGap, dirs, records, history, Goto,
          Report, SetJournal, Ops, Trees, NoTree, NoCall, PublishSteps, RestoreSteps,
          UndoSteps, RollbackSteps, RecoverySteps, Journals
  <1>1. CASE Compile
    BY <1>1 DEF Compile
  <1>2. CASE BeginJournal
    BY <1>2 DEF BeginJournal
  <1>3. CASE NameSnapshot
    BY <1>3 DEF NameSnapshot
  <1>4. CASE TakeSnapshot
    BY <1>4 DEF TakeSnapshot
  <1>5. CASE MarkSnapshotted
    BY <1>5 DEF MarkSnapshotted
  <1>6. CASE Swap
    BY <1>6 DEF Swap
  <1>7. CASE MarkSwapped
    BY <1>7 DEF MarkSwapped
  <1>8. CASE WritePointer
    BY <1>8 DEF WritePointer
  <1>9. CASE LogSuccess
    BY <1>9 DEF LogSuccess
  <1>10. CASE UpdateIndex
    BY <1>10 DEF UpdateIndex
  <1>11. CASE CommitJournal
    BY <1>11 DEF CommitJournal
  <1>12. CASE ForgetJournal
    BY <1>12 DEF ForgetJournal
  <1>13. CASE Abort
    BY SMTT(30), <1>13 DEF Abort
  <1>14. CASE Displace
    BY <1>14 DEF Displace
  <1>15. CASE Reinstate
    BY <1>15 DEF Reinstate
  <1>16. CASE Discard
    BY SMTT(30), <1>16 DEF Discard
  <1>17. CASE PutBack
    BY <1>17 DEF PutBack
  <1>18. CASE Unpublish
    BY <1>18 DEF Unpublish
  <1>19. CASE ForgetFailed
    BY <1>19 DEF ForgetFailed
  <1>20. CASE Repoint
    BY <1>20 DEF Repoint
  <1>21. CASE LogFailure
    BY <1>21 DEF LogFailure
  <1>22. CASE IndexFailure
    BY <1>22 DEF IndexFailure
  <1>23. CASE RollbackSnapshot
    BY <1>23 DEF RollbackSnapshot
  <1>24. CASE RollbackRestore
    BY <1>24 DEF RollbackRestore
  <1>25. CASE RollbackPoint
    BY <1>25 DEF RollbackPoint
  <1>26. CASE RollbackLog
    BY <1>26 DEF RollbackLog
  <1>27. CASE RollbackIndex
    BY <1>27 DEF RollbackIndex
  <1>28. ASSUME NEW n \in Ops, RecoverCommitted(n) PROVE PointerInv'
    <2> USE DEF RecoverCommitted, Pick
    <2>1. \A m \in Ops : Aside(m)' = Aside(m) /\ WillRepoint(m)' = WillRepoint(m) /\ InGap(m)' = InGap(m)
      BY <1>28
    <2>2. pc = "recover" /\ pc' = "recover" /\ call'.op = "recover" /\ call.op = "recover"
      BY <1>28 DEF Calls, Kinds
    <2>3. QED
      <3> HIDE DEF Aside, WillRepoint, InGap
      <3>1. QED
        BY <1>28, <2>1, <2>2
  <1>29. ASSUME NEW n \in Ops, RecoverForward(n) PROVE PointerInv'
    BY <1>29 DEF RecoverForward, Pick, Calls, Kinds
  <1>30. ASSUME NEW n \in Ops, RecoverBack(n) PROVE PointerInv'
    <2>1. CASE "pointer" \notin lost'
      <3>1. PointerFollowsStep'
        BY SMTT(20), <1>30, <2>1 DEF RecoverBack, Pick, Calls, Kinds
      <3>2. PointerRecovers'
        BY SMTT(20), <1>30, <2>1 DEF RecoverBack, Pick, Calls, Kinds
      <3>3. OneAside'
        BY SMTT(20), <1>30, <2>1 DEF RecoverBack, Pick, Calls, Kinds
      <3>4. QED
        BY <3>1, <3>2, <3>3
    <2>2. QED
      BY <2>1
  <1>31. ASSUME NEW n \in Ops, RecoverAbandon(n) PROVE PointerInv'
    BY SMTT(30), <1>31 DEF RecoverAbandon, Pick, Calls, Kinds
  <1>32. ASSUME NEW n \in Ops, RecoverSwapped(n) PROVE PointerInv'
    BY SMTT(30), <1>32 DEF RecoverSwapped, Pick, Calls, Kinds
  <1>33. ASSUME NEW n \in Ops, RecoverLost(n) PROVE PointerInv'
    BY <1>33 DEF RecoverLost, Pick, Calls, Kinds
  <1>34. ASSUME NEW n \in Ops, RecoverRefuse(n) PROVE PointerInv'
    BY <1>34 DEF RecoverRefuse, Calls, Kinds
  <1>35. CASE RecoverMark
    <2> USE DEF RecoverMark
    <2>1. CASE "pointer" \notin lost
      <3>1. /\ call.op = "recover" /\ call.id \in Ops /\ Aside(call.id)
            /\ journal' = [journal EXCEPT ![call.id] = "swapped"] /\ pc' = "rec_point"
        BY <1>35, <2>1
      <3>2. \A n \in Ops : Aside(n)' => n = call.id
        BY <1>35, <2>1, <3>1
      <3>3. OneAside'
        BY <1>35, <3>1, <3>2
      <3>4. PointerFollowsStep' /\ PointerRecovers'
        BY <1>35, <3>1
      <3>5. QED
        BY <3>3, <3>4
    <2>2. QED
      BY <1>35, <2>1
  <1>36. CASE RecoverPoint
    BY <1>36 DEF RecoverPoint
  <1>37. CASE RecoverVerify
    BY <1>37 DEF RecoverVerify
  <1>38. CASE RecoverLog
    BY <1>38 DEF RecoverLog
  <1>39. CASE RecoverIndex
    BY <1>39 DEF RecoverIndex
  <1>40. CASE RecoverUnpoint
    BY <1>40 DEF RecoverUnpoint
  <1>41. CASE RecoverForget
    <2>1. CASE "pointer" \notin lost'
      <3>1. PointerFollowsStep'
        BY SMTT(20), <1>41, <2>1 DEF RecoverForget
      <3>2. PointerRecovers'
        BY SMTT(20), <1>41, <2>1 DEF RecoverForget
      <3>3. OneAside'
        BY SMTT(20), <1>41, <2>1 DEF RecoverForget
      <3>4. QED
        BY <3>1, <3>2, <3>3
    <2>2. QED
      BY <2>1
  <1>42. CASE RecoverBlock
    BY <1>42 DEF RecoverBlock
  <1>43. CASE RecoverDone
    BY <1>43 DEF RecoverDone
  <1>44. CASE PublishFault
    BY <1>44, FaultCost DEF PublishFault, Failure, Here, FaultWindow
  <1>45. CASE UndoFault
    BY SMTT(30), <1>45, FaultCost DEF UndoFault, Failure, Here, FaultWindow
  <1>46. CASE RollbackFault
    <2>1. CASE "pointer" \notin lost'
      <3>1. /\ "pointer" \notin lost /\ pc \notin {"displace", "reinstate"}
            /\ call.op = "rollback" /\ slot' = slot /\ snap' = snap /\ journal' = journal
            /\ pointer' = pointer /\ call' = call /\ pc' \in {"displace", "idle"}
        BY <1>46, <2>1, FaultCost DEF RollbackFault, Failure, Here, FaultWindow
      <3>2. PointerFollowsStep'
        BY <1>46, <3>1 DEF RollbackFault
      <3>3. PointerRecovers' /\ OneAside'
        BY <1>46, <3>1
      <3>4. QED
        BY <3>2, <3>3
    <2>2. QED
      BY <2>1
  <1>47. CASE RecoverFault
    BY SMTT(30), <1>47, FaultCost DEF RecoverFault, Failure, Here, FaultWindow
  <1>48. CASE MarkFault
    <2>1. CASE "pointer" \notin lost'
      <3>1. /\ "pointer" \notin lost /\ pc = "rec_block" /\ pc' = "down" /\ call' = NoCall
            /\ call.op = "recover" /\ slot' = slot /\ snap' = snap /\ journal' = journal
            /\ pointer' = pointer
        BY <1>48, <2>1, FaultCost DEF MarkFault, Failure
      <3>2. PointerFollowsStep' /\ PointerRecovers'
        BY <3>1
      <3>3. OneAside'
        BY <3>1
      <3>4. QED
        BY <3>2, <3>3
    <2>2. QED
      BY <2>1
  <1>49. CASE PublishStart
    BY <1>49 DEF PublishStart
  <1>50. CASE RollbackStart
    BY <1>50 DEF RollbackStart
  <1>51. CASE Crash
    <2>1. CASE "pointer" \notin lost'
      <3>1. /\ "pointer" \notin lost
            /\ call.op = "publish" => pc \notin {"mark_swapped", "abort", "displace",
                      "reinstate", "discard", "forget_failed", "repoint"}
            /\ call.op = "rollback" => pc \notin {"r_restore", "r_point", "displace", "reinstate"}
            /\ pc # "rec_mark"
        BY <1>51, <2>1, CrashCost DEF Here, CrashWindow
      <3>2. PointerFollowsStep'
        BY <1>51, <3>1 DEF Crash
      <3>3. PointerMends'
        <4> USE DEF Crash
        <4>1. CASE pc = "point"
          BY <1>51, <3>1, <4>1
        <4>2. CASE pc \in {"mark_snapshotted", "swap"} /\ call.before # NoTree
          <5>1. PICK m \in Ops : m = call.id
            BY <4>2
          <5>2. InGap(m)'
            BY <1>51, <3>1, <4>2, <5>1
          <5>3. QED
            BY <5>2
        <4>3. CASE pc = "swap" /\ call.before = NoTree
          BY <1>51, <3>1, <4>3
        <4>4. CASE pc \in RecoverySteps
          BY <1>51, <3>1, <4>4
        <4>5. CASE pc \notin {"point", "mark_snapshotted", "swap"} \cup RecoverySteps
          BY <1>51, <3>1, <4>5 DEF Steps
        <4>6. QED
          BY <1>51, <3>1, <4>1, <4>2, <4>3, <4>4, <4>5
      <3>4. PointerRecovers'
        BY <1>51, <3>1, <3>3 DEF Crash
      <3>5. OneAside'
        <4> USE DEF Crash
        <4>1. \A n \in Ops : Aside(n)' <=> Aside(n)
          BY <1>51
        <4>2. CASE call.op = "publish"
          <5>1. pc \notin RecoverySteps \cup {"down", "idle"}
            BY <1>51, <3>1, <4>2
          <5>2. ASSUME NEW n \in Ops, Aside(n)
                PROVE  \/ journal[n] = "swapped"
                       \/ slot = NoTree /\ pointer \in {snap[n], NoTree}
            <6>1. n = call.id
              BY <5>1, <5>2, <3>1
            <6>2. CASE pc \in {"mark_snapshotted", "swap"}
              BY <1>51, <3>1, <4>2, <5>2, <6>1, <6>2
            <6>3. CASE pc \notin {"mark_snapshotted", "swap"}
              <7>1. pc \in {"compile", "begin", "name", "snapshot", "point", "log", "index",
                           "commit", "forget", "unpublish", "log_failed", "index_failed"}
                BY <1>51, <3>1, <4>2, <6>3 DEF Steps
              <7>2. CASE pc \in {"unpublish", "log_failed", "index_failed"}
                BY <4>2, <5>2, <6>1, <7>2
              <7>3. CASE pc \in {"compile", "begin", "name", "snapshot"}
                BY <4>2, <5>2, <6>1, <7>3
              <7>4. CASE pc \in {"point", "log", "index", "commit", "forget"}
                BY <4>2, <5>2, <6>1, <7>4
              <7>5. QED
                BY <7>1, <7>2, <7>3, <7>4
            <6>4. QED
              BY <6>2, <6>3
          <5>3. QED
            BY <1>51, <3>1, <4>1, <5>2
        <4>3. CASE call.op # "publish"
          BY SMTT(30), <1>51, <3>1, <4>1, <4>3
        <4>4. QED
          BY <4>2, <4>3
      <3>6. QED
        BY <3>2, <3>4, <3>5
    <2>2. QED
      BY <2>1
  <1>52. CASE Exit
    BY <1>52 DEF Exit
  <1>53. CASE Start
    <2>1. CASE "pointer" \notin lost'
      <3>1. PointerFollowsStep'
        BY SMTT(20), <1>53, <2>1 DEF Start
      <3>2. PointerRecovers'
        BY SMTT(20), <1>53, <2>1 DEF Start
      <3>3. OneAside'
        BY SMTT(20), <1>53, <2>1 DEF Start
      <3>4. QED
        BY <3>1, <3>2, <3>3
    <2>2. QED
      BY <2>1
  <1>54. CASE UNCHANGED vars
    BY <1>54 DEF vars
  <1>55. QED
    BY <1>1, <1>2, <1>3, <1>4, <1>5, <1>6, <1>7, <1>8, <1>9, <1>10, <1>11,
       <1>12, <1>13, <1>14, <1>15, <1>16, <1>17, <1>18, <1>19, <1>20, <1>21,
       <1>22, <1>23, <1>24, <1>25, <1>26, <1>27, <1>28, <1>29, <1>30, <1>31,
       <1>32, <1>33, <1>34, <1>35, <1>36, <1>37, <1>38, <1>39, <1>40, <1>41,
       <1>42, <1>43, <1>44, <1>45, <1>46, <1>47, <1>48, <1>49, <1>50, <1>51,
       <1>52, <1>53, <1>54
       DEF Next, Progress, Work, Publish, Compensate, Rollback, Recover, RecoverJournal,
           Failure, Environment

-----------------------------------------------------------------------------
(* Where trees are. *)

\* Nothing holds tree t, and nothing says it was published.
Nowhere(t) == slot # t /\ t \notin released /\ \A n \in Ops : snap[n] # t

\* A tree is in one place at most until its publication is completed: the tree of
\* a call to come is nowhere, a staged tree only in staging, and the tree being
\* published in no snapshot.
TreesInv ==
    /\ \A t \in Ops : t > clock => Nowhere(t)
    /\ \A t \in staging : Nowhere(t) /\ t <= clock
    /\ call.op = "publish" =>
          /\ pc \in {"compile", "begin", "name", "snapshot", "mark_snapshotted", "swap"} =>
                 Nowhere(call.id)
          /\ pc \in PublishSteps \cup UndoSteps \cup RestoreSteps =>
                 call.id \notin released /\ \A n \in Ops : snap[n] # call.id
    /\ pc \in {"begin", "name", "snapshot", "mark_snapshotted", "swap"} => call.id \in staging
    /\ pc \in {"reinstate", "putback"} => call.moved \notin staging /\ call.moved <= clock

\* While the slot is empty, the snapshot of the call in progress is one that its
\* journal, or the rollback itself, puts back.
AsideInv ==
    "slot" \notin lost =>
        /\ slot = NoTree /\ call.id \in Ops /\ snap[call.id] # NoTree =>
               Held(call.id) \/ RollbackHolds
        /\ pc \in {"reinstate", "discard"} /\ call.op = "rollback" => call.moved = NoTree

\* Every step keeps a tree in one place at most before its publication is completed.
LEMMA TreesInvNext ==
    ASSUME IInv, ReportInv, TreesInv, [Next]_vars
    PROVE  TreesInv'
  <1> USE MaxOpsAssumption DEF IInv, TypeOK, CallMatchesStep, NumbersAreFresh,
          SlotFollowsStep, ReportInv, CallIsNewest, JournalProgress, PublishProgress, RollbackProgress,
          TreesInv, Nowhere, dirs, records, history, Goto, Report,
          SetJournal, Ops, Trees, NoTree, NoCall, PublishSteps, RestoreSteps, UndoSteps,
          RollbackSteps, RecoverySteps
  <1>1. CASE Compile
    BY <1>1 DEF Compile
  <1>2. CASE BeginJournal
    BY <1>2 DEF BeginJournal
  <1>3. CASE NameSnapshot
    BY <1>3 DEF NameSnapshot
  <1>4. CASE TakeSnapshot
    BY <1>4 DEF TakeSnapshot
  <1>5. CASE MarkSnapshotted
    BY <1>5 DEF MarkSnapshotted
  <1>6. CASE Swap
    BY <1>6 DEF Swap
  <1>7. CASE MarkSwapped
    BY <1>7 DEF MarkSwapped
  <1>8. CASE WritePointer
    BY <1>8 DEF WritePointer
  <1>9. CASE LogSuccess
    BY <1>9 DEF LogSuccess
  <1>10. CASE UpdateIndex
    BY <1>10 DEF UpdateIndex
  <1>11. CASE CommitJournal
    BY <1>11 DEF CommitJournal
  <1>12. CASE ForgetJournal
    BY <1>12 DEF ForgetJournal
  <1>13. CASE Abort
    BY <1>13 DEF Abort
  <1>14. CASE Displace
    BY <1>14 DEF Displace
  <1>15. CASE Reinstate
    BY <1>15 DEF Reinstate
  <1>16. CASE Discard
    BY <1>16 DEF Discard
  <1>17. CASE PutBack
    BY SMTT(40), <1>17 DEF PutBack
  <1>18. CASE Unpublish
    BY <1>18 DEF Unpublish
  <1>19. CASE ForgetFailed
    BY <1>19 DEF ForgetFailed
  <1>20. CASE Repoint
    BY <1>20 DEF Repoint
  <1>21. CASE LogFailure
    BY <1>21 DEF LogFailure
  <1>22. CASE IndexFailure
    BY <1>22 DEF IndexFailure
  <1>23. CASE RollbackSnapshot
    BY <1>23 DEF RollbackSnapshot
  <1>24. CASE RollbackRestore
    BY <1>24 DEF RollbackRestore
  <1>25. CASE RollbackPoint
    BY <1>25 DEF RollbackPoint
  <1>26. CASE RollbackLog
    BY <1>26 DEF RollbackLog
  <1>27. CASE RollbackIndex
    BY <1>27 DEF RollbackIndex
  <1>28. ASSUME NEW n \in Ops, RecoverCommitted(n) PROVE TreesInv'
    BY <1>28 DEF RecoverCommitted, Pick, InGap, Calls, Kinds
  <1>29. ASSUME NEW n \in Ops, RecoverForward(n) PROVE TreesInv'
    BY <1>29 DEF RecoverForward, Pick, InGap, Calls, Kinds
  <1>30. ASSUME NEW n \in Ops, RecoverBack(n) PROVE TreesInv'
    BY <1>30 DEF RecoverBack, Pick, InGap, Calls, Kinds
  <1>31. ASSUME NEW n \in Ops, RecoverAbandon(n) PROVE TreesInv'
    BY <1>31 DEF RecoverAbandon, Pick, InGap, Calls, Kinds
  <1>32. ASSUME NEW n \in Ops, RecoverSwapped(n) PROVE TreesInv'
    BY <1>32 DEF RecoverSwapped, Pick, InGap, Calls, Kinds
  <1>33. ASSUME NEW n \in Ops, RecoverLost(n) PROVE TreesInv'
    BY <1>33 DEF RecoverLost, Pick, InGap, Calls, Kinds
  <1>34. ASSUME NEW n \in Ops, RecoverRefuse(n) PROVE TreesInv'
    BY <1>34 DEF RecoverRefuse, InGap, Calls, Kinds
  <1>35. CASE RecoverMark
    BY <1>35 DEF RecoverMark
  <1>36. CASE RecoverPoint
    BY <1>36 DEF RecoverPoint
  <1>37. CASE RecoverVerify
    BY <1>37 DEF RecoverVerify
  <1>38. CASE RecoverLog
    BY <1>38 DEF RecoverLog
  <1>39. CASE RecoverIndex
    BY <1>39 DEF RecoverIndex
  <1>40. CASE RecoverUnpoint
    BY <1>40 DEF RecoverUnpoint
  <1>41. CASE RecoverForget
    BY <1>41 DEF RecoverForget
  <1>42. CASE RecoverBlock
    BY <1>42 DEF RecoverBlock
  <1>43. CASE RecoverDone
    BY <1>43 DEF RecoverDone
  <1>44. CASE PublishFault
    BY <1>44 DEF PublishFault, Lose
  <1>45. CASE UndoFault
    BY <1>45 DEF UndoFault, Lose
  <1>46. CASE RollbackFault
    BY <1>46 DEF RollbackFault, Lose
  <1>47. CASE RecoverFault
    BY <1>47 DEF RecoverFault, Lose
  <1>48. CASE MarkFault
    BY <1>48 DEF MarkFault, Lose
  <1>49. CASE PublishStart
    BY SMTT(40), <1>49 DEF PublishStart
  <1>50. CASE RollbackStart
    <2> USE DEF RollbackStart
    <2>1. /\ slot' = slot /\ snap' = snap /\ released' = released /\ staging' = staging
          /\ clock' = clock + 1 /\ pc' \in {"r_snapshot", "r_restore"}
      BY <1>50
    <2>2. call'.op = "rollback"
      BY <1>50
    <2>3. \A t \in Ops : Nowhere(t)' <=> Nowhere(t)
      BY <2>1
    <2> HIDE DEF Nowhere, RollbackStart
    <2>4. QED
      BY <2>1, <2>2, <2>3
  <1>51. CASE Crash
    BY <1>51 DEF Crash, Lose
  <1>52. CASE Exit
    BY <1>52 DEF Exit
  <1>53. CASE Start
    BY <1>53 DEF Start
  <1>54. CASE UNCHANGED vars
    BY <1>54 DEF vars
  <1>55. QED
    BY <1>1, <1>2, <1>3, <1>4, <1>5, <1>6, <1>7, <1>8, <1>9, <1>10, <1>11,
       <1>12, <1>13, <1>14, <1>15, <1>16, <1>17, <1>18, <1>19, <1>20, <1>21,
       <1>22, <1>23, <1>24, <1>25, <1>26, <1>27, <1>28, <1>29, <1>30, <1>31,
       <1>32, <1>33, <1>34, <1>35, <1>36, <1>37, <1>38, <1>39, <1>40, <1>41,
       <1>42, <1>43, <1>44, <1>45, <1>46, <1>47, <1>48, <1>49, <1>50, <1>51,
       <1>52, <1>53, <1>54
       DEF Next, Progress, Work, Publish, Compensate, Rollback, Recover, RecoverJournal,
           Failure, Environment

\* Every step keeps the snapshot of the call in progress claimed while the slot is empty.
LEMMA AsideInvNext ==
    ASSUME IInv, ReportInv, EmptyInv, AsideInv, [Next]_vars
    PROVE  AsideInv'
  <1> USE MaxOpsAssumption DEF IInv, TypeOK, CallMatchesStep, NumbersAreFresh,
          SlotFollowsStep, ReportInv, CallIsNewest, JournalProgress, PublishProgress, WithdrawalProgress, RollbackProgress,
          EmptyInv, Held, NothingPublished, RollbackHolds, EmptyIsHeld, FirstIsHeld,
          PublishHolds, DroppedAfterMove, JournalEnds, AsideInv, dirs, records, history, Goto, Report,
          SetJournal, Ops, Trees, NoTree, NoCall, PublishSteps, RestoreSteps, UndoSteps,
          RollbackSteps, RecoverySteps, Journals
  <1>1. CASE Compile
    BY <1>1 DEF Compile
  <1>2. CASE BeginJournal
    BY <1>2 DEF BeginJournal
  <1>3. CASE NameSnapshot
    BY <1>3 DEF NameSnapshot
  <1>4. CASE TakeSnapshot
    BY <1>4 DEF TakeSnapshot
  <1>5. CASE MarkSnapshotted
    BY <1>5 DEF MarkSnapshotted
  <1>6. CASE Swap
    BY <1>6 DEF Swap
  <1>7. CASE MarkSwapped
    BY <1>7 DEF MarkSwapped
  <1>8. CASE WritePointer
    BY <1>8 DEF WritePointer
  <1>9. CASE LogSuccess
    BY <1>9 DEF LogSuccess
  <1>10. CASE UpdateIndex
    BY <1>10 DEF UpdateIndex
  <1>11. CASE CommitJournal
    BY <1>11 DEF CommitJournal
  <1>12. CASE ForgetJournal
    BY <1>12 DEF ForgetJournal
  <1>13. CASE Abort
    BY <1>13 DEF Abort
  <1>14. CASE Displace
    BY <1>14 DEF Displace
  <1>15. CASE Reinstate
    BY <1>15 DEF Reinstate
  <1>16. CASE Discard
    BY <1>16 DEF Discard
  <1>17. CASE PutBack
    BY <1>17 DEF PutBack
  <1>18. CASE Unpublish
    BY <1>18 DEF Unpublish
  <1>19. CASE ForgetFailed
    BY <1>19 DEF ForgetFailed
  <1>20. CASE Repoint
    BY <1>20 DEF Repoint
  <1>21. CASE LogFailure
    BY <1>21 DEF LogFailure
  <1>22. CASE IndexFailure
    BY <1>22 DEF IndexFailure
  <1>23. CASE RollbackSnapshot
    BY <1>23 DEF RollbackSnapshot
  <1>24. CASE RollbackRestore
    BY <1>24 DEF RollbackRestore
  <1>25. CASE RollbackPoint
    BY <1>25 DEF RollbackPoint
  <1>26. CASE RollbackLog
    BY <1>26 DEF RollbackLog
  <1>27. CASE RollbackIndex
    BY <1>27 DEF RollbackIndex
  <1>28. ASSUME NEW n \in Ops, RecoverCommitted(n) PROVE AsideInv'
    BY <1>28 DEF RecoverCommitted, Pick, InGap, Calls, Kinds
  <1>29. ASSUME NEW n \in Ops, RecoverForward(n) PROVE AsideInv'
    BY <1>29 DEF RecoverForward, Pick, InGap, Calls, Kinds
  <1>30. ASSUME NEW n \in Ops, RecoverBack(n) PROVE AsideInv'
    BY <1>30 DEF RecoverBack, Pick, InGap, Calls, Kinds
  <1>31. ASSUME NEW n \in Ops, RecoverAbandon(n) PROVE AsideInv'
    BY <1>31 DEF RecoverAbandon, Pick, InGap, Calls, Kinds
  <1>32. ASSUME NEW n \in Ops, RecoverSwapped(n) PROVE AsideInv'
    BY <1>32 DEF RecoverSwapped, Pick, InGap, Calls, Kinds
  <1>33. ASSUME NEW n \in Ops, RecoverLost(n) PROVE AsideInv'
    BY <1>33 DEF RecoverLost, Pick, InGap, Calls, Kinds
  <1>34. ASSUME NEW n \in Ops, RecoverRefuse(n) PROVE AsideInv'
    BY <1>34 DEF RecoverRefuse, InGap, Calls, Kinds
  <1>35. CASE RecoverMark
    BY <1>35 DEF RecoverMark
  <1>36. CASE RecoverPoint
    BY <1>36 DEF RecoverPoint
  <1>37. CASE RecoverVerify
    BY <1>37 DEF RecoverVerify
  <1>38. CASE RecoverLog
    BY <1>38 DEF RecoverLog
  <1>39. CASE RecoverIndex
    BY <1>39 DEF RecoverIndex
  <1>40. CASE RecoverUnpoint
    BY <1>40 DEF RecoverUnpoint
  <1>41. CASE RecoverForget
    BY <1>41 DEF RecoverForget
  <1>42. CASE RecoverBlock
    BY <1>42 DEF RecoverBlock
  <1>43. CASE RecoverDone
    BY <1>43 DEF RecoverDone
  <1>44. CASE PublishFault
    BY <1>44, FaultCost DEF PublishFault, Failure, Here, FaultWindow
  <1>45. CASE UndoFault
    BY <1>45, FaultCost DEF UndoFault, Failure, Here, FaultWindow
  <1>46. CASE RollbackFault
    BY <1>46, FaultCost DEF RollbackFault, Failure, Here, FaultWindow
  <1>47. CASE RecoverFault
    <2>1. CASE "slot" \notin lost
      <3>1. CASE pc = "recover"
        <4>1. PICK n \in Ops : /\ journal[n] \notin {"none", "rollback_required"}
                              /\ call' = [call EXCEPT !.id = n]
          BY <1>47, <3>1 DEF RecoverFault
        <4>2. call'.id = n /\ pc' = "rec_block"
          BY <1>47, <4>1 DEF RecoverFault, Calls
        <4>3. slot = NoTree /\ snap[n] # NoTree => Held(n)
          BY <2>1, <4>1
        <4>4. QED
          BY <1>47, <4>2, <4>3 DEF RecoverFault
      <3>2. CASE pc # "recover"
        BY <1>47, <2>1, <3>2 DEF RecoverFault
      <3>3. QED
        BY <3>1, <3>2
    <2>2. QED
      BY <1>47, <2>1, FaultCost DEF Failure
  <1>48. CASE MarkFault
    BY <1>48, FaultCost DEF MarkFault, Failure, Here, FaultWindow
  <1>49. CASE PublishStart
    BY <1>49 DEF PublishStart
  <1>50. CASE RollbackStart
    BY <1>50 DEF RollbackStart
  <1>51. CASE Crash
    BY <1>51, CrashCost DEF Crash, Here, CrashWindow
  <1>52. CASE Exit
    BY <1>52 DEF Exit
  <1>53. CASE Start
    BY <1>53 DEF Start
  <1>54. CASE UNCHANGED vars
    BY <1>54 DEF vars
  <1>55. QED
    BY <1>1, <1>2, <1>3, <1>4, <1>5, <1>6, <1>7, <1>8, <1>9, <1>10, <1>11,
       <1>12, <1>13, <1>14, <1>15, <1>16, <1>17, <1>18, <1>19, <1>20, <1>21,
       <1>22, <1>23, <1>24, <1>25, <1>26, <1>27, <1>28, <1>29, <1>30, <1>31,
       <1>32, <1>33, <1>34, <1>35, <1>36, <1>37, <1>38, <1>39, <1>40, <1>41,
       <1>42, <1>43, <1>44, <1>45, <1>46, <1>47, <1>48, <1>49, <1>50, <1>51,
       <1>52, <1>53, <1>54
       DEF Next, Progress, Work, Publish, Compensate, Rollback, Recover, RecoverJournal,
           Failure, Environment

-----------------------------------------------------------------------------
(* The guarantees. *)

\* The strengthened inductive invariant.
GuaranteeInv ==
    /\ IInv /\ ReportInv /\ ServiceInv /\ EmptyInv /\ PointerInv /\ TreesInv /\ AsideInv

\* An empty data home with no process satisfies it.
LEMMA InitGuaranteeInv == Init => GuaranteeInv
  <1> SUFFICES ASSUME Init PROVE GuaranteeInv
    OBVIOUS
  <1> USE MaxOpsAssumption DEF Init, NoCall, NoTree, Ops
  <1>1. IInv
    BY InitIInv
  <1>2. ReportInv
    BY DEF ReportInv, CallIsNewest, ReportMatchesCall, JournalProgress, PublishProgress,
       WithdrawalProgress, RollbackProgress, PublishedVisible, FailureRestores,
       RollbackReversible
  <1>3. ServiceInv
    BY DEF ServiceInv, Unblocked, OneToRecover, SwappedInPlace, Harmless
  <1>4. EmptyInv
    BY DEF EmptyInv, EmptyIsHeld, FirstIsHeld, PublishHolds, DroppedAfterMove, JournalEnds,
       NothingPublished
  <1>5. PointerInv
    BY DEF PointerInv, PointerFollowsStep, PointerRecovers, PointerMends, OneAside, Aside
  <1>6. TreesInv
    BY DEF TreesInv, Nowhere
  <1>7. AsideInv
    BY DEF AsideInv
  <1>8. QED
    BY <1>1, <1>2, <1>3, <1>4, <1>5, <1>6, <1>7 DEF GuaranteeInv

\* Every step of the Publisher keeps it.
LEMMA NextGuaranteeInv == GuaranteeInv /\ IInv' /\ [Next]_vars => GuaranteeInv'
  BY ReportInvNext, ServiceInvNext, EmptyInvNext, PointerInvNext, TreesInvNext, AsideInvNext
     DEF GuaranteeInv

\* The strengthened invariant holds in every reachable state.
THEOREM GuaranteesInductive == Spec => []GuaranteeInv
  <1>1. Spec => []IInv
    BY Inductive
  <1>2. QED
    BY <1>1, InitGuaranteeInv, NextGuaranteeInv, PTL DEF Spec

\* When publish() returns, slot, pointer, log, index and snapshot agree with it.
THEOREM PublicationVisible == Spec => []PublishedVisible
  <1>1. GuaranteeInv => PublishedVisible
    BY DEF GuaranteeInv, ReportInv
  <1>2. QED
    BY <1>1, GuaranteesInductive, PTL

\* When publish() raises "restored" or "rejected", the prior state is back.
THEOREM PriorStateRestored == Spec => []FailureRestores
  <1>1. GuaranteeInv => FailureRestores
    BY DEF GuaranteeInv, ReportInv
  <1>2. QED
    BY <1>1, GuaranteesInductive, PTL

\* A rollback_latest that returned can be rolled back.
THEOREM RollbackCanBeUndone == Spec => []RollbackReversible
  <1>1. GuaranteeInv => RollbackReversible
    BY DEF GuaranteeInv, ReportInv
  <1>2. QED
    BY <1>1, GuaranteesInductive, PTL

\* Recovery refuses to go on only after a failure in the window of the service.
THEOREM RecoveryNeedsNoHelp == Spec => []NeverBlocked
  <1>1. GuaranteeInv => NeverBlocked
    BY DEF GuaranteeInv, ServiceInv, Unblocked, NeverBlocked
  <1>2. QED
    BY <1>1, GuaranteesInductive, PTL

\* Between calls the slot of a published Skill holds a tree.
THEOREM SlotNeverLeftEmpty == Spec => []NeverLeftEmpty
  <1>1. GuaranteeInv => NeverLeftEmpty
    <2> SUFFICES ASSUME GuaranteeInv, Quiet, released # {}, "slot" \notin lost
                 PROVE  slot # NoTree
      BY DEF NeverLeftEmpty
    <2>1. ~RollbackHolds /\ \A n \in Ops : ~Held(n)
      BY DEF Quiet, RollbackHolds, Held
    <2>2. ~NothingPublished
      BY DEF NothingPublished, GuaranteeInv, IInv, TypeOK
    <2>3. QED
      BY <2>1, <2>2 DEF GuaranteeInv, EmptyInv, EmptyIsHeld
  <1>2. QED
    BY <1>1, GuaranteesInductive, PTL

\* Between calls the active pointer names the tree in the slot, or is absent.
THEOREM PointerNeverLeftWrong == Spec => []PointerAgrees
  <1>1. GuaranteeInv => PointerAgrees
    BY DEF GuaranteeInv, PointerInv, PointerFollowsStep, PointerAgrees, Quiet
  <1>2. QED
    BY <1>1, GuaranteesInductive, PTL

-----------------------------------------------------------------------------
(* The Publisher implements ReleaseSlot. *)

\* The trees a reader or a later rollback can still get.
Holds == ({snap[n] : n \in Ops} \cup {slot}) \ {NoTree}

\* A nonempty set of numbers of calls has a greatest one.
LEMMA NewestExists ==
    ASSUME NEW S \in SUBSET Ops, S # {}
    PROVE  \E n \in S : \A m \in S : m <= n
  <1> DEFINE T == {k \in Nat : \E n \in S : k = MaxOps - n}
  <1>1. T \subseteq Nat /\ T # {}
    <2>1. PICK n \in S : TRUE
      OBVIOUS
    <2>2. MaxOps - n \in T
      BY <2>1, MaxOpsAssumption DEF Ops
    <2>3. QED
      BY <2>2
  <1>2. PICK k \in T : \A j \in T : <<j, k>> \notin OpToRel(<, Nat)
    BY <1>1, NatLessThanWellFounded, WFMin
  <1>3. PICK n \in S : k = MaxOps - n
    OBVIOUS
  <1>4. ASSUME NEW m \in S PROVE m <= n
    <2>1. MaxOps - m \in T
      BY MaxOpsAssumption DEF Ops
    <2>2. ~(MaxOps - m < MaxOps - n)
      BY <1>2, <1>3, <2>1 DEF OpToRel
    <2>3. QED
      BY <2>2, MaxOpsAssumption DEF Ops
  <1>5. QED
    BY <1>4

\* What the refinement mapping makes of the slot and the snapshots.
MappingFacts ==
    /\ slot # NoTree => CurrentTree = slot
    /\ SetAside = {} => CurrentTree = slot
    /\ SetAside # {} => slot = NoTree /\ \E n \in SetAside : CurrentTree = snap[n]
    /\ \A n \in SetAside : (\A m \in SetAside : m <= n) => CurrentTree = snap[n]
    /\ CurrentTree \in Holds \cup {NoTree}
    /\ Archive = Holds \ {CurrentTree}
    /\ Release!Kept = Holds

\* What the mapping shows of the abstract state, read off the directories.
LEMMA MappingIs == TypeOK => MappingFacts
  <1> SUFFICES ASSUME TypeOK PROVE MappingFacts
    OBVIOUS
  <1> DEFINE newest == CHOOSE n \in SetAside : \A m \in SetAside : m <= n
  <1>1. SetAside \subseteq Ops /\ (SetAside # {} => slot = NoTree)
    BY DEF SetAside
  <1>2. SetAside = {} => CurrentTree = slot
    BY DEF CurrentTree
  <1>3. ASSUME SetAside # {}
        PROVE  newest \in SetAside /\ (\A m \in SetAside : m <= newest) /\ CurrentTree = snap[newest]
    BY <1>1, <1>3, NewestExists DEF CurrentTree
  <1>4. ASSUME NEW n \in SetAside, \A m \in SetAside : m <= n
        PROVE  CurrentTree = snap[n]
    <2>1. newest \in SetAside /\ newest <= n /\ n <= newest /\ CurrentTree = snap[newest]
      BY <1>3, <1>4
    <2> HIDE DEF newest
    <2>2. n = newest
      BY <1>1, <2>1 DEF Ops
    <2>3. QED
      BY <2>1, <2>2
  <1>5. CurrentTree \in Holds \cup {NoTree}
    BY <1>1, <1>2, <1>3 DEF Holds
  <1>6. Archive = Holds \ {CurrentTree}
    BY <1>1, <1>2, <1>3 DEF Holds, Archive
  <1>7. Release!Kept = Holds
    <2>1. NoTree \notin Holds
      BY DEF Holds
    <2>2. Release!Kept = Archive \cup ({CurrentTree} \ {NoTree})
      BY DEF Release!Kept
    <2>3. QED
      BY <1>5, <1>6, <2>1, <2>2
  <1>8. QED
    BY <1>1, <1>2, <1>3, <1>4, <1>5, <1>6, <1>7 DEF MappingFacts

\* The same of the state after the step.
LEMMA MappingWillBe == TypeOK' => MappingFacts'
  BY MappingIs, PTL

\* A step of the abstract specification, or none.
ReleaseStep == [Release!RNext]_(Release!rvars)

\* What a step that hits no window of the slot must do to be a step of ReleaseSlot.
LEMMA ViewKept ==
    ASSUME MappingFacts, MappingFacts', "slot" \notin lost, "slot" \notin lost',
           CurrentTree' = CurrentTree, Holds' = Holds, released' = released
    PROVE  ReleaseStep
  <1>1. Archive' = Archive
    BY DEF MappingFacts
  <1>2. ("slot" \notin lost)' = ("slot" \notin lost)
    OBVIOUS
  <1>3. QED
    BY <1>1, <1>2 DEF ReleaseStep, Release!rvars

\* Completing the publication of the current tree is Confirm.
LEMMA ViewConfirms ==
    ASSUME MappingFacts, MappingFacts', "slot" \notin lost, "slot" \notin lost',
           CurrentTree' = CurrentTree, Holds' = Holds, CurrentTree # NoTree,
           released' = released \cup {CurrentTree}
    PROVE  ReleaseStep
  <1>1. Archive' = Archive
    BY DEF MappingFacts
  <1>2. Release!Confirm
    BY <1>1 DEF Release!Confirm
  <1>3. QED
    BY <1>2 DEF ReleaseStep, Release!RNext, Release!Promised

\* A new tree that becomes current, with the old one archived, is Install.
LEMMA ViewInstalls ==
    ASSUME MappingFacts, MappingFacts', "slot" \notin lost, "slot" \notin lost',
           CurrentTree' \in Ops, CurrentTree' \notin Holds \cup released,
           Holds' = Holds \cup {CurrentTree'}, released' = released
    PROVE  ReleaseStep
  <1>1. Archive' = Release!Kept
    BY DEF MappingFacts
  <1>2. CurrentTree' \in Trees \ {NoTree} /\ CurrentTree' \notin Release!Kept \cup released
    BY MaxOpsAssumption DEF MappingFacts, Ops, Trees, NoTree
  <1>3. Release!Install
    BY <1>1, <1>2 DEF Release!Install
  <1>4. QED
    BY <1>3 DEF ReleaseStep, Release!RNext, Release!Promised

\* Discarding a current tree that was not confirmed is Withdraw.
LEMMA ViewWithdraws ==
    ASSUME MappingFacts, MappingFacts', "slot" \notin lost, "slot" \notin lost',
           CurrentTree \notin released, Holds' = Holds \ {CurrentTree}, released' = released,
           CurrentTree' = NoTree => Holds' = {}
    PROVE  ReleaseStep
  <1>1. Archive = Holds' /\ Archive' = Holds' \ {CurrentTree'}
    BY DEF MappingFacts
  <1>2. \/ CurrentTree' \in Archive
        \/ Archive = {} /\ CurrentTree' = NoTree
    BY <1>1 DEF MappingFacts
  <1>3. Release!Withdraw
    BY <1>1, <1>2 DEF Release!Withdraw
  <1>4. QED
    BY <1>3 DEF ReleaseStep, Release!RNext, Release!Promised

\* A tree of the archive that becomes current again is Revert.
LEMMA ViewReverts ==
    ASSUME MappingFacts, MappingFacts', "slot" \notin lost, "slot" \notin lost',
           CurrentTree' # NoTree, Holds' = Holds, released' = released
    PROVE  ReleaseStep
  <1>1. CASE CurrentTree' = CurrentTree
    BY <1>1, ViewKept
  <1>2. CASE CurrentTree' # CurrentTree
    <2>1. CurrentTree' \in Archive /\ Archive' = Release!Kept \ {CurrentTree'}
      BY <1>2 DEF MappingFacts
    <2>2. Release!Revert
      BY <2>1 DEF Release!Revert
    <2>3. QED
      BY <2>2 DEF ReleaseStep, Release!RNext, Release!Promised
  <1>3. QED
    BY <1>1, <1>2

\* A failure in the window of the slot withdraws the promise.
LEMMA ViewWithdrawn ==
    ASSUME "slot" \in lost'
    PROVE  ReleaseStep
  BY DEF ReleaseStep, Release!RNext, Release!Withdrawn

\* A step that moves no tree shows the same view, if it sets none aside anew.
LEMMA NothingMoved ==
    ASSUME MappingFacts, MappingFacts', "slot" \notin lost, "slot" \notin lost',
           slot' = slot, snap' = snap, released' = released,
           slot = NoTree => \A n \in Ops : n \in SetAside' <=> n \in SetAside
    PROVE  ReleaseStep
  <1>1. Holds' = Holds
    BY DEF Holds
  <1>2. CASE slot # NoTree
    BY <1>1, <1>2, ViewKept DEF MappingFacts
  <1>3. CASE slot = NoTree
    <2>1. SetAside' = SetAside
      BY <1>3 DEF SetAside
    <2>2. CurrentTree' = CurrentTree
      BY <2>1 DEF CurrentTree
    <2>3. QED
      BY <1>1, <2>2, ViewKept
  <1>4. QED
    BY <1>2, <1>3

\* A snapshot moved back into an empty slot: the trees held stay the same.
LEMMA MovedBack ==
    ASSUME snap \in [Ops -> Trees], NEW n \in Ops, snap[n] # NoTree, slot = NoTree,
           slot' = snap[n], snap' = [snap EXCEPT ![n] = NoTree]
    PROVE  Holds' = Holds
  <1>1. ASSUME NEW t \in Holds PROVE t \in Holds'
    BY DEF Holds
  <1>2. ASSUME NEW t \in Holds' PROVE t \in Holds
    BY DEF Holds
  <1>3. QED
    BY <1>1, <1>2

\* Every step of the Publisher is a step of ReleaseSlot or leaves its view alone.
LEMMA ReleaseSteps ==
    ASSUME IInv, IInv', ReportInv, EmptyInv, TreesInv, AsideInv,
           "slot" \notin lost, "slot" \notin lost', [Next]_vars
    PROVE  ReleaseStep
  <1>m. MappingFacts /\ MappingFacts'
    BY MappingIs, MappingWillBe DEF IInv
  <1>c. /\ CallIsNewest /\ JournalProgress /\ PublishProgress /\ WithdrawalProgress /\ RollbackProgress
        /\ PublishHolds /\ DroppedAfterMove /\ JournalEnds
    BY DEF ReportInv, EmptyInv
  <1> USE <1>m, <1>c, MaxOpsAssumption DEF IInv, TypeOK, CallMatchesStep, NumbersAreFresh, SlotFollowsStep,
          CallIsNewest, JournalProgress, PublishProgress, RollbackProgress, Held,
          RollbackHolds, PublishHolds, DroppedAfterMove, JournalEnds, AsideInv, SetAside, dirs, records, history, Goto, Report,
          SetJournal, Ops, Trees, NoTree, NoCall, PublishSteps, RestoreSteps, UndoSteps,
          RollbackSteps, RecoverySteps, Journals
  <1>1. CASE Compile
    <2>1. /\ slot' = slot /\ snap' = snap /\ released' = released
          /\ slot = NoTree => \A n \in Ops : n \in SetAside' <=> n \in SetAside
      BY <1>1 DEF Compile
    <2>2. QED
      BY <2>1, NothingMoved
  <1>2. CASE BeginJournal
    <2>1. /\ slot' = slot /\ snap' = snap /\ released' = released
          /\ slot = NoTree => \A n \in Ops : n \in SetAside' <=> n \in SetAside
      BY <1>2 DEF BeginJournal
    <2>2. QED
      BY <2>1, NothingMoved
  <1>3. CASE NameSnapshot
    <2>1. /\ slot' = slot /\ snap' = snap /\ released' = released
          /\ slot = NoTree => \A n \in Ops : n \in SetAside' <=> n \in SetAside
      BY <1>3 DEF NameSnapshot
    <2>2. QED
      BY <2>1, NothingMoved
  <1>4. CASE TakeSnapshot
    <2> USE DEF TakeSnapshot
    <2>1. /\ call.id \in Ops /\ call.id = clock /\ slot # NoTree /\ slot' = NoTree
          /\ call' = call /\ snap[call.id] = NoTree /\ snap' = [snap EXCEPT ![call.id] = slot]
      BY <1>4
    <2>2. call.id \in SetAside' /\ \A m \in SetAside' : m <= call.id
      BY <1>4, <2>1
    <2>3. CurrentTree' = CurrentTree
      BY <2>1, <2>2 DEF MappingFacts
    <2>4. Holds' = Holds
      BY <2>1 DEF Holds
    <2>5. QED
      BY <1>4, <2>3, <2>4, ViewKept
  <1>5. CASE MarkSnapshotted
    <2>1. /\ slot' = slot /\ snap' = snap /\ released' = released
          /\ slot = NoTree => \A n \in Ops : n \in SetAside' <=> n \in SetAside
      BY <1>5 DEF MarkSnapshotted
    <2>2. QED
      BY <2>1, NothingMoved
  <1>6. CASE Swap
    <2> USE DEF Swap
    <2>1. slot = NoTree /\ slot' = call.id /\ call.id \in Ops /\ snap' = snap /\ Nowhere(call.id)
      BY <1>6 DEF TreesInv
    <2>2. CurrentTree' = call.id /\ Holds' = Holds \cup {call.id} /\ call.id \notin Holds \cup released
      BY <2>1 DEF MappingFacts, Holds, Nowhere
    <2>3. QED
      BY <1>6, <2>1, <2>2, ViewInstalls
  <1>7. CASE MarkSwapped
    <2>1. /\ slot' = slot /\ snap' = snap /\ released' = released
          /\ slot = NoTree => \A n \in Ops : n \in SetAside' <=> n \in SetAside
      BY <1>7 DEF MarkSwapped
    <2>2. QED
      BY <2>1, NothingMoved
  <1>8. CASE WritePointer
    <2>1. /\ slot' = slot /\ snap' = snap /\ released' = released
          /\ slot = NoTree => \A n \in Ops : n \in SetAside' <=> n \in SetAside
      BY <1>8 DEF WritePointer
    <2>2. QED
      BY <2>1, NothingMoved
  <1>9. CASE LogSuccess
    <2>1. /\ slot' = slot /\ snap' = snap /\ released' = released
          /\ slot = NoTree => \A n \in Ops : n \in SetAside' <=> n \in SetAside
      BY <1>9 DEF LogSuccess
    <2>2. QED
      BY <2>1, NothingMoved
  <1>10. CASE UpdateIndex
    <2>1. /\ slot' = slot /\ snap' = snap /\ released' = released
          /\ slot = NoTree => \A n \in Ops : n \in SetAside' <=> n \in SetAside
      BY <1>10 DEF UpdateIndex
    <2>2. QED
      BY <2>1, NothingMoved
  <1>11. CASE CommitJournal
    <2>1. /\ slot' = slot /\ snap' = snap /\ released' = released
          /\ slot = NoTree => \A n \in Ops : n \in SetAside' <=> n \in SetAside
      BY <1>11 DEF CommitJournal
    <2>2. QED
      BY <2>1, NothingMoved
  <1>12. CASE ForgetJournal
    <2>1. /\ slot = call.id /\ call.id # NoTree /\ slot' = slot /\ snap' = snap
          /\ released' = released \cup {call.id}
      BY <1>12 DEF ForgetJournal
    <2>2. CurrentTree = call.id /\ CurrentTree' = call.id /\ Holds' = Holds
      BY <2>1 DEF MappingFacts, Holds
    <2>3. QED
      BY <2>1, <2>2, ViewConfirms
  <1>13. CASE Abort
    <2>1. /\ slot' = slot /\ snap' = snap /\ released' = released
          /\ slot = NoTree => \A n \in Ops : n \in SetAside' <=> n \in SetAside
      BY <1>13 DEF Abort
    <2>2. QED
      BY <2>1, NothingMoved
  <1>14. CASE Displace
    <2> USE DEF Displace
    <2>1. /\ call.id \in Ops /\ call.id = clock /\ snap[call.id] # NoTree /\ slot' = NoTree
          /\ call'.id = call.id /\ snap' = snap /\ released' = released
      BY <1>14 DEF Calls
    <2>2. call.id \in SetAside' /\ \A m \in SetAside' : m <= call.id
      BY <1>14, <2>1
    <2>3. CurrentTree' = snap[call.id]
      BY <2>1, <2>2 DEF MappingFacts
    <2>4. CASE slot = NoTree
      <3>1. CurrentTree = snap[call.id]
        <4>1. call.id \in SetAside /\ \A m \in SetAside : m <= call.id
          BY <1>14, <2>1, <2>4
        <4>2. QED
          BY <4>1 DEF MappingFacts
      <3>2. Holds' = Holds
        BY <2>1, <2>4 DEF Holds
      <3>3. QED
        BY <2>1, <2>3, <3>1, <3>2, ViewKept
    <2>5. CASE slot # NoTree
      <3>1. slot = call.id /\ call.id \notin released /\ \A n \in Ops : snap[n] # call.id
        BY <1>14, <2>5 DEF TreesInv
      <3>2. CurrentTree = call.id /\ Holds' = Holds \ {call.id}
        BY <2>1, <2>5, <3>1 DEF MappingFacts, Holds
      <3>3. QED
        BY <2>1, <2>3, <3>1, <3>2, ViewWithdraws
    <2>6. QED
      BY <2>4, <2>5
  <1>15. CASE Reinstate
    <2> USE DEF Reinstate
    <2>1. /\ call.id \in Ops /\ snap[call.id] # NoTree /\ slot = NoTree
          /\ slot' = snap[call.id] /\ snap' = [snap EXCEPT ![call.id] = NoTree]
          /\ released' = released /\ snap \in [Ops -> Trees]
      BY <1>15
    <2>2. Holds' = Holds
      <3> HIDE DEF IInv, CallIsNewest, JournalProgress, PublishProgress, RollbackProgress,
                  PublishHolds, DroppedAfterMove, JournalEnds, AsideInv, SetAside
      <3>1. QED
        BY <2>1, MovedBack
    <2>3. CurrentTree' = slot'
      BY <2>1 DEF MappingFacts
    <2>4. QED
      BY <2>1, <2>2, <2>3, ViewReverts
  <1>16. CASE Discard
    <2>1. /\ slot' = slot /\ snap' = snap /\ released' = released
          /\ slot = NoTree => \A n \in Ops : n \in SetAside' <=> n \in SetAside
      BY <1>16 DEF Discard
    <2>2. QED
      BY <2>1, NothingMoved
  <1>17. CASE PutBack
    <2> USE DEF PutBack
    <2>1. /\ call.op = "publish" /\ call.id \in Ops /\ call.moved \in {NoTree, call.id}
          /\ slot = NoTree /\ slot' = call.moved /\ call' = call /\ snap' = snap
          /\ journal' = journal /\ released' = released
      BY <1>17
    <2>2. CASE call.moved = NoTree
      BY <2>1, <2>2, NothingMoved
    <2>3. CASE call.moved = call.id
      <3>1. call.id \notin released /\ \A n \in Ops : snap[n] # call.id
        BY <1>17, <2>1 DEF TreesInv
      <3>2. CurrentTree' = call.id /\ Holds' = Holds \cup {call.id} /\ call.id \notin Holds
        BY <2>1, <2>3, <3>1 DEF MappingFacts, Holds
      <3>3. QED
        BY <2>1, <3>1, <3>2, ViewInstalls
    <2>4. QED
      BY <2>1, <2>2, <2>3
  <1>18. CASE Unpublish
    <2> USE DEF Unpublish
    <2>1. /\ call.op = "publish" /\ call.id \in Ops /\ slot = call.id /\ slot' = NoTree
          /\ snap' = snap /\ journal' = journal /\ released' = released /\ call' = call
      BY <1>18
    <2>2. call.id \notin released /\ \A n \in Ops : snap[n] # call.id
      BY <1>18, <2>1 DEF TreesInv
    <2>3. CurrentTree = call.id /\ Holds' = Holds \ {call.id}
      BY <2>1, <2>2 DEF MappingFacts, Holds
    <2>4. ASSUME CurrentTree' = NoTree PROVE Holds' = {}
      <3>1. SetAside' = {}
        BY <2>1, <2>4 DEF MappingFacts
      <3>2. \A n \in Ops : ~Held(n)
        BY <2>1, <3>1
      <3>3. NothingPublished
        BY <1>18, <2>1, <3>2 DEF EmptyInv, FirstIsHeld, WithdrawalProgress
      <3>4. QED
        BY <2>1, <3>3 DEF NothingPublished, Holds
    <2>5. QED
      BY <2>1, <2>2, <2>3, <2>4, ViewWithdraws
  <1>19. CASE ForgetFailed
    <2>1. /\ slot' = slot /\ snap' = snap /\ released' = released
          /\ slot = NoTree => \A n \in Ops : n \in SetAside' <=> n \in SetAside
      BY <1>19 DEF ForgetFailed
    <2>2. QED
      BY <2>1, NothingMoved
  <1>20. CASE Repoint
    <2>1. /\ slot' = slot /\ snap' = snap /\ released' = released
          /\ slot = NoTree => \A n \in Ops : n \in SetAside' <=> n \in SetAside
      BY <1>20 DEF Repoint
    <2>2. QED
      BY <2>1, NothingMoved
  <1>21. CASE LogFailure
    <2>1. /\ slot' = slot /\ snap' = snap /\ released' = released
          /\ slot = NoTree => \A n \in Ops : n \in SetAside' <=> n \in SetAside
      BY <1>21 DEF LogFailure
    <2>2. QED
      BY <2>1, NothingMoved
  <1>22. CASE IndexFailure
    <2>1. /\ slot' = slot /\ snap' = snap /\ released' = released
          /\ slot = NoTree => \A n \in Ops : n \in SetAside' <=> n \in SetAside
      BY <1>22 DEF IndexFailure
    <2>2. QED
      BY <2>1, NothingMoved
  <1>23. CASE RollbackSnapshot
    <2> USE DEF RollbackSnapshot
    <2>1. /\ call.id \in Ops /\ call.id = clock /\ slot # NoTree /\ slot' = NoTree
          /\ call' = call /\ snap[call.id] = NoTree /\ snap' = [snap EXCEPT ![call.id] = slot]
      BY <1>23
    <2>2. call.id \in SetAside' /\ \A m \in SetAside' : m <= call.id
      BY <1>23, <2>1
    <2>3. CurrentTree' = CurrentTree
      BY <2>1, <2>2 DEF MappingFacts
    <2>4. Holds' = Holds
      BY <2>1 DEF Holds
    <2>5. QED
      BY <1>23, <2>3, <2>4, ViewKept
  <1>24. CASE RollbackRestore
    <2> USE DEF RollbackRestore
    <2>1. /\ call.latest \in Ops /\ snap[call.latest] # NoTree /\ slot = NoTree
          /\ slot' = snap[call.latest] /\ snap' = [snap EXCEPT ![call.latest] = NoTree]
          /\ released' = released /\ snap \in [Ops -> Trees]
      BY <1>24
    <2>2. Holds' = Holds
      <3> HIDE DEF IInv, CallIsNewest, JournalProgress, PublishProgress, RollbackProgress,
                  PublishHolds, DroppedAfterMove, JournalEnds, AsideInv, SetAside
      <3>1. QED
        BY <2>1, MovedBack
    <2>3. CurrentTree' = slot'
      BY <2>1 DEF MappingFacts
    <2>4. QED
      BY <2>1, <2>2, <2>3, ViewReverts
  <1>25. CASE RollbackPoint
    <2>1. /\ slot' = slot /\ snap' = snap /\ released' = released
          /\ slot = NoTree => \A n \in Ops : n \in SetAside' <=> n \in SetAside
      BY <1>25 DEF RollbackPoint
    <2>2. QED
      BY <2>1, NothingMoved
  <1>26. CASE RollbackLog
    <2>1. /\ slot' = slot /\ snap' = snap /\ released' = released
          /\ slot = NoTree => \A n \in Ops : n \in SetAside' <=> n \in SetAside
      BY <1>26 DEF RollbackLog
    <2>2. QED
      BY <2>1, NothingMoved
  <1>27. CASE RollbackIndex
    <2>1. /\ slot' = slot /\ snap' = snap /\ released' = released
          /\ slot = NoTree => \A n \in Ops : n \in SetAside' <=> n \in SetAside
      BY <1>27 DEF RollbackIndex
    <2>2. QED
      BY <2>1, NothingMoved
  <1>28. ASSUME NEW n \in Ops, RecoverCommitted(n) PROVE ReleaseStep
    <2>1. /\ slot' = slot /\ snap' = snap /\ released' = released
          /\ slot = NoTree => \A m \in Ops : m \in SetAside' <=> m \in SetAside
      BY <1>28 DEF RecoverCommitted, Pick, InGap, Calls, Kinds
    <2>2. QED
      BY <2>1, NothingMoved
  <1>29. ASSUME NEW n \in Ops, RecoverForward(n) PROVE ReleaseStep
    <2>1. slot = NoTree /\ slot' = n /\ snap' = snap /\ released' = released /\ Nowhere(n)
      BY <1>29 DEF RecoverForward, TreesInv, InGap
    <2>2. CurrentTree' = n
      BY <2>1 DEF MappingFacts
    <2>3. Holds' = Holds \cup {n} /\ n \notin Holds \cup released
      <3> HIDE DEF IInv, CallIsNewest, JournalProgress, PublishProgress, RollbackProgress,
                  PublishHolds, DroppedAfterMove, JournalEnds, AsideInv, SetAside
      <3>1. QED
        BY <2>1 DEF Holds, Nowhere
    <2>4. QED
      BY <2>1, <2>2, <2>3, ViewInstalls
  <1>30. ASSUME NEW n \in Ops, RecoverBack(n) PROVE ReleaseStep
    <2> USE DEF RecoverBack, InGap
    <2>1. /\ n \in Ops /\ snap[n] # NoTree /\ slot = NoTree
          /\ slot' = snap[n] /\ snap' = [snap EXCEPT ![n] = NoTree]
          /\ released' = released /\ snap \in [Ops -> Trees]
      BY <1>30
    <2>2. Holds' = Holds
      <3> HIDE DEF IInv, CallIsNewest, JournalProgress, PublishProgress, RollbackProgress,
                  PublishHolds, DroppedAfterMove, JournalEnds, AsideInv, SetAside
      <3>1. QED
        BY <2>1, MovedBack
    <2>3. CurrentTree' = slot'
      BY <2>1 DEF MappingFacts
    <2>4. QED
      BY <2>1, <2>2, <2>3, ViewReverts
  <1>31. ASSUME NEW n \in Ops, RecoverAbandon(n) PROVE ReleaseStep
    <2>1. /\ slot' = slot /\ snap' = snap /\ released' = released /\ journal' = journal
          /\ pc = "recover" /\ call.op = "recover"
      BY <1>31 DEF RecoverAbandon, Pick
    <2>2. call'.id = n
      BY <1>31 DEF RecoverAbandon, Pick, Calls
    <2>3. slot = NoTree => snap[n] = NoTree
      BY <1>31 DEF RecoverAbandon, InGap
    <2>4. slot = NoTree /\ call.id \in Ops /\ snap[call.id] # NoTree => Held(call.id)
      BY <2>1
    <2>5. slot = NoTree => \A m \in Ops : m \in SetAside' <=> m \in SetAside
      <3> HIDE DEF IInv, CallIsNewest, JournalProgress, PublishProgress, RollbackProgress,
                  PublishHolds, DroppedAfterMove, JournalEnds, AsideInv
      <3>1. QED
        BY <2>1, <2>2, <2>3, <2>4
    <2>6. QED
      BY <2>1, <2>5, NothingMoved
  <1>32. ASSUME NEW n \in Ops, RecoverSwapped(n) PROVE ReleaseStep
    <2>1. /\ slot' = slot /\ snap' = snap /\ released' = released
          /\ slot = NoTree => \A m \in Ops : m \in SetAside' <=> m \in SetAside
      BY <1>32 DEF RecoverSwapped, Pick, InGap, Calls, Kinds
    <2>2. QED
      BY <2>1, NothingMoved
  <1>33. ASSUME NEW n \in Ops, RecoverLost(n) PROVE ReleaseStep
    <2>1. /\ slot' = slot /\ snap' = snap /\ released' = released /\ journal' = journal
          /\ pc = "recover" /\ call.op = "recover"
      BY <1>33 DEF RecoverLost, Pick
    <2>2. call'.id = n
      BY <1>33 DEF RecoverLost, Pick, Calls
    <2>3. slot = NoTree => snap[n] = NoTree
      BY <1>33 DEF RecoverLost, InGap
    <2>4. slot = NoTree /\ call.id \in Ops /\ snap[call.id] # NoTree => Held(call.id)
      BY <2>1
    <2>5. slot = NoTree => \A m \in Ops : m \in SetAside' <=> m \in SetAside
      <3> HIDE DEF IInv, CallIsNewest, JournalProgress, PublishProgress, RollbackProgress,
                  PublishHolds, DroppedAfterMove, JournalEnds, AsideInv
      <3>1. QED
        BY <2>1, <2>2, <2>3, <2>4
    <2>6. QED
      BY <2>1, <2>5, NothingMoved
  <1>34. ASSUME NEW n \in Ops, RecoverRefuse(n) PROVE ReleaseStep
    <2>1. /\ slot' = slot /\ snap' = snap /\ released' = released
          /\ slot = NoTree => \A m \in Ops : m \in SetAside' <=> m \in SetAside
      BY <1>34 DEF RecoverRefuse, Pick, InGap, Calls, Kinds
    <2>2. QED
      BY <2>1, NothingMoved
  <1>35. CASE RecoverMark
    <2>1. /\ slot' = slot /\ snap' = snap /\ released' = released
          /\ slot = NoTree => \A n \in Ops : n \in SetAside' <=> n \in SetAside
      BY <1>35 DEF RecoverMark
    <2>2. QED
      BY <2>1, NothingMoved
  <1>36. CASE RecoverPoint
    <2>1. /\ slot' = slot /\ snap' = snap /\ released' = released
          /\ slot = NoTree => \A n \in Ops : n \in SetAside' <=> n \in SetAside
      BY <1>36 DEF RecoverPoint
    <2>2. QED
      BY <2>1, NothingMoved
  <1>37. CASE RecoverVerify
    <2>1. /\ slot' = slot /\ snap' = snap /\ released' = released
          /\ slot = NoTree => \A n \in Ops : n \in SetAside' <=> n \in SetAside
      BY <1>37 DEF RecoverVerify
    <2>2. QED
      BY <2>1, NothingMoved
  <1>38. CASE RecoverLog
    <2>1. /\ slot' = slot /\ snap' = snap /\ released' = released
          /\ slot = NoTree => \A n \in Ops : n \in SetAside' <=> n \in SetAside
      BY <1>38 DEF RecoverLog
    <2>2. QED
      BY <2>1, NothingMoved
  <1>39. CASE RecoverIndex
    <2>1. /\ slot = call.id /\ call.id # NoTree /\ slot' = slot /\ snap' = snap
          /\ released' = released \cup {call.id}
      BY <1>39 DEF RecoverIndex
    <2>2. CurrentTree = call.id /\ CurrentTree' = call.id /\ Holds' = Holds
      BY <2>1 DEF MappingFacts, Holds
    <2>3. QED
      BY <2>1, <2>2, ViewConfirms
  <1>40. CASE RecoverUnpoint
    <2>1. /\ slot' = slot /\ snap' = snap /\ released' = released
          /\ slot = NoTree => \A n \in Ops : n \in SetAside' <=> n \in SetAside
      BY <1>40 DEF RecoverUnpoint
    <2>2. QED
      BY <2>1, NothingMoved
  <1>41. CASE RecoverForget
    <2>1. /\ slot' = slot /\ snap' = snap /\ released' = released
          /\ slot = NoTree => \A n \in Ops : n \in SetAside' <=> n \in SetAside
      BY <1>41 DEF RecoverForget
    <2>2. QED
      BY <2>1, NothingMoved
  <1>42. CASE RecoverBlock
    <2>1. /\ slot' = slot /\ snap' = snap /\ released' = released
          /\ slot = NoTree => \A n \in Ops : n \in SetAside' <=> n \in SetAside
      BY <1>42 DEF RecoverBlock
    <2>2. QED
      BY <2>1, NothingMoved
  <1>43. CASE RecoverDone
    <2>1. /\ slot' = slot /\ snap' = snap /\ released' = released
          /\ slot = NoTree => \A n \in Ops : n \in SetAside' <=> n \in SetAside
      BY <1>43 DEF RecoverDone
    <2>2. QED
      BY <2>1, NothingMoved
  <1>44. CASE PublishFault
    <2>1. /\ slot' = slot /\ snap' = snap /\ released' = released
          /\ slot = NoTree => \A n \in Ops : n \in SetAside' <=> n \in SetAside
      BY <1>44 DEF PublishFault
    <2>2. QED
      BY <2>1, NothingMoved
  <1>45. CASE UndoFault
    <2>1. /\ slot' = slot /\ snap' = snap /\ released' = released
          /\ slot = NoTree => \A n \in Ops : n \in SetAside' <=> n \in SetAside
      BY <1>45 DEF UndoFault
    <2>2. QED
      BY <2>1, NothingMoved
  <1>46. CASE RollbackFault
    <2>1. /\ slot' = slot /\ snap' = snap /\ released' = released
          /\ slot = NoTree => \A n \in Ops : n \in SetAside' <=> n \in SetAside
      BY <1>46 DEF RollbackFault
    <2>2. QED
      BY <2>1, NothingMoved
  <1>47. CASE RecoverFault
    <2>1. /\ slot' = slot /\ snap' = snap /\ released' = released /\ journal' = journal
          /\ pc \in RecoverySteps /\ call.op = "recover"
      BY <1>47 DEF RecoverFault
    <2>2. CASE pc = "recover"
      <3>1. PICK m \in Ops : /\ journal[m] \notin {"none", "rollback_required"}
                            /\ call' = [call EXCEPT !.id = m]
        BY <1>47, <2>2 DEF RecoverFault
      <3>2. call'.id = m
        BY <3>1 DEF Calls
      <3>3. slot = NoTree /\ snap[m] # NoTree => Held(m)
        BY <3>1
      <3>4. slot = NoTree => \A n \in Ops : n \in SetAside' <=> n \in SetAside
        BY SMTT(30), <2>1, <3>2, <3>3
      <3>5. QED
        BY <2>1, <3>4, NothingMoved
    <2>3. CASE pc # "recover"
      <3>1. call' = call
        BY <1>47, <2>3 DEF RecoverFault
      <3>2. QED
        BY <2>1, <3>1, NothingMoved
    <2>4. QED
      BY <2>2, <2>3
  <1>48. CASE MarkFault
    <2>1. /\ slot' = slot /\ snap' = snap /\ released' = released
          /\ slot = NoTree => \A n \in Ops : n \in SetAside' <=> n \in SetAside
      BY <1>48 DEF MarkFault
    <2>2. QED
      BY <2>1, NothingMoved
  <1>49. CASE PublishStart
    <2>1. /\ slot' = slot /\ snap' = snap /\ released' = released
          /\ slot = NoTree => \A n \in Ops : n \in SetAside' <=> n \in SetAside
      BY <1>49 DEF PublishStart
    <2>2. QED
      BY <2>1, NothingMoved
  <1>50. CASE RollbackStart
    <2>1. /\ slot' = slot /\ snap' = snap /\ released' = released
          /\ slot = NoTree => \A n \in Ops : n \in SetAside' <=> n \in SetAside
      BY <1>50 DEF RollbackStart
    <2>2. QED
      BY <2>1, NothingMoved
  <1>51. CASE Crash
    <2>1. /\ slot' = slot /\ snap' = snap /\ released' = released
          /\ slot = NoTree => \A n \in Ops : n \in SetAside' <=> n \in SetAside
      BY <1>51, CrashCost DEF Crash, Here, CrashWindow
    <2>2. QED
      BY <2>1, NothingMoved
  <1>52. CASE Exit
    <2>1. /\ slot' = slot /\ snap' = snap /\ released' = released
          /\ slot = NoTree => \A n \in Ops : n \in SetAside' <=> n \in SetAside
      BY <1>52 DEF Exit
    <2>2. QED
      BY <2>1, NothingMoved
  <1>53. CASE Start
    <2>1. /\ slot' = slot /\ snap' = snap /\ released' = released
          /\ slot = NoTree => \A n \in Ops : n \in SetAside' <=> n \in SetAside
      BY <1>53 DEF Start
    <2>2. QED
      BY <2>1, NothingMoved
  <1>54. CASE UNCHANGED vars
    <2>1. /\ slot' = slot /\ snap' = snap /\ released' = released
          /\ slot = NoTree => \A n \in Ops : n \in SetAside' <=> n \in SetAside
      BY <1>54 DEF vars
    <2>2. QED
      BY <2>1, NothingMoved
  <1>55. QED
    BY <1>1, <1>2, <1>3, <1>4, <1>5, <1>6, <1>7, <1>8, <1>9, <1>10, <1>11,
       <1>12, <1>13, <1>14, <1>15, <1>16, <1>17, <1>18, <1>19, <1>20, <1>21,
       <1>22, <1>23, <1>24, <1>25, <1>26, <1>27, <1>28, <1>29, <1>30, <1>31,
       <1>32, <1>33, <1>34, <1>35, <1>36, <1>37, <1>38, <1>39, <1>40, <1>41,
       <1>42, <1>43, <1>44, <1>45, <1>46, <1>47, <1>48, <1>49, <1>50, <1>51,
       <1>52, <1>53, <1>54
       DEF Next, Progress, Work, Publish, Compensate, Rollback, Recover, RecoverJournal,
           Failure, Environment

\* A promise once lost stays lost.
LEMMA LostForGood ==
    ASSUME [Next]_vars
    PROVE  lost \subseteq lost'
  <1> USE DEF history
  <1>1. CASE Failure
    BY <1>1, FaultCost
  <1>2. CASE Publish
    BY <1>2 DEF Publish, Compile, BeginJournal, NameSnapshot, TakeSnapshot, MarkSnapshotted,
       Swap, MarkSwapped, WritePointer, LogSuccess, UpdateIndex, CommitJournal, ForgetJournal
  <1>3. CASE Compensate
    BY <1>3 DEF Compensate, Abort, Displace, Reinstate, Discard, PutBack, Unpublish,
       ForgetFailed, Repoint, LogFailure, IndexFailure
  <1>4. CASE Rollback
    BY <1>4 DEF Rollback, RollbackSnapshot, RollbackRestore, RollbackPoint, RollbackLog,
       RollbackIndex
  <1>5. CASE Recover
    BY <1>5 DEF Recover, RecoverJournal, RecoverCommitted, RecoverForward, RecoverBack,
       RecoverAbandon, RecoverSwapped, RecoverLost, RecoverRefuse, RecoverMark, RecoverPoint,
       RecoverVerify, RecoverLog, RecoverIndex, RecoverUnpoint, RecoverForget, RecoverBlock,
       RecoverDone
  <1>6. CASE Environment
    BY <1>6, CrashCost DEF Environment, PublishStart, RollbackStart, Exit, Start
  <1>7. CASE UNCHANGED vars
    BY <1>7 DEF vars
  <1>8. QED
    BY <1>1, <1>2, <1>3, <1>4, <1>5, <1>6, <1>7 DEF Next, Progress, Work

\* The Publisher implements ReleaseSlot: through every interleaving of calls,
\* exceptions, crashes and recoveries, one tree is current, it changes in one step,
\* and only an unconfirmed tree is ever discarded, until the slot's window is hit.
THEOREM SlotRefined == Spec => ImplementsReleaseSlot
  <1>1. Init => Release!RInit
    <2> SUFFICES ASSUME Init PROVE Release!RInit
      OBVIOUS
    <2>1. SetAside = {}
      BY DEF Init, SetAside, Ops
    <2>2. CurrentTree = NoTree
      BY <2>1 DEF Init, CurrentTree
    <2>3. Archive = {}
      BY DEF Init, Archive
    <2>4. QED
      BY <2>2, <2>3 DEF Init, Release!RInit
  <1>2. GuaranteeInv /\ GuaranteeInv' /\ [Next]_vars => ReleaseStep
    <2> SUFFICES ASSUME GuaranteeInv, GuaranteeInv', [Next]_vars PROVE ReleaseStep
      OBVIOUS
    <2>1. CASE "slot" \in lost'
      BY <2>1, ViewWithdrawn
    <2>2. CASE "slot" \notin lost'
      <3>1. "slot" \notin lost
        BY <2>2, LostForGood
      <3>2. QED
        BY <2>2, <3>1, ReleaseSteps DEF GuaranteeInv
    <2>3. QED
      BY <2>1, <2>2
  <1>3. QED
    BY <1>1, <1>2, GuaranteesInductive, PTL
       DEF Spec, ReleaseStep, ImplementsReleaseSlot, Release!RSpec

\* While the promise stands, the archive holds trees, never the absence of one.
SlotInv == Release!NothingLost /\ ("slot" \notin lost => NoTree \notin Archive)

\* The abstract slot loses no completed tree and, once one was completed, is never
\* empty, as long as its promise stands: ReleaseSlot as the Publisher instantiates it.
LEMMA SlotKeeps == Release!RSpec => []Release!NothingLost
  <1>1. Release!RInit => SlotInv
    BY DEF Release!RInit, SlotInv, Release!NothingLost, Release!Kept
  <1>2. SlotInv /\ [Release!RNext]_(Release!rvars) => SlotInv'
    <2> SUFFICES ASSUME SlotInv, [Release!RNext]_(Release!rvars) PROVE SlotInv'
      OBVIOUS
    <2> USE DEF SlotInv, Release!NothingLost, Release!Kept
    <2>1. CASE Release!Promised
      <3>1. CASE Release!Install
        BY <2>1, <3>1 DEF Release!Promised, Release!Install
      <3>2. CASE Release!Confirm
        BY <2>1, <3>2 DEF Release!Promised, Release!Confirm
      <3>3. CASE Release!Withdraw
        <4>1. CASE CurrentTree' \in Archive
          BY <2>1, <3>3, <4>1 DEF Release!Promised, Release!Withdraw
        <4>2. CASE Archive = {} /\ CurrentTree' = NoTree
          BY <2>1, <3>3, <4>2 DEF Release!Promised, Release!Withdraw
        <4>3. QED
          BY <3>3, <4>1, <4>2 DEF Release!Withdraw
      <3>4. CASE Release!Revert
        BY <2>1, <3>4 DEF Release!Promised, Release!Revert
      <3>5. QED
        BY <2>1, <3>1, <3>2, <3>3, <3>4 DEF Release!Promised
    <2>2. CASE Release!Withdrawn
      BY <2>2 DEF Release!Withdrawn
    <2>3. CASE UNCHANGED Release!rvars
      BY <2>3 DEF Release!rvars
    <2>4. QED
      BY <2>1, <2>2, <2>3 DEF Release!RNext
  <1>3. SlotInv => Release!NothingLost
    BY DEF SlotInv
  <1>4. QED
    BY <1>1, <1>2, <1>3, PTL DEF Release!RSpec

\* Of the Publisher: whatever calls, exceptions and crashes do, a completed tree is the
\* current one or in the archive, and a Skill that was published stays published, until
\* the slot's window is hit.
THEOREM NothingEverLost == Spec => []Release!NothingLost
  <1>1. QED
    BY SlotRefined, SlotKeeps, PTL DEF ImplementsReleaseSlot
=============================================================================
