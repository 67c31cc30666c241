---------------------------- MODULE HostInstall ----------------------------
(* `book2skill install' and `book2skill uninstall': a Skill directory is      *)
(* copied into the slot a host reads Skills from (hosts/base.py).             *)
EXTENDS SkillRoots

CONSTANT Hosts   \* what hosts offer: records [deps, caps]

VARIABLE mixed   \* history: slots that hold a copy of a directory that changed
                 \* between the gate and the end of the copy

\* The two kinds of files of a directory, copied in the order they are found.
Parts == {"content", "manifests"}
Copied(staged, source, part) ==
  IF part = "content"
  THEN [staged EXCEPT !.skill = source.skill, !.ledger = source.ledger]
  ELSE [staged EXCEPT !.pack = source.pack, !.closure = source.closure,
                      !.product = source.product]

InstallBegin(p) ==
  \E s \in Skills, host \in Hosts, keep \in BOOLEAN :
    /\ Begin(p, [cmd |-> "install", pc |-> "gate", at |-> Slot(s),
                 on |-> {Slot(s)}, from |-> Draft(s), host |-> host,
                 keep |-> keep, seen |-> Nothing, held |-> Nothing,
                 dir |-> Empty, todo |-> Parts])
    /\ UNCHANGED mixed

\* The product's gate, before the host is touched.
Gate(p) ==
  LET source == disk[proc[p].from]
  IN /\ At(p, "install", "gate")
     /\ IF IsDirectory(source) /\ MayInstall(source, proc[p].host)
        THEN /\ proc' = [proc EXCEPT ![p].seen = source, ![p].pc = "out"]
             /\ Stay
        ELSE Fails(p) /\ UNCHANGED adrift
     /\ UNCHANGED <<disk, saved, faults, mixed>>

\* What the slot holds moves to a timestamped backup, or is deleted outright.
SlotOut(p) ==
  LET at == proc[p].at
  IN /\ At(p, "install", "out")
     /\ \/ /\ Works /\ Put(at, Nothing)
           /\ proc' = [proc EXCEPT ![p].held = IF proc[p].keep THEN disk[at] ELSE Nothing,
                                   ![p].pc = "copy"]
           /\ owed' = IF proc[p].keep THEN owed ELSE [owed EXCEPT ![at] = Nothing]
           /\ UNCHANGED <<left, contested, died, crashes, adrift>>
        \/ /\ Breaks /\ disk[at] # Nothing /\ Fails(p)
           /\ IF proc[p].keep THEN UNCHANGED <<disk, adrift>>
              ELSE Put(at, Torn) /\ Expose({at})
     /\ UNCHANGED <<saved, mixed>>

\* Copying file by file: a source that is gone before the first file yields an
\* empty copy, one that goes later an error.
Copy(p) ==
  LET source == disk[proc[p].from]
  IN /\ At(p, "install", "copy")
     /\ \/ /\ IsDirectory(source) /\ Works
           /\ \E part \in proc[p].todo :
                proc' = [proc EXCEPT
                  ![p].dir = Copied(IF @ = Empty THEN Directory(0, FALSE) ELSE @,
                                    source, part),
                  ![p].todo = @ \ {part},
                  ![p].pc = IF proc[p].todo = {part} THEN "in" ELSE "copy"]
        \/ source = Nothing /\ proc[p].todo = Parts /\ Works /\ Continue(p, "in")
        \/ FailsIf(source = Nothing /\ proc[p].todo # Parts) /\ Continue(p, "undo")
     /\ Stay /\ UNCHANGED <<disk, saved, mixed>>

\* The copy, with the host's overlay, takes the slot, if that is still free.
SlotIn(p) ==
  LET at == proc[p].at
  IN /\ At(p, "install", "in")
     /\ \/ /\ disk[at] = Nothing /\ Works /\ Put(at, proc[p].dir)
           /\ Succeeds(p, [place \in {at} |-> proc[p].dir])
           /\ mixed' = IF proc[p].dir = proc[p].seen THEN mixed ELSE mixed \cup {at}
        \/ FailsIf(disk[at] # Nothing) /\ Continue(p, "undo") /\ Stay
           /\ UNCHANGED <<disk, mixed>>
     /\ UNCHANGED saved

\* After a failure the backup returns to the slot, over whatever is there.  An
\* error in that is swallowed, and the report says the backup was restored.
SlotUndo(p) ==
  LET at == proc[p].at
  IN /\ At(p, "install", "undo") /\ Fails(p)
     /\ \/ /\ Works /\ UNCHANGED adrift
           /\ Put(at, IF proc[p].held = Nothing THEN disk[at] ELSE proc[p].held)
        \/ Breaks /\ proc[p].held # Nothing /\ Expose({at}) /\ UNCHANGED disk
     /\ UNCHANGED <<saved, mixed>>

UninstallBegin(p) ==
  \E s \in Skills :
    /\ disk[Slot(s)] # Nothing
    /\ Begin(p, [cmd |-> "uninstall", pc |-> "remove", at |-> Slot(s),
                 on |-> {Slot(s)}])
    /\ UNCHANGED mixed

\* A removal that fails half-way leaves part of the tree, and says so.
RemoveSlot(p) ==
  LET at == proc[p].at
  IN /\ At(p, "uninstall", "remove")
     /\ \/ Works /\ Put(at, Nothing) /\ Succeeds(p, [place \in {at} |-> Nothing])
        \/ Breaks /\ Put(at, Torn) /\ Fails(p) /\ Expose({at})
     /\ UNCHANGED <<saved, mixed>>

InstallStep(p) ==
  \/ InstallBegin(p) \/ Gate(p) \/ SlotOut(p) \/ Copy(p) \/ SlotIn(p) \/ SlotUndo(p)
  \/ UninstallBegin(p) \/ RemoveSlot(p)
=============================================================================
