----------------------------- MODULE SkillBuild -----------------------------
(* `book2skill build' and `book2skill migrate': a directory is prepared in a  *)
(* sibling and swapped with the draft by two renames (application/build.py,   *)
(* runtime/migration.py).                                                     *)
EXTENDS SkillRoots

VARIABLE built   \* builds so far: each has content of its own

\* What is compiled: a tree with its sources on record gets a candidate
\* Closure, the default contract or the one the caller gave.
Compiled(k, ledger, needs) ==
  IF ledger THEN Emitted(Directory(k, TRUE), "candidate", needs)
  ELSE Directory(k, FALSE)

BuildBegin(p) ==
  \E s \in Skills, ledger \in BOOLEAN :
    /\ Begin(p, [cmd |-> "build", pc |-> "compile", at |-> Draft(s),
                 on |-> {Draft(s)}, held |-> Nothing,
                 dir |-> Compiled(built + 1, ledger, NoRequirements)])
    /\ built' = built + 1

\* Untraceable references, an incomplete content check or a contract given by
\* half end the build in its staging directory.
BuildRefused(p) ==
  /\ At(p, "build", "compile")
  /\ Fails(p)
  /\ UNCHANGED <<disk, saved, faults, adrift, built>>

BuildCompiled(p) ==
  /\ At(p, "build", "compile")
  /\ Continue(p, "out")
  /\ Stay /\ UNCHANGED <<disk, saved, faults, built>>

\* The draft, if there is one, is renamed to .<name>.previous-<id>.
DraftOut(p) ==
  LET at == proc[p].at
  IN /\ At(p, "build", "out")
     /\ \/ /\ Works /\ Put(at, Nothing)
           /\ proc' = [proc EXCEPT ![p].held = disk[at], ![p].pc = "in"]
           /\ Stay
        \/ Breaks /\ disk[at] # Nothing /\ Fails(p) /\ UNCHANGED <<disk, adrift>>
     /\ UNCHANGED <<saved, built>>

\* The staging directory takes its place, which must still be free.
DraftIn(p) ==
  LET at == proc[p].at
  IN /\ At(p, "build", "in")
     /\ \/ disk[at] = Nothing /\ Works /\ Put(at, proc[p].dir)
           /\ Continue(p, "save")
        \/ FailsIf(disk[at] # Nothing) /\ Continue(p, "back")
           /\ UNCHANGED disk
     /\ Stay /\ UNCHANGED <<saved, built>>

\* The rename failed: what was moved out is moved back.  That may fail as well,
\* and the draft is then missing although the report speaks of the first error.
DraftBack(p) ==
  LET at == proc[p].at
  IN /\ At(p, "build", "back") /\ Fails(p)
     /\ \/ Works /\ UNCHANGED adrift
           /\ Put(at, IF disk[at] = Nothing THEN proc[p].held ELSE disk[at])
        \/ Breaks /\ proc[p].held # Nothing /\ Expose({at}) /\ UNCHANGED disk
     /\ UNCHANGED <<saved, built>>

\* The new units are appended to the Schema layer in one atomic write.
SaveUnits(p) ==
  /\ At(p, "build", "save")
  /\ \/ Works /\ saved' = saved \cup {proc[p].dir.skill} /\ Continue(p, "bundle")
     \/ Breaks /\ UNCHANGED saved /\ Continue(p, "unsave")
  /\ Stay /\ UNCHANGED <<disk, built>>

\* They were not: the new draft is removed ...
RemoveNewDraft(p) ==
  LET at == proc[p].at
  IN /\ At(p, "build", "unsave")
     /\ Works /\ Put(at, Nothing)
     /\ IF proc[p].held = Nothing THEN Fails(p) /\ UNCHANGED adrift
        ELSE Continue(p, "replace") /\ Stay
     /\ UNCHANGED <<saved, built>>

\* ... and the previous one renamed back, or the build reports that it could
\* not be (PUBLISH_ROLLBACK_FAILED).
RestoreDraft(p) ==
  LET at == proc[p].at
  IN /\ At(p, "build", "replace") /\ Fails(p)
     /\ \/ disk[at] = Nothing /\ Works /\ Put(at, proc[p].held) /\ UNCHANGED adrift
        \/ FailsIf(disk[at] # Nothing) /\ Expose({at}) /\ UNCHANGED disk
     /\ UNCHANGED <<saved, built>>

\* The backup is dropped.  A build from sources then writes the analysis; when
\* that fails the command exits with an error and the draft stays.
BuildEnds(p) ==
  LET at == proc[p].at
  IN /\ At(p, "build", "bundle")
     /\ \/ Works /\ Succeeds(p, [place \in {at} |-> proc[p].dir])
        \/ Breaks /\ Fails(p) /\ Expose({at})
     /\ UNCHANGED <<disk, saved, built>>

BuildStep(p) ==
  \/ BuildBegin(p) \/ BuildRefused(p) \/ BuildCompiled(p)
  \/ DraftOut(p) \/ DraftIn(p) \/ DraftBack(p)
  \/ SaveUnits(p) \/ RemoveNewDraft(p) \/ RestoreDraft(p) \/ BuildEnds(p)

-----------------------------------------------------------------------------
(* Migration of every legacy directory below the root, approved and confirmed *)
(* as one batch: audit, stage all, then swap one after the other.             *)

Present == {place \in Places : place[1] = "draft" /\ IsDirectory(disk[place])}
LegacyPlaces == {place \in Present : Disposition(disk[place]) = "legacy-unclosed"}

MigrateBegin(p) ==
  /\ LegacyPlaces # {}
  /\ \A place \in Present : Disposition(disk[place]) # "blocked"
  /\ Begin(p, [cmd |-> "migrate", pc |-> "stage", on |-> LegacyPlaces,
               todo |-> LegacyPlaces, done |-> {}, at |-> << >>,
               dir |-> [place \in LegacyPlaces |-> Nothing],
               held |-> [place \in LegacyPlaces |-> Nothing]])
  /\ UNCHANGED built

\* Each directory is copied aside and given its Closure; one that cannot be
\* ends the batch before anything was moved.
Stage(p) ==
  /\ At(p, "migrate", "stage")
  /\ \E place \in proc[p].todo :
       IF IsDirectory(disk[place]) /\ MayEmit(disk[place])
       THEN /\ Works
            /\ proc' = [proc EXCEPT ![p].dir[place] = Migrated(disk[place]),
                 ![p].todo = IF @ = {place} THEN proc[p].on ELSE @ \ {place},
                 ![p].pc = IF proc[p].todo = {place} THEN "out" ELSE "stage"]
            /\ Stay
       ELSE Works /\ Fails(p) /\ UNCHANGED adrift
  /\ UNCHANGED <<disk, saved, built>>

\* The legacy directory is renamed into the backup root ...
LegacyOut(p) ==
  /\ At(p, "migrate", "out") \/ At(p, "migrate", "next")
  /\ \E place \in proc[p].todo :
       \/ /\ disk[place] # Nothing /\ Works /\ Put(place, Nothing)
          /\ proc' = [proc EXCEPT ![p].held[place] = disk[place],
                                  ![p].at = place, ![p].pc = "in"]
       \/ /\ FailsIf(disk[place] = Nothing)
          /\ Continue(p, "revert") /\ UNCHANGED disk
  /\ Stay /\ UNCHANGED <<saved, built>>

\* ... and its migrated copy takes its place.
MigratedIn(p) ==
  LET at == proc[p].at
      todo == proc[p].todo \ {at}
  IN /\ At(p, "migrate", "in")
     /\ \/ /\ disk[at] = Nothing /\ Works /\ Put(at, proc[p].dir[at])
           /\ IF todo = {} THEN Succeeds(p, proc[p].dir)
              ELSE /\ proc' = [proc EXCEPT ![p].todo = todo, ![p].pc = "next",
                                           ![p].done = @ \cup {at}]
                   /\ Stay
        \/ /\ FailsIf(disk[at] # Nothing)
           /\ Continue(p, "back") /\ UNCHANGED disk /\ Stay
     /\ UNCHANGED <<saved, built>>

\* The swap of one directory failed: its original is put back first.
LegacyBack(p) ==
  LET at == proc[p].at
  IN /\ At(p, "migrate", "back") /\ Continue(p, "revert")
     /\ \/ Works /\ UNCHANGED adrift
           /\ Put(at, IF disk[at] = Nothing THEN proc[p].held[at] ELSE disk[at])
        \/ Breaks /\ Expose({at}) /\ UNCHANGED disk
     /\ UNCHANGED <<saved, left, contested, died, crashes, owed, built>>

\* Mutant: the directories swapped before the failing one stay swapped.
RevertNone(p) ==
  At(p, "migrate", "revert") /\ Works /\ Fails(p)
    /\ UNCHANGED <<disk, adrift, saved, built>>

\* Then every directory swapped before it: the migrated copy is removed ...
Revert(p) ==
  /\ At(p, "migrate", "revert") /\ Works
  /\ IF proc[p].done = {} THEN Fails(p) /\ UNCHANGED <<disk, adrift>>
     ELSE /\ \E place \in proc[p].done :
               /\ Put(place, Nothing)
               /\ proc' = [proc EXCEPT ![p].at = place, ![p].pc = "return"]
          /\ Stay
  /\ UNCHANGED <<saved, built>>

\* ... and the original renamed back.  When that fails the rest of the batch
\* is left as it is.
Return(p) ==
  LET at == proc[p].at
  IN /\ At(p, "migrate", "return")
     /\ \/ /\ disk[at] = Nothing /\ Works /\ Put(at, proc[p].held[at])
           /\ proc' = [proc EXCEPT ![p].done = @ \ {at}, ![p].pc = "revert"]
           /\ Stay
        \/ /\ FailsIf(disk[at] # Nothing)
           /\ Fails(p) /\ Expose(proc[p].on) /\ UNCHANGED disk
     /\ UNCHANGED <<saved, built>>

MigrateStep(p) ==
  \/ MigrateBegin(p) \/ Stage(p) \/ LegacyOut(p) \/ MigratedIn(p)
  \/ LegacyBack(p) \/ Revert(p) \/ Return(p)
=============================================================================
