--------------------------- MODULE SkillReleases ---------------------------
(* From a build to a Skill in a host: the commands that build and migrate     *)
(* drafts, publish Asset Packs into them and install them, run by processes   *)
(* that know nothing of one another.                                          *)
EXTENDS SkillBuild, HostInstall, PackStore

CONSTANT Starts   \* what the commands may find: records [disk, pointer]

\* No command is under way, the drafts were built before, what a host has passed
\* its gate, and the Pack a Closure pins is the active one.
ASSUME StartsAssumption ==
  /\ PackSkill \in Skills /\ Seed # Nothing
  /\ \A start \in Starts :
       /\ start.pointer # Nothing => start.pointer.version \in 1..MaxVersion
       /\ start.disk = [place \in Places |-> start.disk[place]]
       /\ \A place \in Places : IsContent(start.disk[place])
       /\ \A s \in Skills :
            LET draft == start.disk[Draft(s)]
                slot == start.disk[Slot(s)]
            IN /\ IsDirectory(draft) => draft.skill < 1
               /\ IsDirectory(draft) /\ draft.closure = Nothing => draft.pack = Nothing
               /\ IsDirectory(slot) /\ slot.product # Nothing =>
                    Opens(slot) /\ slot.product.closure = slot.closure
       /\ LET draft == start.disk[PackDraft]
          IN IsDirectory(draft) /\ Opens(draft) /\ draft.closure.pack # Nothing =>
               draft.closure.pack = start.pointer

vars == <<rootVars, built, mixed, packVars>>

Init ==
  \E start \in Starts :
    /\ disk = start.disk /\ owed = start.disk
    /\ pointer = start.pointer
    /\ releases = [v \in 1..MaxVersion |->
                     IF start.pointer # Nothing /\ start.pointer.version = v
                     THEN start.pointer ELSE Nothing]
    /\ kept = IF start.pointer = Nothing THEN {} ELSE {start.pointer}
    /\ proc = [p \in Procs |-> Idle]
    /\ left = MaxCommands /\ faults = MaxFaults /\ crashes = MaxCrashes
    /\ saved = {} /\ contested = {} /\ died = {} /\ adrift = {} /\ mixed = {} /\ built = 0
    /\ lost = {} /\ overwritten = {} /\ moves = 0 /\ unbound = Nothing

Next ==
  \E p \in Procs :
    \/ (BuildStep(p) \/ MigrateStep(p)) /\ UNCHANGED <<mixed, packVars>>
    \/ InstallStep(p) /\ UNCHANGED <<built, packVars>>
    \/ PackStep(p) /\ UNCHANGED <<built, mixed>>
    \/ Crash(p) /\ UNCHANGED <<built, mixed, packVars>>

Spec == Init /\ [][Next]_vars

-----------------------------------------------------------------------------
Settled(place) ==
  Writers(place) = {} /\ place \notin adrift /\ place \notin contested

\* A release that was made active is not forgotten: the active release is the
\* one its pointer was written for, and has every asset of every release made
\* active and not rolled back, with the same content and all its sources,
\* whatever other commands published, refused or compensated meanwhile.  Not
\* when two commands wrote the same version at once, the active one or the one a
\* command was based on, nor when another command moved the pointer past the
\* release unseen (pack_store.py, activate and the compensation of
\* pack_incremental.py).
PacksKept ==
  pointer # Nothing =>
    /\ pointer.version \in overwritten \/ ActiveLoads
    /\ \A release \in kept \ lost : Covers(pointer, release)

\* The Pack a production Closure pins is the active one once the commands that
\* bind it have ended, also when the binding failed and the release was taken
\* back (pack_incremental.py, execute and rollback; pack_closure.py, bind).
\* Not for a release that was made active without a Closure root or by a command
\* that died before it bound it, and not in a draft that had two writers.
BoundTogether ==
  LET dir == disk[PackDraft]
  IN ( /\ Writers(PackDraft) = {} /\ PackDraft \notin contested
       /\ unbound = Nothing
       /\ IsDirectory(dir) /\ Opens(dir) /\ dir.closure.pack # Nothing )
     => dir.closure.pack = pointer

\* When the command at a draft or a slot has ended, the place holds what the
\* command has promised: what it has made if it reported success, and what it
\* found if it reported an error, after a migration of several drafts too; and
\* the units of a draft that was built are in the Schema layer (build.py,
\* migration.py, hosts/base.py, pack_incremental.py).  Not where two commands
\* wrote at once, one died in the middle, or its own restoration failed.
TreesSettled ==
  \A place \in Places : Settled(place) =>
    /\ disk[place] = owed[place]
    /\ place[1] = "draft" /\ IsDirectory(disk[place])
         => disk[place].skill < 1 \/ disk[place].skill \in saved \cup died

\* A Skill with a product descriptor that is in a host has passed the gate as
\* it is: its Closure opens, and is the one the descriptor names (hosts/base.py,
\* install_runtime_product).  Not when the draft changed between the gate and
\* the end of the copy.
InstalledVerified ==
  \A s \in Skills :
    LET dir == disk[Slot(s)]
    IN IsDirectory(dir) /\ dir.product # Nothing /\ Slot(s) \notin mixed
       => Opens(dir) /\ dir.product.closure = dir.closure
=============================================================================
