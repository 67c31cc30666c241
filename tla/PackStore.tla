----------------------------- MODULE PackStore -----------------------------
(* Asset Packs on disk and the two commands that move the active one: publish *)
(* and rollback, with or without the production Closure the Pack is bound to  *)
(* (runtime/pack_store.py, pack_closure.py, application/pack_incremental.py). *)
EXTENDS SkillRoots

CONSTANTS PackSkill,    \* the Skill whose draft the Pack is bound to
          Batches,      \* the candidate batches that are published
          Seed,         \* the release a caller bases its first batch on
          MaxVersion    \* bound: versions that are given

VARIABLES
  releases,     \* releases/<version>.json: a release or Nothing
  pointer,      \* active.json: the release it names (version and hash) or Nothing
  kept,         \* history: releases made active, and not rolled back since
  lost,         \* history: those of them another command moved the pointer past
  overwritten,  \* history: versions two commands wrote at once
  moves,        \* history: how often the pointer was moved
  unbound       \* history: the release made active whose binding is outstanding,
                \* and the process that made it active

packVars == <<releases, pointer, kept, lost, overwritten, moves, unbound>>

PackDraft == Draft(PackSkill)
PackAt(p, pc) == proc[p].cmd \in PackCommands /\ proc[p].pc = pc

\* active() raises when the release is not the one the pointer was written for.
ActiveLoads == pointer # Nothing /\ releases[pointer.version] = pointer

PackCommand(cmd, pc, bound, phase, base, release, candidate, version) ==
  [cmd |-> cmd, pc |-> pc, on |-> IF bound THEN {PackDraft} ELSE {},
   phase |-> phase, base |-> base, release |-> release, mine |-> Nothing,
   expected |-> base.version, seen |-> 0, candidate |-> candidate,
   version |-> version, closure |-> Nothing, needs |-> NoRequirements]

-----------------------------------------------------------------------------
(* Publication: candidate, review and approval, then the governance of the    *)
(* batch.  The base is the release the caller saw as the active one.          *)

ReviewedBatch(base, batch) ==
  Approved(Reviewed(CreateCandidate(base, batch), AssetIds(batch), AssetIds(batch)))

PublishBegin(p) ==
  \E batch \in Batches, bound \in BOOLEAN, version \in 1..MaxVersion :
    LET base == IF pointer = Nothing THEN Seed ELSE pointer
    IN /\ pointer # Nothing => ActiveLoads
       /\ Begin(p, PackCommand("publish", "review", bound, "before", base, base,
                               ReviewedBatch(base, batch), version))
       /\ UNCHANGED packVars

\* Not confirmed, or not publishable: the candidate stays as evidence.
PublishRefused(p) ==
  /\ PackAt(p, "review")
  /\ Fails(p) /\ UNCHANGED <<disk, saved, faults, adrift, packVars>>

\* With a Closure root, the active Pack is bound first if it is the base.
PublishReviewed(p) ==
  /\ PackAt(p, "review") /\ Publishable(proc[p].base, proc[p].candidate)
  /\ \/ (proc[p].on = {} \/ pointer # proc[p].base) /\ Continue(p, "check")
     \/ proc[p].on # {} /\ pointer = proc[p].base /\ ActiveLoads /\ Continue(p, "bind")
  /\ Stay /\ UNCHANGED <<disk, saved, faults, packVars>>

\* The optimistic check of the base, the merge, and the caller's regression,
\* which may turn the release down.
CheckBase(p) ==
  LET base == proc[p].base
      cand == proc[p].candidate
      new == NewRelease(base, cand, proc[p].version)
  IN /\ PackAt(p, "check")
     /\ \/ /\ pointer # Nothing => ActiveLoads /\ pointer = base
           /\ MayPublish(base, cand, proc[p].version)
           /\ proc' = [proc EXCEPT ![p].release = new, ![p].phase = "forward",
                                   ![p].pc = "store"]
           /\ Stay
        \/ Fails(p) /\ UNCHANGED adrift
     /\ UNCHANGED <<disk, saved, faults, packVars>>

-----------------------------------------------------------------------------
(* Rollback to a release of the store.                                        *)

RollBackBegin(p) ==
  \E version \in 1..MaxVersion, bound \in BOOLEAN :
    LET target == releases[version]
    IN /\ ActiveLoads
       /\ target \notin {Nothing, pointer} /\ MayRollBack(pointer, target)
       /\ Begin(p, PackCommand("rollback", "store", bound, "forward", pointer,
                               target, Nothing, version))
       /\ UNCHANGED packVars

-----------------------------------------------------------------------------
(* Activation, of a new release or of an earlier one.                         *)

\* An error before the pointer moved ends the command; in the middle of a
\* compensation it is reported as one that failed.
Refused(p) ==
  Fails(p) /\ Expose(IF proc[p].phase = "undo" THEN proc[p].on ELSE {})

\* The release must not be there, or be there as it is.
Store(p) ==
  LET release == proc[p].release
      there == releases[release.version]
  IN /\ PackAt(p, "store")
     /\ \/ there = Nothing /\ Continue(p, "write") /\ Stay
        \/ there = release /\ Continue(p, "expect") /\ Stay
        \/ there \notin {Nothing, release} /\ Refused(p)
     /\ UNCHANGED <<disk, saved, faults, packVars>>

\* Nothing looks again before the file is written.
Write(p) ==
  LET release == proc[p].release
      there == releases[release.version]
  IN /\ PackAt(p, "write")
     /\ \/ /\ Works /\ releases' = [releases EXCEPT ![release.version] = release]
           /\ overwritten' = overwritten \cup
                (IF there \in {Nothing, release} THEN {} ELSE {release.version})
           /\ Continue(p, "expect") /\ Stay
        \/ Breaks /\ Refused(p) /\ UNCHANGED <<releases, overwritten>>
     /\ UNCHANGED <<disk, saved, pointer, kept, lost, moves, unbound>>

\* Mutant: whatever is active will do.
AnyActive(p) == ActiveLoads

\* The active release must be the one the command started from.
AsExpected(p) == ActiveLoads /\ pointer.version = proc[p].expected

Expect(p) ==
  /\ PackAt(p, "expect")
  /\ IF AsExpected(p)
     THEN /\ proc' = [proc EXCEPT ![p].pc = "point",
                         ![p].seen = IF proc[p].phase = "undo" THEN @ ELSE moves]
          /\ Stay
     ELSE Refused(p)
  /\ UNCHANGED <<disk, saved, faults, packVars>>

\* Between the check and this write another command may have moved the pointer;
\* and a compensation goes back to its own base, whoever published since.
Overtaken(p) == moves # proc[p].seen

\* What the pointer named is then not what the command was based on, as where
\* another command wrote over the version it was based on.
Unseen(p) == Overtaken(p) \/ proc[p].base.version \in overwritten
BothCover(p, r) == Covers(proc[p].base, r) /\ Covers(proc[p].release, r)

StillKept(p) ==
  CASE proc[p].phase = "undo" -> kept \ {proc[p].mine}
    [] proc[p].phase # "undo" /\ proc[p].cmd = "publish" -> kept
    [] OTHER -> {r \in kept : Covers(proc[p].release, r)}

Point(p) ==
  LET release == proc[p].release
  IN /\ PackAt(p, "point")
     /\ \/ /\ Works /\ pointer' = release /\ moves' = moves + 1
           /\ unbound' = [by |-> p, release |-> release]
           /\ kept' = StillKept(p) \cup {release}
           /\ lost' = IF Unseen(p) THEN lost \cup {r \in StillKept(p) : ~BothCover(p, r)}
                      ELSE lost
           /\ IF proc[p].on = {} THEN Succeeds(p, << >>)
              ELSE /\ proc' = [proc EXCEPT ![p].pc = "bind", ![p].seen = moves + 1]
                   /\ Stay
        \/ Breaks /\ Refused(p)
           /\ UNCHANGED <<pointer, unbound, kept, lost, moves>>
     /\ UNCHANGED <<disk, saved, releases, overwritten>>

-----------------------------------------------------------------------------
(* Binding: the Pack file, then the Closure manifest, then the product        *)
(* descriptor, each a write of its own.                                       *)

Bound(dir, release) ==
  LET closure == Rebound(dir.closure, release)
  IN [dir EXCEPT !.pack = release, !.closure = closure, !.product.closure = closure]

\* A binding that fails: of the base, before anything is published, it is simply
\* reported; of the new release, it is compensated.
BindFails(p) ==
  IF proc[p].phase = "forward" THEN Continue(p, "undo") /\ Stay
  ELSE Fails(p) /\ Expose(IF proc[p].pc = "bind" /\ proc[p].phase = "before"
                          THEN {} ELSE proc[p].on)

Bind(p) ==
  LET dir == disk[PackDraft]
      release == proc[p].release
      may == IsDirectory(dir) /\ MayBind(dir, release)
  IN /\ PackAt(p, "bind")
     /\ \/ /\ may /\ Works
           /\ Put(PackDraft, [dir EXCEPT !.pack = release])
           /\ proc' = [proc EXCEPT ![p].closure = Rebound(dir.closure, release),
                                   ![p].needs = dir.product.needs,
                                   ![p].pc = "manifest"]
           /\ Stay
        \/ FailsIf(~may) /\ BindFails(p) /\ UNCHANGED disk
     /\ UNCHANGED <<saved, packVars>>

\* The manifest is written in place: an error leaves it cut off.
BindManifest(p) ==
  LET dir == disk[PackDraft]
  IN /\ PackAt(p, "manifest")
     /\ \/ /\ IsDirectory(dir) /\ Works
           /\ Put(PackDraft, [dir EXCEPT !.closure = proc[p].closure])
           /\ Continue(p, "product") /\ Stay
        \/ /\ IsDirectory(dir) /\ Breaks
           /\ Put(PackDraft, [dir EXCEPT !.closure = Torn]) /\ BindFails(p)
        \/ ~IsDirectory(dir) /\ Works /\ BindFails(p) /\ UNCHANGED disk
     /\ UNCHANGED <<saved, packVars>>

Described(dir, p) ==
  [dir EXCEPT !.product = [needs |-> proc[p].needs, closure |-> proc[p].closure]]

BindProduct(p) ==
  LET release == proc[p].release
      dir == disk[PackDraft]
      promise == IF PackDraft \in contested THEN owed[PackDraft]
                 ELSE Bound(owed[PackDraft], release)
  IN /\ PackAt(p, "product")
     /\ \/ /\ Works
           /\ Put(PackDraft, Described(IF IsDirectory(dir) THEN dir
                                       ELSE Directory(0, FALSE), p))
           /\ unbound' = IF \/ unbound = Nothing \/ unbound.release = release
                            \/ unbound = [by |-> p, release |-> proc[p].mine]
                         THEN Nothing ELSE unbound
           /\ owed' = [owed EXCEPT ![PackDraft] = promise]
           /\ proc' = [proc EXCEPT ![p] = IF proc[p].phase = "before"
                                          THEN [@ EXCEPT !.pc = "check"] ELSE Idle]
           /\ UNCHANGED <<left, contested, died, crashes, adrift>>
        \/ Breaks /\ BindFails(p) /\ UNCHANGED <<disk, unbound>>
     /\ UNCHANGED <<saved, releases, pointer, kept, lost, overwritten, moves>>

\* Mutant: only the base is bound again.
UndoBindsOnly(p) ==
  /\ PackAt(p, "undo")
  /\ proc' = [proc EXCEPT ![p].mine = proc[p].release,
                          ![p].release = proc[p].base, ![p].phase = "undo",
                          ![p].pc = "bind"]
  /\ Stay /\ UNCHANGED <<disk, saved, faults, packVars>>

\* Compensation: the store is rolled back to the base, then the base bound.
Undo(p) ==
  LET target == releases[proc[p].base.version]
  IN /\ PackAt(p, "undo")
     /\ IF ActiveLoads /\ target # Nothing /\ MayRollBack(pointer, target)
        THEN /\ proc' = [proc EXCEPT ![p].mine = proc[p].release,
                                     ![p].release = target, ![p].phase = "undo",
                                     ![p].expected = pointer.version,
                                     ![p].pc = "store"]
             /\ Stay
        ELSE Fails(p) /\ Expose(proc[p].on)
     /\ UNCHANGED <<disk, saved, faults, packVars>>

PackStep(p) ==
  \/ PublishBegin(p) \/ PublishRefused(p) \/ PublishReviewed(p) \/ CheckBase(p)
  \/ RollBackBegin(p) \/ Store(p) \/ Write(p) \/ Expect(p) \/ Point(p)
  \/ Bind(p) \/ BindManifest(p) \/ BindProduct(p) \/ Undo(p)
=============================================================================
