------------------------ MODULE SkillReleasesProofs ------------------------
(***************************************************************************)
(* What the commands that build, migrate, publish, roll back, install and  *)
(* remove Skills promise, for any number of Skills, processes, commands,   *)
(* faults and crashes, whatever the candidate batches and hosts are: a     *)
(* place no command works at is as the last one there reported, a host     *)
(* holds what passed the gate, a production Closure pins the active Pack,  *)
(* and the active Pack has everything made active before it.               *)
(*                                                                         *)
(* None of these is inductive.  Inv says what each command notes at each of *)
(* its steps (Shape), who works alone (Exclusive), what a place holds at   *)
(* that step compared with what was promised of it (TreesInv), which builds *)
(* its content comes from (SkillsInv), what its Closure pins while a release *)
(* awaits its binding (BoundInv), what a slot and a copy under way have    *)
(* passed (SlotsInv), and what the store and the notes of a command on     *)
(* Packs say of the active release (PacksInv).                             *)
(*                                                                         *)
(* The proof goes by frames: a step of a command changes its own notes and *)
(* the places it works at (Frame), one that starts takes places nobody works *)
(* at or contests them (StartFrame).  A part of Inv is kept by every frame *)
(* (FrameKeeps, TreesKept, SkillsKept, BoundKept, SlotsKept, PacksQuiet) if *)
(* the step does right at those places, which is shown per command         *)
(* (BuildSteps, MigrateSteps, InstallSteps, PackGoal, ...).  The theorems  *)
(* are at the end.                                                         *)
(***************************************************************************)
EXTENDS SkillReleases, TLAPS

-----------------------------------------------------------------------------
(* The inductive invariant.                                                    *)

DraftPlaces == {"draft"} \X Skills
SlotPlaces == {"slot"} \X Skills

\* Steps of a command on Packs: with a manifest in hand, on the way to the pointer,
\* and at the draft that is bound.
Holding == {"manifest", "product"}
Activating == {"store", "write", "expect", "point"}
Binding == {"bind", "manifest", "product"}

\* The notes of each kind of command: its fields, where it works, and how far it is.
IsBuild(c) ==
  /\ c.cmd = "build"
  /\ Fields(c, {"cmd", "pc", "at", "on", "held", "dir"})
  /\ c.pc \in {"compile", "out", "in", "back", "save", "unsave", "replace", "bundle"}
  /\ c.at \in DraftPlaces /\ c.on = {c.at}
  /\ IsContent(c.held) /\ IsContent(c.dir) /\ IsDirectory(c.dir)

\* A function on a set, whatever its values are.
Over(f, set) == f = [x \in set |-> f[x]]

IsMigrate(c) ==
  /\ c.cmd = "migrate"
  /\ Fields(c, {"cmd", "pc", "on", "todo", "done", "at", "dir", "held"})
  /\ c.pc \in {"stage", "out", "next", "in", "back", "revert", "return"}
  /\ c.on \subseteq DraftPlaces
  /\ Over(c.dir, c.on) /\ Over(c.held, c.on)
  /\ \A place \in c.on : IsContent(c.dir[place]) /\ IsContent(c.held[place])
  /\ c.todo \cap c.done = {} /\ c.todo \cup c.done \subseteq c.on
  /\ c.pc \in {"stage", "out"} => c.done = {}
  /\ c.pc \in {"out", "next", "in"} => c.todo \cup c.done = c.on
  /\ c.pc \in {"in", "back"} => c.at \in c.todo
  /\ c.pc = "return" => c.at \in c.done

IsInstall(c) ==
  /\ c.cmd = "install"
  /\ Fields(c, {"cmd", "pc", "at", "on", "from", "host", "keep", "seen", "held", "dir",
                  "todo"})
  /\ c.pc \in {"gate", "out", "copy", "in", "undo"}
  /\ c.at \in SlotPlaces /\ c.on = {c.at} /\ c.from \in DraftPlaces
  /\ c.keep \in BOOLEAN
  /\ IsContent(c.seen) /\ IsContent(c.held) /\ IsContent(c.dir)
  /\ c.dir = Empty \/ IsDirectory(c.dir)

IsUninstall(c) ==
  /\ c.cmd = "uninstall"
  /\ Fields(c, {"cmd", "pc", "at", "on"})
  /\ c.at \in SlotPlaces /\ c.on = {c.at}

IsPack(c) ==
  /\ c.cmd \in PackCommands
  /\ Fields(c, {"cmd", "pc", "on", "phase", "base", "release", "mine", "expected",
                  "seen", "candidate", "version", "closure", "needs"})
  /\ c.phase \in {"before", "forward", "undo"}
  /\ c.pc \in {"review", "check", "undo"} \cup Activating \cup Binding
  /\ c.pc \in {"review", "check"} => c.phase = "before"
  /\ c.phase = "before" => c.pc \in {"review", "check"} \cup Binding
  /\ c.pc = "undo" => c.phase = "forward"
  /\ c.phase = "before" => c.cmd = "publish"
  /\ c.on \in {{}, {PackDraft}}
  /\ c.phase = "undo" \/ c.pc \in {"undo"} \cup Binding => c.on = {PackDraft}
  /\ c.pc \in Holding => IsClosure(c.closure)

IsCommand(c) ==
  c = Idle \/ IsBuild(c) \/ IsMigrate(c) \/ IsInstall(c) \/ IsUninstall(c) \/ IsPack(c)

\* Every process runs a command of these kinds, or none; every place is known.
Shape ==
  /\ proc = [p \in Procs |-> proc[p]] /\ \A p \in Procs : IsCommand(proc[p])
  /\ disk = [place \in Places |-> disk[place]]
  /\ owed = [place \in Places |-> owed[place]]
  /\ \A place \in Places : IsContent(disk[place]) /\ IsContent(owed[place])

\* Where a process works.  Where no two ever worked at once, one works at most.
On(p) == IF Running(p) THEN proc[p].on ELSE {}

Exclusive ==
  \A place \in Places \ contested : \A p, q \in Procs :
    place \in On(p) /\ place \in On(q) => p = q

-----------------------------------------------------------------------------
\* What a place holds, d, at each step of the command that works there, compared
\* with what was promised of it before, o; and what the command has set aside.
BuildTree(c, d, o) ==
  /\ c.pc \in {"compile", "out"} => d = o
  /\ c.pc \in {"in", "back", "replace"} => d = Nothing /\ c.held = o
  /\ c.pc \in {"save", "unsave"} => d = c.dir /\ c.held = o
  /\ c.pc = "bundle" => d = c.dir

\* The directory of the batch that is being swapped.
Aside(c, place) == c.pc \in {"in", "back"} /\ place = c.at

MigrateTree(c, place, d, o) ==
  /\ place \notin c.done /\ ~Aside(c, place) => d = o
  /\ place \in c.done => c.held[place] = o
  /\ place \in c.done /\ ~(c.pc = "return" /\ place = c.at) => d = c.dir[place]
  /\ place \in c.done /\ c.pc = "return" /\ place = c.at => d = Nothing
  /\ Aside(c, place) => d = Nothing /\ c.held[place] = o

InstallTree(c, d, o) ==
  /\ c.pc \in {"gate", "out"} => d = o
  /\ c.pc \in {"copy", "in", "undo"} => d = Nothing /\ c.held = o

\* The directory of a draft that is being bound, but for the Pack and its pins.
Twin(d, o) ==
  \/ d = o
  \/ /\ IsDirectory(d) /\ IsDirectory(o)
     /\ d.skill = o.skill /\ d.ledger = o.ledger /\ d.product = o.product
     /\ IsWhole(o.closure) /\ IsWhole(o.product)
     /\ d.closure = Torn \/ (IsWhole(d.closure)
                              /\ Rebound(d.closure, Nothing) = Rebound(o.closure, Nothing))

\* Before the binding the draft is untouched; from then on it is a twin of what was
\* promised, and the manifest in hand is its Closure with the new pin.
PackTree(c, d, o) ==
  /\ c.phase # "undo" /\ c.pc \notin {"undo"} \cup Holding => d = o
  /\ c.phase = "undo" \/ c.pc \in {"undo"} \cup Holding => Twin(d, o)
  /\ c.pc \in Holding =>
       /\ IsDirectory(d) /\ d.pack = c.release
       /\ IsWhole(o.closure) /\ IsWhole(o.product)
       /\ c.closure = Rebound(o.closure, c.release)
       /\ c.needs = o.product.needs
  /\ c.pc = "product" => d.closure = c.closure

Tree(c, place, d, o) ==
  CASE c.cmd = "build" -> BuildTree(c, d, o)
    [] c.cmd = "migrate" -> MigrateTree(c, place, d, o)
    [] c.cmd = "install" -> InstallTree(c, d, o)
    [] c.cmd = "uninstall" -> d = o
    [] c.cmd \in PackCommands -> PackTree(c, d, o)

\* A place nobody works at is as promised, and one somebody works at as its step says.
TreesInv ==
  \A place \in Places \ (contested \cup adrift) :
    /\ (\A p \in Procs : place \notin On(p)) => disk[place] = owed[place]
    /\ \A p \in Procs : place \in On(p) =>
         Tree(proc[p], place, disk[place], owed[place])

\* A directory that was built holds units of a build that was saved or that died.
KnownIn(d, known) == IsDirectory(d) => d.skill < 1 \/ d.skill \in known

\* The new draft of a build whose units are not saved yet is the exception.
SkillTree(c, place, d, known) ==
  /\ (c.cmd = "build" /\ c.pc \in {"save", "unsave"} /\ d = c.dir) \/ KnownIn(d, known)
  /\ c.cmd = "build" => KnownIn(c.held, known)
  /\ c.cmd = "migrate" => KnownIn(c.held[place], known) /\ KnownIn(c.dir[place], known)

SkillsInv ==
  \A place \in DraftPlaces \ contested :
    /\ (\A p \in Procs : place \notin On(p)) => KnownIn(disk[place], saved \cup died)
    /\ \A p \in Procs : place \in On(p) =>
         SkillTree(proc[p], place, disk[place], saved \cup died)

-----------------------------------------------------------------------------
\* A Closure that opens pins the active release, unless a binding is outstanding.
Good(d, waits, active) ==
  IsDirectory(d) =>
    /\ d.closure = Nothing => d.pack = Nothing
    /\ waits = Nothing /\ Opens(d) /\ d.closure.pack # Nothing => d.closure.pack = active

\* What a command may yet put at the draft that is bound is good as well: what it set
\* aside, what it has compiled or staged, and what it is about to pin.
BoundTree(c, d, waits, active) ==
  /\ c.cmd = "build" =>
       /\ Good(c.held, waits, active)
       /\ c.dir.pack = Nothing
       /\ c.dir.closure = Nothing \/ (c.dir.closure # Torn /\ c.dir.closure.life = "candidate")
  /\ c.cmd = "migrate" =>
       /\ Good(c.held[PackDraft], waits, active)
       /\ IsDirectory(c.dir[PackDraft]) =>
            /\ c.dir[PackDraft].closure # Torn
            /\ c.dir[PackDraft].closure # Nothing
            /\ c.dir[PackDraft].closure.pack = Nothing
       /\ c.pc = "stage" /\ IsDirectory(d) => d.closure = Nothing
  /\ c.cmd \in PackCommands =>
       /\ c.pc \in Binding /\ waits = Nothing => c.release = active
       /\ c.pc \in Holding => /\ IsDirectory(d) /\ d.pack = c.release
                              /\ IsWhole(c.closure) /\ c.closure.pack = c.release
                              /\ d.closure # Nothing
       /\ c.pc = "product" => d.closure = c.closure

\* What a Pack command knows of the release whose binding is outstanding.
BoundNotes(c, p, waits) ==
  /\ c.phase # "undo" => c.mine = Nothing
  /\ c.phase = "undo" /\ c.pc \in Binding /\ waits # Nothing /\ waits.by = p
       => waits.release = c.release

\* The outstanding binding is that of the active release.
BoundInv ==
  /\ unbound # Nothing => unbound.release = pointer /\ pointer # Nothing
  /\ \A p \in Procs : proc[p].cmd \in PackCommands => BoundNotes(proc[p], p, unbound)
  /\ PackDraft \notin contested =>
       /\ Good(disk[PackDraft], unbound, pointer)
       /\ \A p \in Procs : PackDraft \in On(p) =>
            BoundTree(proc[p], disk[PackDraft], unbound, pointer)

-----------------------------------------------------------------------------
\* What a host holds, what an installation set aside, and what it saw at the gate.
Verified(d) ==
  IsDirectory(d) /\ d.product # Nothing => Opens(d) /\ d.product.closure = d.closure

SlotsInv ==
  /\ \A place \in SlotPlaces \ mixed : Verified(disk[place])
  /\ \A p \in Procs : proc[p].cmd = "install" =>
       /\ proc[p].at \notin mixed => Verified(proc[p].held)
       /\ proc[p].pc # "gate" => Verified(proc[p].seen)

-----------------------------------------------------------------------------
\* A release is in the store as it is, unless two commands wrote its version.
StoredAs(release) ==
  release.version \in overwritten \/ releases[release.version] = release

\* What a command on Packs knows: that its base is stored; from the last look at the
\* pointer on, that the base is active unless somebody moved the pointer since; and
\* after its own move, that the base has everything kept but the new release.
PackKnows(c) ==
  /\ c.base # Nothing /\ c.release # Nothing
  /\ c.seen \in 0..moves
  /\ c.version \in 1..MaxVersion
  /\ c.phase # "before" => c.release.version \in 1..MaxVersion
  /\ c.phase = "before" => c.release = c.base
  /\ pointer # Nothing => c.base.version \in 1..MaxVersion /\ StoredAs(c.base)
  /\ c.pc \in {"expect", "point"} => StoredAs(c.release)
  /\ c.pc = "point" \/ c.phase = "undo" \/ c.pc \in {"undo"}
       \/ (c.pc \in Binding /\ c.phase = "forward") => pointer # Nothing
  /\ c.phase # "undo" => c.expected = c.base.version
  /\ c.cmd = "publish" /\ c.phase = "forward" => Covers(c.release, c.base)
  /\ c.phase = "undo" => c.base.version \in overwritten \/ c.release = c.base
  /\ c.pc = "point" /\ c.phase # "undo" /\ moves = c.seen /\ c.base.version \notin overwritten
       => pointer = c.base
  /\ (\/ c.phase = "forward" /\ c.pc \in {"bind", "manifest", "product", "undo"}
      \/ c.phase = "undo" /\ c.pc \in Activating)
     => ( moves = c.seen /\ c.base.version \notin overwritten =>
            \A r \in kept \ lost :
              r # (IF c.phase = "undo" THEN c.mine ELSE c.release) => Covers(c.base, r) )

\* The store, and that the active release has everything that was kept.
PacksInv ==
  /\ moves \in Nat
  /\ releases = [v \in 1..MaxVersion |-> releases[v]]
  /\ \A v \in 1..MaxVersion : releases[v] # Nothing => releases[v].version = v
  /\ pointer # Nothing => /\ pointer.version \in 1..MaxVersion
                          /\ StoredAs(pointer)
                          /\ \A r \in kept \ lost : Covers(pointer, r)
  /\ \A p \in Procs : proc[p].cmd \in PackCommands => PackKnows(proc[p])

\* The invariant.
Inv == /\ Shape /\ Exclusive /\ TreesInv /\ SkillsInv /\ BoundInv /\ SlotsInv /\ PacksInv

-----------------------------------------------------------------------------
\* The values that stand for something missing are no directory and no record.
LEMMA Distinct ==
  /\ Nothing # Torn /\ Nothing # Empty /\ Torn # Empty
  /\ \A d : Fields(d, {"skill", "ledger", "pack", "closure", "product"}) => IsDirectory(d)
  /\ \A c : Fields(c, {"life", "skill", "pack", "caps"}) => IsWhole(c)
  /\ \A d : Fields(d, {"needs", "closure"}) => IsWhole(d)
  /\ \A c : c.cmd # "idle" => c # Idle
  /\ Idle.cmd = "idle"
<1>1. "nothing" \in DOMAIN Nothing /\ "nothing" \notin DOMAIN Torn /\ "nothing" \notin DOMAIN Empty
  BY DEF Nothing, Torn, Empty
<1>2. "torn" \in DOMAIN Torn /\ "torn" \notin DOMAIN Empty
  BY DEF Torn, Empty
<1>3. "empty" \in DOMAIN Empty
  BY DEF Empty
<1>4. ASSUME NEW d, Fields(d, {"skill", "ledger", "pack", "closure", "product"})
      PROVE  IsDirectory(d)
  BY <1>1, <1>2, <1>3, <1>4 DEF IsDirectory, Fields
<1>5. ASSUME NEW c, Fields(c, {"life", "skill", "pack", "caps"})  PROVE  IsWhole(c)
  BY <1>1, <1>2, <1>5 DEF IsWhole, Fields
<1>6. ASSUME NEW d, Fields(d, {"needs", "closure"})  PROVE  IsWhole(d)
  BY <1>1, <1>2, <1>6 DEF IsWhole, Fields
<1>7. Idle.cmd = "idle"
  BY DEF Idle
<1>8. QED  BY <1>1, <1>2, <1>4, <1>5, <1>6, <1>7

\* A running process has a command of one of the five kinds, by its name.
LEMMA Kinds ==
  ASSUME Shape, NEW p \in Procs
  PROVE  /\ Running(p) <=> proc[p].cmd # "idle"
         /\ proc[p].cmd = "build" => IsBuild(proc[p])
         /\ proc[p].cmd = "migrate" => IsMigrate(proc[p])
         /\ proc[p].cmd = "install" => IsInstall(proc[p])
         /\ proc[p].cmd = "uninstall" => IsUninstall(proc[p])
         /\ proc[p].cmd \in PackCommands => IsPack(proc[p])
         /\ Running(p) => \/ IsBuild(proc[p]) \/ IsMigrate(proc[p]) \/ IsInstall(proc[p])
                          \/ IsUninstall(proc[p]) \/ IsPack(proc[p])
<1>1. IsCommand(proc[p])
  BY DEF Shape
<1>2. QED  BY <1>1, Distinct DEF Running, IsCommand, IsBuild, IsMigrate, IsInstall, IsUninstall,
             IsPack, PackCommands

-----------------------------------------------------------------------------
(* What every command keeps of the others: it writes where it works only, and  *)
(* a command under way goes on where it began.                                 *)

ProcFrame(p) ==
  /\ proc' = [q \in Procs |-> IF q = p THEN proc'[p] ELSE proc[q]]
  /\ IsCommand(proc'[p])
  /\ proc'[p] = Idle \/ proc'[p].on = proc[p].on

DiskFrame(p) ==
  /\ disk' = [place \in Places |-> IF place \in proc[p].on THEN disk'[place] ELSE disk[place]]
  /\ \A place \in proc[p].on : IsContent(disk'[place])

OwedFrame(p) ==
  /\ owed' = [place \in Places |-> IF place \in proc[p].on THEN owed'[place] ELSE owed[place]]
  /\ \A place \in proc[p].on : IsContent(owed'[place])

Rest == /\ contested' = contested /\ adrift \subseteq adrift'
        /\ saved \subseteq saved' /\ died \subseteq died'

Frame(p) == Running(p) /\ ProcFrame(p) /\ DiskFrame(p) /\ OwedFrame(p) /\ Rest

\* Places that are in use.
LEMMA OnPlaces ==
  ASSUME Shape, PackSkill \in Skills, NEW p \in Procs, Running(p)
  PROVE  proc[p].on \subseteq Places
<1> USE DEF Places, DraftPlaces, SlotPlaces, PackDraft, Draft
<1>1. CASE IsBuild(proc[p])
  BY <1>1 DEF IsBuild
<1>2. CASE IsMigrate(proc[p])
  BY <1>2 DEF IsMigrate
<1>3. CASE IsInstall(proc[p])
  BY <1>3 DEF IsInstall
<1>4. CASE IsUninstall(proc[p])
  BY <1>4 DEF IsUninstall
<1>5. CASE IsPack(proc[p])
  BY <1>5 DEF IsPack
<1>6. QED  BY <1>1, <1>2, <1>3, <1>4, <1>5, Kinds

\* The directories that the commands make.
LEMMA Made ==
  /\ \A k, l : IsContent(Directory(k, l)) /\ IsDirectory(Directory(k, l))
  /\ \A k, l, n : IsContent(Compiled(k, l, n)) /\ IsDirectory(Compiled(k, l, n))
  /\ \A d, life, n : IsContent(d) /\ IsDirectory(d) =>
       IsContent(Emitted(d, life, n)) /\ IsDirectory(Emitted(d, life, n))
  /\ IsContent(Nothing) /\ IsContent(Torn) /\ IsContent(Empty)
  /\ ~IsDirectory(Nothing) /\ ~IsDirectory(Torn) /\ ~IsDirectory(Empty)
<1>1. \A k, l : IsContent(Directory(k, l)) /\ IsDirectory(Directory(k, l))
  <2>1. ASSUME NEW k, NEW l  PROVE IsDirectory(Directory(k, l))
    BY Distinct DEF Directory, Fields
  <2>2. ASSUME NEW k, NEW l  PROVE IsContent(Directory(k, l))
    BY DEF Directory, IsContent, IsClosure, IsProduct, Fields
  <2>3. QED  BY <2>1, <2>2
<1>2. ASSUME NEW d, NEW life, NEW n, IsContent(d), IsDirectory(d)
      PROVE  IsContent(Emitted(d, life, n)) /\ IsDirectory(Emitted(d, life, n))
  <2> DEFINE c == ClosureFor(d, life, n.caps)
             e == Emitted(d, life, n)
  <2>1. /\ Fields(c, {"life", "skill", "pack", "caps"})
        /\ Fields([needs |-> n, closure |-> c], {"needs", "closure"})
    BY DEF ClosureFor, Fields
  <2>2. e = [d EXCEPT !.closure = c, !.product = [needs |-> n, closure |-> c]]
    BY DEF Emitted
  <2> HIDE DEF c, e
  <2>3. /\ Fields(e, {"skill", "ledger", "pack", "closure", "product"})
        /\ e.closure = c /\ e.product = [needs |-> n, closure |-> c]
    BY <1>2, <2>2 DEF IsContent, Fields
  <2>4. IsDirectory(e)
    BY <2>3, Distinct
  <2>5. QED  BY <2>1, <2>3, <2>4 DEF IsContent, IsClosure, IsProduct, e
<1>3. ~IsDirectory(Nothing) /\ ~IsDirectory(Torn) /\ ~IsDirectory(Empty)
  BY DEF IsDirectory
<1>4. IsContent(Nothing) /\ IsContent(Torn) /\ IsContent(Empty)
  BY <1>3 DEF IsContent
<1>5. ASSUME NEW k, NEW l, NEW n
      PROVE IsContent(Compiled(k, l, n)) /\ IsDirectory(Compiled(k, l, n))
  BY <1>1, <1>2 DEF Compiled
<1>6. QED  BY <1>1, <1>2, <1>3, <1>4, <1>5

\* Only what the process does itself changes.
LEMMA Alone ==
  ASSUME Shape, NEW p \in Procs, NEW c, proc' = [proc EXCEPT ![p] = c]
  PROVE  proc' = [q \in Procs |-> IF q = p THEN proc'[p] ELSE proc[q]] /\ proc'[p] = c
<1>1. proc = [q \in Procs |-> proc[q]]
  BY DEF Shape
<1>2. QED  BY <1>1

\* A command goes on at another place of its program.
LEMMA GoesOn ==
  ASSUME Shape, NEW p \in Procs, NEW pc, Continue(p, pc)
  PROVE  /\ proc' = [q \in Procs |-> IF q = p THEN proc'[p] ELSE proc[q]]
         /\ proc'[p] = [proc[p] EXCEPT !.pc = pc]
<1>1. proc = [q \in Procs |-> proc[q]]
  BY DEF Shape
<1>2. QED  BY <1>1 DEF Continue

\* A build goes on with what it made and set aside.
LEMMA BuildGoesOn ==
  ASSUME Shape, NEW p \in Procs, IsBuild(proc[p]), NEW pc, Continue(p, pc),
         pc \in {"compile", "out", "in", "back", "save", "unsave", "replace", "bundle"}
  PROVE  /\ ProcFrame(p) /\ IsBuild(proc'[p]) /\ proc'[p].pc = pc
         /\ proc'[p].held = proc[p].held /\ proc'[p].dir = proc[p].dir
<1>1. PICK c : c = [proc[p] EXCEPT !.pc = pc]
  OBVIOUS
<1>2. IsBuild(c) /\ c.on = proc[p].on /\ c.pc = pc /\ c.held = proc[p].held /\ c.dir = proc[p].dir
  BY <1>1 DEF IsBuild, Fields
<1>3. QED  BY <1>1, <1>2, GoesOn DEF ProcFrame, IsCommand

\* What a step leaves, or puts where its command works, keeps the frame.
LEMMA DiskKept ==
  ASSUME Shape, PackSkill \in Skills, NEW p \in Procs, Running(p)
  PROVE  /\ disk' = disk => DiskFrame(p)
         /\ owed' = owed => OwedFrame(p)
         /\ \A d : \A place \in proc[p].on :
              /\ Put(place, d) /\ IsContent(d) => DiskFrame(p) /\ disk'[place] = d
              /\ owed' = [owed EXCEPT ![place] = d] /\ IsContent(d) =>
                   OwedFrame(p) /\ owed'[place] = d
<1>1. proc[p].on \subseteq Places
  BY OnPlaces
<1>2. /\ disk = [place \in Places |-> disk[place]]
      /\ owed = [place \in Places |-> owed[place]]
      /\ \A place \in Places : IsContent(disk[place]) /\ IsContent(owed[place])
  BY DEF Shape
<1>3. disk' = disk => DiskFrame(p)
  BY <1>1, <1>2 DEF DiskFrame
<1>4. owed' = owed => OwedFrame(p)
  BY <1>1, <1>2 DEF OwedFrame
<1>5. ASSUME NEW place \in proc[p].on, NEW d, Put(place, d), IsContent(d)
      PROVE  DiskFrame(p) /\ disk'[place] = d
  BY <1>1, <1>2, <1>5 DEF DiskFrame, Put
<1>6. ASSUME NEW place \in proc[p].on, NEW d, owed' = [owed EXCEPT ![place] = d], IsContent(d)
      PROVE  OwedFrame(p) /\ owed'[place] = d
  BY <1>1, <1>2, <1>6 DEF OwedFrame
<1>7. QED  BY <1>3, <1>4, <1>5, <1>6

\* A command that ends, with what it reports as its promise or with none.
LEMMA EndsFrame ==
  ASSUME Shape, PackSkill \in Skills, NEW p \in Procs, Running(p)
  PROVE  /\ Fails(p) => /\ ProcFrame(p) /\ proc'[p] = Idle /\ OwedFrame(p) /\ owed' = owed
                        /\ contested' = contested /\ died' = died
         /\ \A result :
              Succeeds(p, result) /\ (\A place \in proc[p].on : IsContent(result[place])) =>
                /\ ProcFrame(p) /\ proc'[p] = Idle /\ OwedFrame(p)
                /\ \A place \in proc[p].on : owed'[place] = result[place]
                /\ contested' = contested /\ died' = died /\ adrift' = adrift
<1>1. proc = [q \in Procs |-> proc[q]] /\ proc[p].on \subseteq Places
  BY OnPlaces DEF Shape
<1>2. ASSUME proc' = [proc EXCEPT ![p] = Idle]
      PROVE  ProcFrame(p) /\ proc'[p] = Idle
  BY <1>1, <1>2 DEF ProcFrame, IsCommand
<1>3. ASSUME Fails(p)
      PROVE  /\ ProcFrame(p) /\ proc'[p] = Idle /\ OwedFrame(p) /\ owed' = owed
             /\ contested' = contested /\ died' = died
  BY <1>3, <1>2, DiskKept DEF Fails
<1>4. ASSUME NEW result, Succeeds(p, result), \A place \in proc[p].on : IsContent(result[place])
      PROVE  /\ ProcFrame(p) /\ proc'[p] = Idle /\ OwedFrame(p)
             /\ \A place \in proc[p].on : owed'[place] = result[place]
             /\ contested' = contested /\ died' = died /\ adrift' = adrift
  <2>1. ProcFrame(p) /\ proc'[p] = Idle
    BY <1>2, <1>4 DEF Succeeds
  <2>2. owed' = [place \in Places |->
                   IF place \in proc[p].on THEN result[place] ELSE owed[place]]
    BY <1>4 DEF Succeeds
  <2>3. OwedFrame(p) /\ \A place \in proc[p].on : owed'[place] = result[place]
    BY <2>2, <1>1, <1>4 DEF OwedFrame
  <2>4. QED  BY <2>1, <2>3, <1>4 DEF Succeeds
<1>5. QED  BY <1>3, <1>4

BuildActs(p) ==
  \/ BuildRefused(p) \/ BuildCompiled(p) \/ DraftOut(p) \/ DraftIn(p) \/ DraftBack(p)
  \/ SaveUnits(p) \/ RemoveNewDraft(p) \/ RestoreDraft(p) \/ BuildEnds(p)

\* What the steps of a build have in common.
LEMMA BuildFrame ==
  ASSUME Shape, PackSkill \in Skills, NEW p \in Procs, BuildActs(p)
  PROVE  Frame(p) /\ IsBuild(proc[p]) /\ (proc'[p] = Idle \/ IsBuild(proc'[p]))
<1>1. IsBuild(proc[p]) /\ Running(p)
  BY Kinds DEF BuildActs, BuildRefused, BuildCompiled, DraftOut, DraftIn, DraftBack,
       SaveUnits, RemoveNewDraft, RestoreDraft, BuildEnds, At
<1>2. /\ proc[p].on = {proc[p].at} /\ IsContent(disk[proc[p].at])
      /\ IsContent(proc[p].held) /\ IsContent(proc[p].dir)
  BY <1>1, OnPlaces DEF IsBuild, Shape
<1> USE DEF Frame, Rest, Stay, Works, Breaks, FailsIf, Expose
<1>5. CASE BuildRefused(p)
  BY <1>5, <1>1, DiskKept, EndsFrame DEF BuildRefused
<1>6. CASE BuildCompiled(p)
  BY <1>6, <1>1, BuildGoesOn, DiskKept DEF BuildCompiled
<1>7. CASE DraftOut(p)
  <2>1. CASE Fails(p) /\ UNCHANGED <<disk, adrift>>
    BY <1>7, <1>1, <2>1, DiskKept, EndsFrame DEF DraftOut
  <2>2. CASE /\ Put(proc[p].at, Nothing) /\ Stay
             /\ proc' = [proc EXCEPT ![p].held = disk[proc[p].at], ![p].pc = "in"]
    <3>1. proc = [q \in Procs |-> proc[q]]
      BY DEF Shape
    <3>2. PICK c : c = [proc[p] EXCEPT !.held = disk[proc[p].at], !.pc = "in"]
      OBVIOUS
    <3>3. IsBuild(c) /\ c.on = proc[p].on
      BY <3>2, <1>1, <1>2 DEF IsBuild, Fields
    <3>4. ProcFrame(p) /\ IsBuild(proc'[p])
      BY <3>1, <3>2, <3>3, <2>2 DEF ProcFrame, IsCommand
    <3>5. QED  BY <1>7, <1>1, <1>2, <2>2, <3>4, DiskKept, Made DEF DraftOut
  <2>3. QED  BY <1>7, <2>1, <2>2 DEF DraftOut
<1>8. CASE DraftIn(p)
  BY <1>8, <1>1, <1>2, BuildGoesOn, DiskKept DEF DraftIn
<1>9. CASE DraftBack(p)
  BY <1>9, <1>1, <1>2, DiskKept, EndsFrame DEF DraftBack
<1>10. CASE SaveUnits(p)
  BY <1>10, <1>1, BuildGoesOn, DiskKept DEF SaveUnits
<1>11. CASE RemoveNewDraft(p)
  BY <1>11, <1>1, <1>2, BuildGoesOn, DiskKept, EndsFrame, Made DEF RemoveNewDraft
<1>12. CASE RestoreDraft(p)
  BY <1>12, <1>1, <1>2, DiskKept, EndsFrame DEF RestoreDraft
<1>13. CASE BuildEnds(p)
  BY <1>13, <1>1, <1>2, DiskKept, EndsFrame DEF BuildEnds
<1>14. QED  BY <1>5, <1>6, <1>7, <1>8, <1>9, <1>10, <1>11, <1>12, <1>13 DEF BuildActs

\* What the notes of a migration say, one by one.
LEMMA MigrateGoesOn ==
  ASSUME Shape, NEW p \in Procs, IsMigrate(proc[p]), NEW pc, Continue(p, pc),
         pc \in {"back", "revert"}, pc = "back" => proc[p].pc = "in"
  PROVE  /\ ProcFrame(p) /\ IsMigrate(proc'[p])
         /\ proc'[p].pc = pc /\ proc'[p].todo = proc[p].todo /\ proc'[p].done = proc[p].done
         /\ proc'[p].at = proc[p].at
         /\ proc'[p].dir = proc[p].dir /\ proc'[p].held = proc[p].held
<1>1. PICK c : c = [proc[p] EXCEPT !.pc = pc]
  OBVIOUS
<1>2. /\ Fields(c, {"cmd", "pc", "on", "todo", "done", "at", "dir", "held"})
      /\ c.cmd = "migrate" /\ c.pc = pc /\ c.on = proc[p].on /\ c.todo = proc[p].todo
      /\ c.done = proc[p].done /\ c.at = proc[p].at
      /\ c.dir = proc[p].dir /\ c.held = proc[p].held
  BY <1>1 DEF IsMigrate, Fields
<1>3. IsMigrate(c)
  BY <1>2 DEF IsMigrate
<1>4. QED  BY <1>1, <1>2, <1>3, GoesOn DEF ProcFrame, IsCommand

MigrateActs(p) ==
  \/ Stage(p) \/ LegacyOut(p) \/ MigratedIn(p) \/ LegacyBack(p) \/ Revert(p) \/ Return(p)

\* The three ways in which a migration notes how far it is.
LEMMA StageNotes ==
  ASSUME Shape, PackSkill \in Skills, NEW p \in Procs, IsMigrate(proc[p]),
         proc[p].pc = "stage",
         NEW place \in proc[p].todo, IsDirectory(disk[place]),
         proc' = [proc EXCEPT ![p].dir[place] = Migrated(disk[place]),
                 ![p].todo = IF @ = {place} THEN proc[p].on ELSE @ \ {place},
                 ![p].pc = IF proc[p].todo = {place} THEN "out" ELSE "stage"]
  PROVE  /\ ProcFrame(p) /\ IsMigrate(proc'[p])
         /\ proc'[p].pc \in {"stage", "out"} /\ proc'[p].done = {}
         /\ proc'[p].dir = [proc[p].dir EXCEPT ![place] = Migrated(disk[place])]
         /\ proc'[p].held = proc[p].held
<1>1. /\ proc = [q \in Procs |-> proc[q]] /\ Running(p) /\ place \in proc[p].on
      /\ proc[p].on \subseteq Places
  BY OnPlaces, Distinct DEF Shape, IsMigrate, Running
<1>2. PICK todo : todo = IF proc[p].todo = {place} THEN proc[p].on ELSE proc[p].todo \ {place}
  OBVIOUS
<1>3. PICK pc : pc = IF proc[p].todo = {place} THEN "out" ELSE "stage"
  OBVIOUS
<1>4. PICK dir : dir = [proc[p].dir EXCEPT ![place] = Migrated(disk[place])]
  OBVIOUS
<1>5. PICK c : c = [proc[p] EXCEPT !.dir = dir, !.todo = todo, !.pc = pc]
  OBVIOUS
<1>6. IsContent(Migrated(disk[place]))
  BY <1>1, Made DEF Shape, Migrated
<1>7. Over(dir, proc[p].on) /\ \A there \in proc[p].on : IsContent(dir[there])
  BY <1>1, <1>4, <1>6 DEF IsMigrate, Over
<1>8. todo \subseteq proc[p].on /\ pc \in {"stage", "out"} /\ (pc = "out" => todo = proc[p].on)
  BY <1>2, <1>3 DEF IsMigrate
<1>9. /\ Fields(c, {"cmd", "pc", "on", "todo", "done", "at", "dir", "held"})
      /\ c.cmd = "migrate" /\ c.pc = pc /\ c.on = proc[p].on /\ c.todo = todo
      /\ c.done = {} /\ c.dir = dir /\ c.held = proc[p].held
  BY <1>5 DEF IsMigrate, Fields
<1>10. IsMigrate(c)
  <2>1. Over(proc[p].held, proc[p].on) /\ \A there \in proc[p].on : IsContent(proc[p].held[there])
    BY DEF IsMigrate
  <2>2. c.on \subseteq DraftPlaces
    BY <1>9 DEF IsMigrate
  <2>3. QED  BY <1>7, <1>8, <1>9, <2>1, <2>2 DEF IsMigrate
<1>11. proc' = [proc EXCEPT ![p] = c]
  BY <1>2, <1>3, <1>4, <1>5
<1>12. QED  BY <1>4, <1>8, <1>9, <1>10, <1>11, Alone DEF ProcFrame, IsCommand

\* A legacy directory is set aside, and the note says which.
LEMMA OutNotes ==
  ASSUME Shape, PackSkill \in Skills, NEW p \in Procs, IsMigrate(proc[p]),
         proc[p].pc \in {"out", "next"}, NEW place \in proc[p].todo,
         proc' = [proc EXCEPT ![p].held[place] = disk[place], ![p].at = place, ![p].pc = "in"]
  PROVE  /\ ProcFrame(p) /\ IsMigrate(proc'[p])
         /\ proc'[p].pc = "in" /\ proc'[p].todo = proc[p].todo /\ proc'[p].done = proc[p].done
         /\ proc'[p].at = place /\ proc'[p].dir = proc[p].dir
         /\ proc'[p].held = [proc[p].held EXCEPT ![place] = disk[place]]
<1>1. /\ proc = [q \in Procs |-> proc[q]] /\ Running(p) /\ place \in proc[p].on
      /\ proc[p].on \subseteq Places
  BY OnPlaces, Distinct DEF Shape, IsMigrate, Running
<1>2. PICK held : held = [proc[p].held EXCEPT ![place] = disk[place]]
  OBVIOUS
<1>3. PICK c : c = [proc[p] EXCEPT !.held = held, !.at = place, !.pc = "in"]
  OBVIOUS
<1>4. IsContent(disk[place])
  BY <1>1 DEF Shape
<1>5. Over(held, proc[p].on) /\ \A there \in proc[p].on : IsContent(held[there])
  BY <1>1, <1>2, <1>4 DEF IsMigrate, Over
<1>6. /\ Fields(c, {"cmd", "pc", "on", "todo", "done", "at", "dir", "held"})
      /\ c.cmd = "migrate" /\ c.pc = "in" /\ c.on = proc[p].on /\ c.todo = proc[p].todo
      /\ c.done = proc[p].done /\ c.at = place /\ c.dir = proc[p].dir /\ c.held = held
  BY <1>3 DEF IsMigrate, Fields
<1>7. IsMigrate(c)
  BY <1>5, <1>6 DEF IsMigrate
<1>8. proc' = [proc EXCEPT ![p] = c]
  BY <1>2, <1>3
<1>9. QED  BY <1>2, <1>6, <1>7, <1>8, Alone DEF ProcFrame, IsCommand

\* Notes that leave what was staged and set aside as it is.
LEMMA SwapNotes ==
  ASSUME Shape, NEW p \in Procs, IsMigrate(proc[p]), NEW c, proc' = [proc EXCEPT ![p] = c],
         Fields(c, {"cmd", "pc", "on", "todo", "done", "at", "dir", "held"}),
         c.cmd = "migrate", c.on = proc[p].on, c.dir = proc[p].dir, c.held = proc[p].held,
         c.pc \in {"next", "revert", "return"},
         c.todo \cap c.done = {}, c.todo \cup c.done \subseteq c.on,
         c.pc = "next" => c.todo \cup c.done = c.on, c.pc = "return" => c.at \in c.done
  PROVE  ProcFrame(p) /\ IsMigrate(proc'[p]) /\ proc'[p] = c
<1>1. /\ Over(proc[p].held, proc[p].on) /\ Over(proc[p].dir, proc[p].on)
      /\ \A there \in proc[p].on : IsContent(proc[p].held[there]) /\ IsContent(proc[p].dir[there])
      /\ proc[p].on \subseteq DraftPlaces
  BY DEF IsMigrate
<1>2. IsMigrate(c)
  BY <1>1 DEF IsMigrate
<1>3. QED  BY <1>2, Alone DEF ProcFrame, IsCommand

\* What the steps of a migration have in common.
LEMMA MigrateFrame ==
  ASSUME Shape, PackSkill \in Skills, NEW p \in Procs, MigrateActs(p)
  PROVE  Frame(p) /\ IsMigrate(proc[p]) /\ (proc'[p] = Idle \/ IsMigrate(proc'[p]))
<1>1. IsMigrate(proc[p]) /\ Running(p)
  BY Kinds DEF MigrateActs, Stage, LegacyOut, MigratedIn, LegacyBack, Revert, Return, At
<1>2. /\ proc[p].on \subseteq Places
      /\ proc[p].todo \subseteq proc[p].on /\ proc[p].done \subseteq proc[p].on
      /\ \A place \in proc[p].on : /\ IsContent(disk[place]) /\ IsContent(proc[p].held[place])
                                   /\ IsContent(proc[p].dir[place])
  BY <1>1, OnPlaces DEF IsMigrate, Shape
<1> USE DEF Frame, Rest, Stay, Works, Breaks, FailsIf, Expose
<1>3. CASE Stage(p)
  <2>1. CASE Fails(p) /\ UNCHANGED <<adrift, disk, saved>>
    BY <2>1, <1>1, DiskKept, EndsFrame
  <2>2. ASSUME NEW place \in proc[p].todo, IsDirectory(disk[place]), Stay, disk' = disk,
               saved' = saved,
               proc' = [proc EXCEPT ![p].dir[place] = Migrated(disk[place]),
                 ![p].todo = IF @ = {place} THEN proc[p].on ELSE @ \ {place},
                 ![p].pc = IF proc[p].todo = {place} THEN "out" ELSE "stage"]
        PROVE  Frame(p) /\ IsMigrate(proc[p]) /\ (proc'[p] = Idle \/ IsMigrate(proc'[p]))
    <3>1. proc[p].pc = "stage"
      BY <1>3 DEF Stage, At
    <3>2. ProcFrame(p) /\ IsMigrate(proc'[p])
      BY <3>1, <2>2, <1>1, StageNotes
    <3>3. QED  BY <3>2, <2>2, <1>1, DiskKept
  <2>3. QED  BY <1>3, <2>1, <2>2 DEF Stage
<1>4. CASE LegacyOut(p)
  <2>1. ASSUME NEW place \in proc[p].todo, Put(place, Nothing), Stay, saved' = saved,
               proc' = [proc EXCEPT ![p].held[place] = disk[place], ![p].at = place,
                                    ![p].pc = "in"]
        PROVE  Frame(p) /\ IsMigrate(proc[p]) /\ (proc'[p] = Idle \/ IsMigrate(proc'[p]))
    <3>1. proc[p].pc \in {"out", "next"}
      BY <1>4 DEF LegacyOut, At
    <3>2. ProcFrame(p) /\ IsMigrate(proc'[p])
      BY <3>1, <2>1, <1>1, OutNotes
    <3>3. QED  BY <3>2, <2>1, <1>1, <1>2, DiskKept, Made
  <2>2. CASE Continue(p, "revert") /\ disk' = disk /\ Stay /\ saved' = saved
    BY <2>2, <1>1, MigrateGoesOn, DiskKept
  <2>3. QED  BY <1>4, <2>1, <2>2 DEF LegacyOut
<1>5. CASE MigratedIn(p)
  <2>0. proc[p].pc = "in" /\ proc[p].at \in proc[p].on
    BY <1>5, <1>1, <1>2 DEF MigratedIn, At, IsMigrate
  <2>1. CASE /\ Put(proc[p].at, proc[p].dir[proc[p].at]) /\ Succeeds(p, proc[p].dir)
             /\ saved' = saved
    BY <2>1, <2>0, <1>1, <1>2, DiskKept, EndsFrame
  <2>2. CASE /\ Put(proc[p].at, proc[p].dir[proc[p].at]) /\ Stay /\ saved' = saved
             /\ proc' = [proc EXCEPT ![p].todo = proc[p].todo \ {proc[p].at},
                                     ![p].pc = "next", ![p].done = @ \cup {proc[p].at}]
    <3>1. PICK c : c = [proc[p] EXCEPT !.todo = proc[p].todo \ {proc[p].at},
                          !.done = proc[p].done \cup {proc[p].at}, !.pc = "next"]
      OBVIOUS
    <3>2. proc' = [proc EXCEPT ![p] = c]
      BY <2>2, <3>1
    <3>3. /\ Fields(c, {"cmd", "pc", "on", "todo", "done", "at", "dir", "held"})
          /\ c.cmd = "migrate" /\ c.on = proc[p].on /\ c.dir = proc[p].dir
          /\ c.held = proc[p].held /\ c.pc = "next"
          /\ c.todo = proc[p].todo \ {proc[p].at} /\ c.done = proc[p].done \cup {proc[p].at}
          /\ c.at = proc[p].at
      BY <1>1, <3>1 DEF IsMigrate, Fields
    <3>4. /\ c.todo \cap c.done = {} /\ c.todo \cup c.done \subseteq proc[p].on
          /\ c.pc = "next" => c.todo \cup c.done = proc[p].on
          /\ c.pc = "return" => c.at \in c.done
      BY <2>2, <1>1, <1>2, <2>0, <3>3 DEF IsMigrate
    <3>5. ProcFrame(p) /\ IsMigrate(proc'[p])
      BY <3>2, <3>3, <3>4, <1>1, SwapNotes
    <3>6. QED  BY <3>5, <2>0, <2>2, <1>1, <1>2, DiskKept, Made
  <2>3. CASE Continue(p, "back") /\ disk' = disk /\ Stay /\ saved' = saved
    BY <2>3, <2>0, <1>1, MigrateGoesOn, DiskKept
  <2>4. QED  BY <1>5, <2>1, <2>2, <2>3 DEF MigratedIn
<1>6. CASE LegacyBack(p)
  <2>0. proc[p].at \in proc[p].on
    BY <1>6, <1>1, <1>2 DEF LegacyBack, At, IsMigrate
  <2>1. QED  BY <1>6, <2>0, <1>1, <1>2, MigrateGoesOn, DiskKept DEF LegacyBack
<1>7. CASE Revert(p)
  <2>0. TRUE
    OBVIOUS
  <2>1. CASE Fails(p) /\ UNCHANGED <<adrift, disk, saved>>
    BY <2>1, <1>1, DiskKept, EndsFrame
  <2>2. ASSUME NEW place \in proc[p].done, Put(place, Nothing), Stay, saved' = saved,
               proc' = [proc EXCEPT ![p].at = place, ![p].pc = "return"]
        PROVE  Frame(p) /\ IsMigrate(proc[p]) /\ (proc'[p] = Idle \/ IsMigrate(proc'[p]))
    <3>1. PICK c : c = [proc[p] EXCEPT !.at = place, !.pc = "return"]
      OBVIOUS
    <3>2. proc' = [proc EXCEPT ![p] = c]
      BY <2>2, <3>1
    <3>3. /\ Fields(c, {"cmd", "pc", "on", "todo", "done", "at", "dir", "held"})
          /\ c.cmd = "migrate" /\ c.on = proc[p].on /\ c.dir = proc[p].dir
          /\ c.held = proc[p].held /\ c.pc = "return"
          /\ c.todo = proc[p].todo /\ c.done = proc[p].done
          /\ c.at = place
      BY <1>1, <3>1 DEF IsMigrate, Fields
    <3>4. /\ c.todo \cap c.done = {} /\ c.todo \cup c.done \subseteq proc[p].on
          /\ c.pc = "next" => c.todo \cup c.done = proc[p].on
          /\ c.pc = "return" => c.at \in c.done
      BY <2>2, <1>1, <1>2, <2>0, <3>3 DEF IsMigrate
    <3>5. ProcFrame(p) /\ IsMigrate(proc'[p])
      BY <3>2, <3>3, <3>4, <1>1, SwapNotes
    <3>6. QED  BY <3>5, <2>0, <2>2, <1>1, <1>2, DiskKept, Made
  <2>3. QED  BY <1>7, <2>1, <2>2 DEF Revert
<1>8. CASE Return(p)
  <2>0. proc[p].at \in proc[p].on /\ proc[p].at \in proc[p].done
    BY <1>8, <1>1, <1>2 DEF Return, At, IsMigrate
  <2>1. CASE /\ Put(proc[p].at, proc[p].held[proc[p].at]) /\ Stay /\ saved' = saved
             /\ proc' = [proc EXCEPT ![p].done = @ \ {proc[p].at}, ![p].pc = "revert"]
    <3>1. PICK c : c = [proc[p] EXCEPT !.done = proc[p].done \ {proc[p].at}, !.pc = "revert"]
      OBVIOUS
    <3>2. proc' = [proc EXCEPT ![p] = c]
      BY <2>1, <3>1
    <3>3. /\ Fields(c, {"cmd", "pc", "on", "todo", "done", "at", "dir", "held"})
          /\ c.cmd = "migrate" /\ c.on = proc[p].on /\ c.dir = proc[p].dir
          /\ c.held = proc[p].held /\ c.pc = "revert"
          /\ c.todo = proc[p].todo /\ c.done = proc[p].done \ {proc[p].at}
          /\ c.at = proc[p].at
      BY <1>1, <3>1 DEF IsMigrate, Fields
    <3>4. /\ c.todo \cap c.done = {} /\ c.todo \cup c.done \subseteq proc[p].on
          /\ c.pc = "next" => c.todo \cup c.done = proc[p].on
          /\ c.pc = "return" => c.at \in c.done
      BY <2>1, <1>1, <1>2, <2>0, <3>3 DEF IsMigrate
    <3>5. ProcFrame(p) /\ IsMigrate(proc'[p])
      BY <3>2, <3>3, <3>4, <1>1, SwapNotes
    <3>6. QED  BY <3>5, <2>0, <2>1, <1>1, <1>2, DiskKept, Made
  <2>2. CASE Fails(p) /\ Expose(proc[p].on) /\ disk' = disk /\ saved' = saved
    BY <2>2, <1>1, DiskKept, EndsFrame
  <2>3. QED  BY <1>8, <2>1, <2>2 DEF Return
<1>9. QED  BY <1>3, <1>4, <1>5, <1>6, <1>7, <1>8 DEF MigrateActs

\* An installation goes on with what it has seen, set aside and copied.
LEMMA InstallGoesOn ==
  ASSUME NEW p \in Procs, Shape, IsInstall(proc[p]), NEW c, proc' = [proc EXCEPT ![p] = c],
         Fields(c, {"cmd", "pc", "at", "on", "from", "host", "keep", "seen", "held", "dir",
                    "todo"}),
         c.cmd = "install", c.at = proc[p].at, c.on = proc[p].on, c.from = proc[p].from,
         c.keep = proc[p].keep,
         c.pc \in {"gate", "out", "copy", "in", "undo"},
         IsContent(c.seen), IsContent(c.held), IsContent(c.dir),
         c.dir = Empty \/ IsDirectory(c.dir)
  PROVE  ProcFrame(p) /\ IsInstall(proc'[p]) /\ proc'[p] = c
<1>1. IsInstall(c)
  BY DEF IsInstall
<1>2. QED  BY <1>1, Alone DEF ProcFrame, IsCommand

InstallActs(p) == Gate(p) \/ SlotOut(p) \/ Copy(p) \/ SlotIn(p) \/ SlotUndo(p)

\* A copy that has got one more part is a directory still.
LEMMA CopiedContent ==
  ASSUME NEW staged, IsContent(staged), IsDirectory(staged),
         NEW source, IsContent(source), IsDirectory(source), NEW part
  PROVE  IsContent(Copied(staged, source, part)) /\ IsDirectory(Copied(staged, source, part))
<1>1. PICK d : d = Copied(staged, source, part)
  OBVIOUS
<1>2. /\ Fields(d, {"skill", "ledger", "pack", "closure", "product"})
      /\ \/ d.closure = source.closure /\ d.product = source.product
         \/ d.closure = staged.closure /\ d.product = staged.product
  BY <1>1 DEF Copied, IsContent, Fields
<1>3. IsDirectory(d)
  BY <1>2, Distinct
<1>4. QED  BY <1>1, <1>2, <1>3 DEF IsContent

\* What the steps of an installation have in common.
LEMMA InstallFrame ==
  ASSUME Shape, PackSkill \in Skills, NEW p \in Procs, InstallActs(p)
  PROVE  Frame(p) /\ IsInstall(proc[p]) /\ (proc'[p] = Idle \/ IsInstall(proc'[p]))
<1>1. IsInstall(proc[p]) /\ Running(p)
  BY Kinds DEF InstallActs, Gate, SlotOut, Copy, SlotIn, SlotUndo, At
<1>2. /\ proc[p].on = {proc[p].at} /\ IsContent(disk[proc[p].at])
      /\ IsContent(proc[p].held) /\ IsContent(proc[p].dir) /\ IsContent(proc[p].seen)
      /\ proc[p].dir = Empty \/ IsDirectory(proc[p].dir)
  BY <1>1, OnPlaces DEF IsInstall, Shape
<1>3. proc[p].from \in Places /\ IsContent(disk[proc[p].from])
  BY <1>1 DEF IsInstall, Shape, DraftPlaces, Places
<1>4. /\ proc = [q \in Procs |-> proc[q]]
      /\ Fields(proc[p], {"cmd", "pc", "at", "on", "from", "host", "keep", "seen", "held",
                          "dir", "todo"})
      /\ proc[p].cmd = "install"
  BY <1>1 DEF Shape, IsInstall
<1>5. ASSUME Continue(p, "undo") \/ Continue(p, "in")
      PROVE  ProcFrame(p) /\ IsInstall(proc'[p])
  <2>1. PICK pc \in {"undo", "in"} : proc' = [proc EXCEPT ![p].pc = pc]
    BY <1>5 DEF Continue
  <2>2. PICK c : c = [proc[p] EXCEPT !.pc = pc]
    OBVIOUS
  <2>3. proc' = [proc EXCEPT ![p] = c]
    BY <2>1, <2>2
  <2>4. /\ Fields(c, {"cmd", "pc", "at", "on", "from", "host", "keep", "seen", "held",
                     "dir", "todo"})
        /\ c.cmd = "install" /\ c.at = proc[p].at /\ c.on = proc[p].on
        /\ c.from = proc[p].from /\ c.keep = proc[p].keep
        /\ c.pc = pc /\ c.seen = proc[p].seen /\ c.held = proc[p].held /\ c.dir = proc[p].dir
    BY <2>2, <1>4 DEF Fields
  <2>5. /\ IsContent(c.seen) /\ IsContent(c.held) /\ IsContent(c.dir)
        /\ c.dir = Empty \/ IsDirectory(c.dir)
    BY <2>4, <1>2
  <2>6. QED  BY <2>3, <2>4, <2>5, <1>1, InstallGoesOn
<1>6. CASE Gate(p)
  <2>1. CASE Fails(p) /\ UNCHANGED adrift
    BY <1>6, <2>1, <1>1, DiskKept, EndsFrame DEF Gate, Frame, Rest
  <2>2. CASE Stay /\ proc' = [proc EXCEPT ![p].seen = disk[proc[p].from], ![p].pc = "out"]
    <3>1. PICK c : c = [proc[p] EXCEPT !.seen = disk[proc[p].from], !.pc = "out"]
      OBVIOUS
    <3>2. proc' = [proc EXCEPT ![p] = c]
      BY <2>2, <3>1
    <3>3. /\ Fields(c, {"cmd", "pc", "at", "on", "from", "host", "keep", "seen", "held",
                       "dir", "todo"})
          /\ c.cmd = "install" /\ c.at = proc[p].at /\ c.on = proc[p].on
          /\ c.from = proc[p].from /\ c.keep = proc[p].keep
          /\ c.pc = "out" /\ c.seen = disk[proc[p].from] /\ c.held = proc[p].held
          /\ c.dir = proc[p].dir
      BY <3>1, <1>4 DEF Fields
    <3>4. /\ IsContent(c.seen) /\ IsContent(c.held) /\ IsContent(c.dir)
          /\ c.dir = Empty \/ IsDirectory(c.dir)
      BY <3>3, <1>2, <1>3
    <3>5. ProcFrame(p) /\ IsInstall(proc'[p])
      BY <3>2, <3>3, <3>4, <1>1, InstallGoesOn
    <3>6. QED  BY <1>6, <2>2, <3>5, <1>1, DiskKept DEF Gate, Frame, Rest, Stay
  <2>3. QED  BY <1>6, <2>1, <2>2 DEF Gate
<1>7. CASE SlotOut(p)
  <2>1. CASE Breaks /\ disk[proc[p].at] # Nothing /\ Fails(p)
    BY <1>7, <2>1, <1>1, <1>2, DiskKept, EndsFrame, Made DEF SlotOut, Frame, Rest, Expose
  <2>2. CASE /\ Put(proc[p].at, Nothing)
             /\ proc' = [proc EXCEPT
                  ![p].held = IF proc[p].keep THEN disk[proc[p].at] ELSE Nothing,
                  ![p].pc = "copy"]
             /\ owed' = IF proc[p].keep THEN owed ELSE [owed EXCEPT ![proc[p].at] = Nothing]
             /\ UNCHANGED <<left, contested, died, crashes, adrift>>
    <3>1. PICK held : held = IF proc[p].keep THEN disk[proc[p].at] ELSE Nothing
      OBVIOUS
    <3>2. PICK c : c = [proc[p] EXCEPT !.held = held, !.pc = "copy"]
      OBVIOUS
    <3>3. proc' = [proc EXCEPT ![p] = c]
      BY <2>2, <3>1, <3>2
    <3>4. /\ Fields(c, {"cmd", "pc", "at", "on", "from", "host", "keep", "seen", "held",
                       "dir", "todo"})
          /\ c.cmd = "install" /\ c.at = proc[p].at /\ c.on = proc[p].on
          /\ c.from = proc[p].from /\ c.keep = proc[p].keep
          /\ c.pc = "copy" /\ c.seen = proc[p].seen /\ c.held = held /\ c.dir = proc[p].dir
      BY <3>2, <1>4 DEF Fields
    <3>5. /\ IsContent(c.seen) /\ IsContent(c.held) /\ IsContent(c.dir)
          /\ c.dir = Empty \/ IsDirectory(c.dir)
      BY <3>1, <3>4, <1>2, Made
    <3>6. ProcFrame(p) /\ IsInstall(proc'[p])
      BY <3>3, <3>4, <3>5, <1>1, InstallGoesOn
    <3>7. OwedFrame(p) /\ DiskFrame(p)
      BY <2>2, <1>1, <1>2, DiskKept, Made
    <3>8. QED  BY <1>7, <2>2, <3>6, <3>7, <1>1 DEF SlotOut, Frame, Rest
  <2>3. QED  BY <1>7, <2>1, <2>2 DEF SlotOut
<1>8. CASE Copy(p)
  <2>1. CASE Continue(p, "undo") \/ Continue(p, "in")
    BY <1>8, <2>1, <1>5, <1>1, DiskKept DEF Copy, Frame, Rest, Stay
  <2>2. ASSUME NEW part \in proc[p].todo, IsDirectory(disk[proc[p].from]),
               proc' = [proc EXCEPT
                  ![p].dir = Copied(IF @ = Empty THEN Directory(0, FALSE) ELSE @,
                                    disk[proc[p].from], part),
                  ![p].todo = @ \ {part},
                  ![p].pc = IF proc[p].todo = {part} THEN "in" ELSE "copy"]
        PROVE  Frame(p) /\ IsInstall(proc[p]) /\ (proc'[p] = Idle \/ IsInstall(proc'[p]))
    <3>1. PICK staged : staged = IF proc[p].dir = Empty THEN Directory(0, FALSE) ELSE proc[p].dir
      OBVIOUS
    <3>2. IsContent(staged) /\ IsDirectory(staged)
      BY <3>1, <1>2, Made
    <3>3. PICK dir : dir = Copied(staged, disk[proc[p].from], part)
      OBVIOUS
    <3>4. IsContent(dir) /\ IsDirectory(dir)
      BY <3>2, <3>3, <2>2, <1>3, CopiedContent
    <3>5. PICK pc \in {"in", "copy"} : pc = IF proc[p].todo = {part} THEN "in" ELSE "copy"
      OBVIOUS
    <3>6. PICK c : c = [proc[p] EXCEPT !.dir = dir, !.todo = proc[p].todo \ {part}, !.pc = pc]
      OBVIOUS
    <3>7. proc' = [proc EXCEPT ![p] = c]
      BY <2>2, <3>1, <3>3, <3>5, <3>6
    <3>8. /\ Fields(c, {"cmd", "pc", "at", "on", "from", "host", "keep", "seen", "held",
                       "dir", "todo"})
          /\ c.cmd = "install" /\ c.at = proc[p].at /\ c.on = proc[p].on
          /\ c.from = proc[p].from /\ c.keep = proc[p].keep
          /\ c.pc = pc /\ c.seen = proc[p].seen /\ c.held = proc[p].held /\ c.dir = dir
      BY <3>6, <1>4 DEF Fields
    <3>9. ProcFrame(p) /\ IsInstall(proc'[p])
      BY <3>7, <3>8, <3>4, <1>1, <1>2, InstallGoesOn
    <3>10. QED  BY <1>8, <3>9, <1>1, DiskKept DEF Copy, Frame, Rest, Stay
  <2>3. QED  BY <1>8, <2>1, <2>2 DEF Copy
<1>9. CASE SlotIn(p)
  BY <1>9, <1>1, <1>2, <1>5, DiskKept, EndsFrame DEF SlotIn, Frame, Rest, Stay
<1>10. CASE SlotUndo(p)
  BY <1>10, <1>1, <1>2, DiskKept, EndsFrame DEF SlotUndo, Frame, Rest, Expose
<1>11. QED  BY <1>6, <1>7, <1>8, <1>9, <1>10 DEF InstallActs

\* And the step of a removal.
LEMMA RemoveFrame ==
  ASSUME Shape, PackSkill \in Skills, NEW p \in Procs, RemoveSlot(p)
  PROVE  Frame(p) /\ IsUninstall(proc[p]) /\ proc'[p] = Idle
<1>1. IsUninstall(proc[p]) /\ Running(p)
  BY Kinds DEF RemoveSlot, At
<1>2. proc[p].on = {proc[p].at}
  BY <1>1 DEF IsUninstall
<1>3. QED  BY <1>1, <1>2, DiskKept, EndsFrame, Made DEF RemoveSlot, Frame, Rest, Expose

\* A command on Packs goes on with its notes changed.
LEMMA PackGoesOn ==
  ASSUME NEW p \in Procs, Shape, NEW c, proc' = [proc EXCEPT ![p] = c],
         IsPack(c), c.on = proc[p].on
  PROVE  ProcFrame(p) /\ proc'[p] = c
BY Alone DEF ProcFrame, IsCommand

\* What the steps of a Pack command may name next.
LEMMA PackContinues ==
  ASSUME NEW p \in Procs, Shape, IsPack(proc[p]), NEW pc, Continue(p, pc),
         pc \in {"review", "check", "undo"} \cup Activating \cup Binding,
         pc \in {"review", "check"} => proc[p].phase = "before",
         proc[p].phase = "before" => pc \in {"review", "check"} \cup Binding,
         pc = "undo" => proc[p].phase = "forward",
         proc[p].phase = "undo" \/ pc \in {"undo"} \cup Binding => proc[p].on = {PackDraft},
         pc \in Holding => IsClosure(proc[p].closure)
  PROVE  /\ ProcFrame(p) /\ IsPack(proc'[p])
         /\ proc'[p].cmd = proc[p].cmd /\ proc'[p].pc = pc /\ proc'[p].on = proc[p].on
         /\ proc'[p].phase = proc[p].phase /\ proc'[p].base = proc[p].base
         /\ proc'[p].release = proc[p].release /\ proc'[p].mine = proc[p].mine
         /\ proc'[p].expected = proc[p].expected /\ proc'[p].seen = proc[p].seen
         /\ proc'[p].version = proc[p].version /\ proc'[p].candidate = proc[p].candidate
         /\ proc'[p].closure = proc[p].closure /\ proc'[p].needs = proc[p].needs
<1>1. PICK c : c = [proc[p] EXCEPT !.pc = pc]
  OBVIOUS
<1>2. /\ Fields(c, {"cmd", "pc", "on", "phase", "base", "release", "mine", "expected",
                  "seen", "candidate", "version", "closure", "needs"})
      /\ c.cmd = proc[p].cmd /\ c.pc = pc /\ c.on = proc[p].on
      /\ c.phase = proc[p].phase /\ c.base = proc[p].base
      /\ c.release = proc[p].release /\ c.mine = proc[p].mine
      /\ c.expected = proc[p].expected /\ c.seen = proc[p].seen
      /\ c.version = proc[p].version /\ c.candidate = proc[p].candidate
      /\ c.closure = proc[p].closure /\ c.needs = proc[p].needs
  BY <1>1 DEF IsPack, Fields
<1>3. /\ proc[p].cmd \in PackCommands /\ proc[p].phase \in {"before", "forward", "undo"}
      /\ proc[p].phase = "before" => proc[p].cmd = "publish"
      /\ proc[p].on \in {{}, {PackDraft}}
  BY DEF IsPack
<1>4. IsPack(c)
  BY <1>2, <1>3 DEF IsPack
<1>5. QED  BY <1>1, <1>2, <1>4, GoesOn, PackGoesOn DEF Continue

PackActs(p) ==
  \/ PublishRefused(p) \/ PublishReviewed(p) \/ CheckBase(p) \/ Store(p) \/ Write(p)
  \/ Expect(p) \/ Point(p) \/ Bind(p) \/ BindManifest(p) \/ BindProduct(p) \/ Undo(p)

\* The Pack file, the manifest or the descriptor of a directory is replaced.
LEMMA Replaced ==
  ASSUME NEW d, IsContent(d), IsDirectory(d), NEW r
  PROVE  /\ LET e == [d EXCEPT !.pack = r]
            IN /\ IsContent(e) /\ IsDirectory(e) /\ e.pack = r
               /\ e.skill = d.skill /\ e.ledger = d.ledger /\ e.closure = d.closure
               /\ e.product = d.product
         /\ LET e == [d EXCEPT !.closure = r]
            IN /\ IsClosure(r) => IsContent(e)
               /\ IsDirectory(e) /\ e.closure = r
               /\ e.skill = d.skill /\ e.ledger = d.ledger /\ e.pack = d.pack
               /\ e.product = d.product
         /\ LET e == [d EXCEPT !.product = r]
            IN /\ IsProduct(r) => IsContent(e)
               /\ IsDirectory(e) /\ e.product = r
               /\ e.skill = d.skill /\ e.ledger = d.ledger /\ e.pack = d.pack
               /\ e.closure = d.closure
<1>1. PICK e : e = [d EXCEPT !.pack = r]
  OBVIOUS
<1>2. /\ Fields(e, {"skill", "ledger", "pack", "closure", "product"}) /\ e.pack = r
      /\ e.skill = d.skill /\ e.ledger = d.ledger /\ e.closure = d.closure
      /\ e.product = d.product
  BY <1>1 DEF IsContent, Fields
<1>3. IsContent(e) /\ IsDirectory(e)
  BY <1>2, Distinct DEF IsContent
<1>4. PICK f : f = [d EXCEPT !.closure = r]
  OBVIOUS
<1>5. /\ Fields(f, {"skill", "ledger", "pack", "closure", "product"}) /\ f.closure = r
      /\ f.skill = d.skill /\ f.ledger = d.ledger /\ f.pack = d.pack
      /\ f.product = d.product
  BY <1>4 DEF IsContent, Fields
<1>6. (IsClosure(r) => IsContent(f)) /\ IsDirectory(f)
  BY <1>5, Distinct DEF IsContent
<1>7. PICK g : g = [d EXCEPT !.product = r]
  OBVIOUS
<1>8. /\ Fields(g, {"skill", "ledger", "pack", "closure", "product"}) /\ g.product = r
      /\ g.skill = d.skill /\ g.ledger = d.ledger /\ g.pack = d.pack
      /\ g.closure = d.closure
  BY <1>7 DEF IsContent, Fields
<1>9. (IsProduct(r) => IsContent(g)) /\ IsDirectory(g)
  BY <1>8, Distinct DEF IsContent
<1>10. QED  BY <1>1, <1>2, <1>3, <1>4, <1>5, <1>6, <1>7, <1>8, <1>9

\* A Closure that pins another release.
LEMMA ReboundWhole ==
  ASSUME NEW c, IsClosure(c), IsWhole(c), NEW r
  PROVE  LET e == Rebound(c, r)
         IN /\ IsClosure(e) /\ IsWhole(e) /\ e.pack = r
            /\ e.life = c.life /\ e.skill = c.skill /\ e.caps = c.caps
<1>1. PICK e : e = Rebound(c, r)
  OBVIOUS
<1>2. /\ Fields(e, {"life", "skill", "pack", "caps"}) /\ e.pack = r
      /\ e.life = c.life /\ e.skill = c.skill /\ e.caps = c.caps
  BY <1>1 DEF Rebound, IsClosure, IsWhole, Fields
<1>3. QED  BY <1>1, <1>2, Distinct DEF IsClosure

\* What a binding promises of a place that holds a directory, and of another.
LEMMA BoundContent ==
  ASSUME NEW d, IsContent(d), NEW r
  PROVE  IsContent(Bound(d, r))
<1>1. PICK e : e = Bound(d, r)
  OBVIOUS
<1>2. PICK c : c = Rebound(d.closure, r)
  OBVIOUS
<1>3. e = [[[d EXCEPT !.pack = r] EXCEPT !.closure = c] EXCEPT !.product.closure = c]
  BY <1>1, <1>2 DEF Bound
<1>4. CASE ~IsDirectory(d)
  <2>1. Fields(d, {"nothing"}) \/ Fields(d, {"torn"}) \/ Fields(d, {"empty"})
    BY <1>4 DEF IsDirectory, Nothing, Torn, Empty, Fields
  <2>2. e = d
    BY <1>3, <2>1 DEF Fields
  <2>3. QED  BY <1>1, <2>2, <1>4 DEF IsContent
<1>5. CASE IsDirectory(d)
  <2>1. /\ Fields(d, {"skill", "ledger", "pack", "closure", "product"})
        /\ IsClosure(d.closure) /\ IsProduct(d.product)
    BY <1>5 DEF IsContent
  <2>2. IsClosure(c)
    <3>1. CASE IsWhole(d.closure)
      BY <3>1, <2>1, <1>2, ReboundWhole
    <3>2. CASE ~IsWhole(d.closure)
      <4>1. Fields(d.closure, {"nothing"}) \/ Fields(d.closure, {"torn"})
        BY <3>2 DEF IsWhole, Nothing, Torn, Fields
      <4>2. c = d.closure
        BY <1>2, <4>1 DEF Rebound, Fields
      <4>3. QED  BY <4>2, <2>1
    <3>3. QED  BY <3>1, <3>2
  <2>3. PICK g : g = [d.product EXCEPT !.closure = c]
    OBVIOUS
  <2>4. IsProduct(g)
    <3>1. CASE Fields(d.product, {"needs", "closure"})
      BY <3>1, <2>3 DEF IsProduct, Fields
    <3>2. CASE d.product \in {Nothing, Torn}
      <4>1. Fields(d.product, {"nothing"}) \/ Fields(d.product, {"torn"})
        BY <3>2 DEF Nothing, Torn, Fields
      <4>2. g = d.product
        BY <2>3, <4>1 DEF Fields
      <4>3. QED  BY <4>2, <2>1
    <3>3. QED  BY <3>1, <3>2, <2>1 DEF IsProduct
  <2>5. PICK d1 : d1 = [d EXCEPT !.pack = r]
    OBVIOUS
  <2>6. PICK d2 : d2 = [d1 EXCEPT !.closure = c]
    OBVIOUS
  <2>7. e = [d2 EXCEPT !.product = g]
    BY <1>3, <2>1, <2>3, <2>5, <2>6 DEF Fields
  <2>8. IsContent(d2) /\ IsDirectory(d2)
    BY <1>5, <2>2, <2>5, <2>6, Replaced
  <2>9. /\ Fields(e, {"skill", "ledger", "pack", "closure", "product"})
        /\ e.closure = d2.closure /\ e.product = g
    BY <2>7, <2>8 DEF IsContent, Fields
  <2>10. QED  BY <1>1, <2>4, <2>8, <2>9 DEF IsContent
<1>6. QED  BY <1>4, <1>5

\* The release, the phase and what else a Pack command notes at the ends of its parts.
LEMMA PackNotes ==
  ASSUME NEW p \in Procs, Shape, IsPack(proc[p]), NEW c, proc' = [proc EXCEPT ![p] = c],
         Fields(c, {"cmd", "pc", "on", "phase", "base", "release", "mine", "expected",
                    "seen", "candidate", "version", "closure", "needs"}),
         c.cmd = proc[p].cmd, c.on = proc[p].on,
         c.phase \in {"before", "forward", "undo"},
         c.pc \in {"check"} \cup Activating \cup Binding,
         c.pc = "check" => c.phase = "before",
         c.phase = "before" => c.pc = "check" /\ c.cmd = "publish",
         c.phase = "undo" \/ c.pc \in Binding => c.on = {PackDraft},
         c.pc \in Holding => IsClosure(c.closure)
  PROVE  ProcFrame(p) /\ IsPack(proc'[p]) /\ proc'[p] = c
<1>1. c.cmd \in PackCommands /\ c.on \in {{}, {PackDraft}}
  BY DEF IsPack
<1>2. c.pc \in {"review", "check", "undo"} \cup Activating \cup Binding
  OBVIOUS
<1>3. c.pc # "undo" /\ c.pc # "review"
  BY DEF Activating, Binding
<1>4. IsPack(c)
  BY <1>1, <1>2, <1>3 DEF IsPack
<1>5. QED  BY <1>4, PackGoesOn

\* A step that leaves disk, promises and the rest alone.
LEMMA OnlyNotes ==
  ASSUME Shape, PackSkill \in Skills, NEW p \in Procs, Running(p), Stay,
         UNCHANGED <<disk, saved>>, ProcFrame(p)
  PROVE  Frame(p)
BY DiskKept DEF Frame, Rest, Stay

\* A refusal ends the command and leaves what is on disk.
LEMMA RefusedFrame ==
  ASSUME Shape, PackSkill \in Skills, NEW p \in Procs, Running(p), Refused(p),
         UNCHANGED <<disk, saved>>
  PROVE  Frame(p) /\ proc'[p] = Idle
BY DiskKept, EndsFrame DEF Frame, Rest, Refused, Expose

\* The steps up to the pointer, and what each of them notes.
LEMMA PublishFrame ==
  ASSUME Shape, PackSkill \in Skills, NEW p \in Procs,
         PublishRefused(p) \/ PublishReviewed(p) \/ CheckBase(p)
  PROVE  /\ Frame(p) /\ IsPack(proc[p]) /\ (proc'[p] = Idle \/ IsPack(proc'[p]))
         /\ disk' = disk /\ owed' = owed /\ adrift' = adrift /\ saved' = saved
<1>1. IsPack(proc[p]) /\ Running(p) /\ proc[p].pc \in {"review", "check"}
  BY Kinds, Distinct DEF PublishRefused, PublishReviewed, CheckBase, PackAt, PackCommands, Running
<1>2. proc[p].phase = "before" /\ proc[p].cmd = "publish" /\ proc[p].on \in {{}, {PackDraft}}
  BY <1>1 DEF IsPack
<1>3. CASE PublishRefused(p)
  BY <1>3, <1>1, DiskKept, EndsFrame DEF PublishRefused, Frame, Rest, Fails
<1>4. CASE PublishReviewed(p)
  <2>1. ProcFrame(p) /\ IsPack(proc'[p])
    BY <1>4, <1>1, <1>2, PackContinues DEF PublishReviewed, Binding, Holding
  <2>2. QED  BY <1>4, <2>1, <1>1, OnlyNotes DEF PublishReviewed, Stay
<1>5. CASE CheckBase(p)
  <2>1. CASE Fails(p) /\ UNCHANGED adrift
    BY <1>5, <2>1, <1>1, DiskKept, EndsFrame DEF CheckBase, Frame, Rest, Fails
  <2>2. ASSUME NEW new, Stay,
               proc' = [proc EXCEPT ![p].release = new, ![p].phase = "forward",
                                    ![p].pc = "store"]
        PROVE  ProcFrame(p) /\ IsPack(proc'[p])
    <3>1. PICK c : c = [proc[p] EXCEPT !.release = new, !.phase = "forward", !.pc = "store"]
      OBVIOUS
    <3>2. proc' = [proc EXCEPT ![p] = c]
      BY <2>2, <3>1
    <3>3. /\ Fields(c, {"cmd", "pc", "on", "phase", "base", "release", "mine", "expected",
                       "seen", "candidate", "version", "closure", "needs"})
          /\ c.cmd = proc[p].cmd /\ c.on = proc[p].on /\ c.phase = "forward" /\ c.pc = "store"
      BY <1>1, <3>1 DEF IsPack, Fields
    <3>4. QED  BY <3>2, <3>3, <1>1, PackNotes DEF Activating, Binding, Holding
  <2>3. QED  BY <1>5, <2>1, <2>2, <1>1, OnlyNotes DEF CheckBase, Stay
<1>6. QED  BY <1>3, <1>4, <1>5

\* The steps of an activation and the first of a compensation leave the drafts.
LEMMA ActivateFrame ==
  ASSUME Shape, PackSkill \in Skills, NEW p \in Procs,
         Store(p) \/ Write(p) \/ Expect(p) \/ Undo(p)
  PROVE  /\ Frame(p) /\ IsPack(proc[p]) /\ (proc'[p] = Idle \/ IsPack(proc'[p]))
         /\ disk' = disk /\ owed' = owed /\ saved' = saved
<1>1. IsPack(proc[p]) /\ Running(p) /\ proc[p].pc \in {"store", "write", "expect", "undo"}
  BY Kinds, Distinct DEF Store, Write, Expect, Undo, PackAt, PackCommands, Running
<1>2. /\ proc[p].phase \in {"forward", "undo"} /\ proc[p].on \in {{}, {PackDraft}}
      /\ proc[p].phase = "undo" \/ proc[p].pc = "undo" => proc[p].on = {PackDraft}
  BY <1>1 DEF IsPack, Binding
<1>3. CASE Store(p)
  <2>1. CASE Refused(p)
    BY <1>3, <2>1, <1>1, RefusedFrame DEF Store, Refused, Fails
  <2>2. CASE Stay /\ (Continue(p, "write") \/ Continue(p, "expect"))
    <3>1. ProcFrame(p) /\ IsPack(proc'[p])
      BY <2>2, <1>1, <1>2, PackContinues DEF Activating, Binding, Holding
    <3>2. QED  BY <1>3, <2>2, <3>1, <1>1, OnlyNotes DEF Store, Stay
  <2>3. QED  BY <1>3, <2>1, <2>2 DEF Store
<1>4. CASE Write(p)
  <2>1. CASE Refused(p)
    BY <1>4, <2>1, <1>1, RefusedFrame DEF Write, Refused, Fails
  <2>2. CASE Stay /\ Continue(p, "expect")
    <3>1. ProcFrame(p) /\ IsPack(proc'[p])
      BY <2>2, <1>1, <1>2, PackContinues DEF Activating, Binding, Holding
    <3>2. QED  BY <1>4, <2>2, <3>1, <1>1, OnlyNotes DEF Write, Stay
  <2>3. QED  BY <1>4, <2>1, <2>2 DEF Write
<1>5. CASE Expect(p)
  <2>1. CASE Refused(p)
    BY <1>5, <2>1, <1>1, RefusedFrame DEF Expect, Refused, Fails
  <2>2. CASE /\ Stay
             /\ proc' = [proc EXCEPT ![p].pc = "point",
                          ![p].seen = IF proc[p].phase = "undo" THEN @ ELSE moves]
    <3>0. PICK seen : seen = IF proc[p].phase = "undo" THEN proc[p].seen ELSE moves
      OBVIOUS
    <3>1. PICK c : c = [proc[p] EXCEPT !.pc = "point", !.seen = seen]
      OBVIOUS
    <3>2. proc' = [proc EXCEPT ![p] = c]
      BY <2>2, <3>0, <3>1
    <3>3. /\ Fields(c, {"cmd", "pc", "on", "phase", "base", "release", "mine", "expected",
                       "seen", "candidate", "version", "closure", "needs"})
          /\ c.cmd = proc[p].cmd /\ c.on = proc[p].on /\ c.phase = proc[p].phase
          /\ c.pc = "point"
      BY <1>1, <3>1 DEF IsPack, Fields
    <3>4. ProcFrame(p) /\ IsPack(proc'[p])
      BY <3>2, <3>3, <1>1, <1>2, PackNotes DEF Activating, Binding, Holding
    <3>5. QED  BY <1>5, <2>2, <3>4, <1>1, OnlyNotes DEF Expect, Stay
  <2>3. QED  BY <1>5, <2>1, <2>2 DEF Expect
<1>6. CASE Undo(p)
  <2>1. CASE Fails(p) /\ Expose(proc[p].on)
    BY <1>6, <2>1, <1>1, DiskKept, EndsFrame DEF Undo, Frame, Rest, Fails, Expose
  <2>2. ASSUME NEW target, Stay,
               proc' = [proc EXCEPT ![p].mine = proc[p].release,
                                     ![p].release = target, ![p].phase = "undo",
                                     ![p].expected = pointer.version, ![p].pc = "store"]
        PROVE  ProcFrame(p) /\ IsPack(proc'[p])
    <3>1. PICK c : c = [proc[p] EXCEPT !.mine = proc[p].release, !.release = target,
                          !.phase = "undo", !.expected = pointer.version, !.pc = "store"]
      OBVIOUS
    <3>2. proc' = [proc EXCEPT ![p] = c]
      BY <2>2, <3>1
    <3>3. /\ Fields(c, {"cmd", "pc", "on", "phase", "base", "release", "mine", "expected",
                       "seen", "candidate", "version", "closure", "needs"})
          /\ c.cmd = proc[p].cmd /\ c.on = proc[p].on /\ c.phase = "undo" /\ c.pc = "store"
      BY <1>1, <3>1 DEF IsPack, Fields
    <3>4. proc[p].on = {PackDraft}
      BY <1>6, <1>2 DEF Undo, PackAt
    <3>5. QED  BY <3>2, <3>3, <3>4, <1>1, PackNotes DEF Activating, Binding, Holding
  <2>3. QED  BY <1>6, <2>1, <2>2, <1>1, OnlyNotes DEF Undo, Stay
<1>7. QED  BY <1>3, <1>4, <1>5, <1>6

\* So does the move of the pointer.
LEMMA PointFrame ==
  ASSUME Shape, PackSkill \in Skills, NEW p \in Procs, Point(p)
  PROVE  /\ Frame(p) /\ IsPack(proc[p]) /\ (proc'[p] = Idle \/ IsPack(proc'[p]))
         /\ disk' = disk /\ owed' = owed /\ saved' = saved
<1>1. IsPack(proc[p]) /\ Running(p) /\ proc[p].pc = "point"
  BY Kinds, Distinct DEF Point, PackAt, PackCommands, Running
<1>2. proc[p].phase \in {"forward", "undo"} /\ proc[p].on \in {{}, {PackDraft}}
  BY <1>1 DEF IsPack, Binding, Activating
<1>3. UNCHANGED <<disk, saved>>
  BY DEF Point
<1>4. CASE Refused(p)
  BY <1>4, <1>3, <1>1, RefusedFrame DEF Refused, Fails
<1>5. CASE proc[p].on = {} /\ Succeeds(p, << >>)
  <2>1. /\ ProcFrame(p) /\ proc'[p] = Idle /\ OwedFrame(p)
        /\ contested' = contested /\ died' = died /\ adrift' = adrift
    BY <1>5, <1>1, EndsFrame
  <2>2. owed' = owed
    BY <1>5 DEF Succeeds, Shape
  <2>3. QED  BY <2>1, <2>2, <1>1, <1>3, DiskKept DEF Frame, Rest
<1>6. CASE /\ proc[p].on # {} /\ Stay
           /\ proc' = [proc EXCEPT ![p].pc = "bind", ![p].seen = moves + 1]
  <2>1. PICK c : c = [proc[p] EXCEPT !.pc = "bind", !.seen = moves + 1]
    OBVIOUS
  <2>2. proc' = [proc EXCEPT ![p] = c]
    BY <1>6, <2>1
  <2>3. /\ Fields(c, {"cmd", "pc", "on", "phase", "base", "release", "mine", "expected",
                     "seen", "candidate", "version", "closure", "needs"})
        /\ c.cmd = proc[p].cmd /\ c.on = proc[p].on /\ c.phase = proc[p].phase
        /\ c.pc = "bind"
    BY <1>1, <2>1 DEF IsPack, Fields
  <2>4. ProcFrame(p) /\ IsPack(proc'[p])
    BY <2>2, <2>3, <1>1, <1>2, <1>6, PackNotes DEF Activating, Binding, Holding
  <2>5. QED  BY <1>3, <1>6, <2>4, <1>1, OnlyNotes DEF Stay
<1>7. QED  BY <1>4, <1>5, <1>6 DEF Point

\* A binding that fails ends the command, or starts the compensation.
LEMMA BindFailsFrame ==
  ASSUME Shape, PackSkill \in Skills, NEW p \in Procs, IsPack(proc[p]), Running(p),
         proc[p].pc \in Binding, BindFails(p)
  PROVE  /\ ProcFrame(p) /\ (proc'[p] = Idle \/ IsPack(proc'[p])) /\ OwedFrame(p) /\ owed' = owed
         /\ contested' = contested /\ died' = died /\ adrift \subseteq adrift'
         /\ proc[p].phase = "forward" =>
              /\ IsPack(proc'[p]) /\ adrift' = adrift /\ proc'[p].pc = "undo"
              /\ proc'[p].cmd = proc[p].cmd
              /\ proc'[p].on = proc[p].on /\ proc'[p].phase = proc[p].phase
              /\ proc'[p].base = proc[p].base /\ proc'[p].release = proc[p].release
              /\ proc'[p].mine = proc[p].mine
              /\ proc'[p].expected = proc[p].expected /\ proc'[p].seen = proc[p].seen
              /\ proc'[p].version = proc[p].version
         /\ proc[p].phase # "forward" =>
              /\ proc'[p] = Idle
              /\ ~(proc[p].phase = "before" /\ proc[p].pc = "bind") => proc[p].on \subseteq adrift'
<1>1. proc[p].on = {PackDraft}
  BY DEF IsPack
<1>2. CASE proc[p].phase = "forward"
  <2>1. Continue(p, "undo") /\ Stay
    BY <1>2 DEF BindFails
  <2>2. "undo" \in {"review", "check", "undo"} \cup Activating \cup Binding
    OBVIOUS
  <2>3. /\ ProcFrame(p) /\ IsPack(proc'[p]) /\ proc'[p].pc = "undo"
        /\ proc'[p].cmd = proc[p].cmd
        /\ proc'[p].on = proc[p].on /\ proc'[p].phase = proc[p].phase
        /\ proc'[p].base = proc[p].base /\ proc'[p].release = proc[p].release
        /\ proc'[p].mine = proc[p].mine
        /\ proc'[p].expected = proc[p].expected /\ proc'[p].seen = proc[p].seen
        /\ proc'[p].version = proc[p].version
    BY <1>1, <1>2, <2>1, <2>2, PackContinues DEF Holding
  <2>4. QED  BY <1>2, <2>1, <2>3, DiskKept DEF Stay
<1>3. CASE proc[p].phase # "forward"
  BY <1>3, EndsFrame DEF BindFails, Expose
<1>4. QED  BY <1>2, <1>3

\* The steps of a binding touch the draft that is bound and no other place.
LEMMA BindFrame ==
  ASSUME Shape, PackSkill \in Skills, NEW p \in Procs,
         Bind(p) \/ BindManifest(p) \/ BindProduct(p)
  PROVE  Frame(p) /\ IsPack(proc[p]) /\ (proc'[p] = Idle \/ IsPack(proc'[p]))
<1>1. IsPack(proc[p]) /\ Running(p) /\ proc[p].pc \in Binding
  BY Kinds, Distinct DEF Bind, BindManifest, BindProduct, PackAt, PackCommands, Running, Binding
<1>2. /\ proc[p].on = {PackDraft} /\ PackDraft \in Places
      /\ IsContent(disk[PackDraft]) /\ IsContent(owed[PackDraft])
      /\ proc[p].pc \in Holding => IsClosure(proc[p].closure)
  BY <1>1, OnPlaces DEF IsPack, Shape
<1>3. CASE Bind(p)
  <2>1. CASE BindFails(p) /\ UNCHANGED disk
    BY <1>3, <2>1, <1>1, DiskKept, BindFailsFrame DEF Bind, Frame, Rest
  <2>2. CASE /\ IsDirectory(disk[PackDraft]) /\ MayBind(disk[PackDraft], proc[p].release)
             /\ Put(PackDraft, [disk[PackDraft] EXCEPT !.pack = proc[p].release])
             /\ proc' = [proc EXCEPT
                  ![p].closure = Rebound(disk[PackDraft].closure, proc[p].release),
                  ![p].needs = disk[PackDraft].product.needs,
                  ![p].pc = "manifest"]
             /\ Stay
    <3>1. PICK closure : closure = Rebound(disk[PackDraft].closure, proc[p].release)
      OBVIOUS
    <3>2. IsClosure(closure)
      BY <2>2, <3>1, <1>2, ReboundWhole DEF MayBind, Opens, IsContent
    <3>3. PICK needs : needs = disk[PackDraft].product.needs
      OBVIOUS
    <3>4. PICK c : c = [proc[p] EXCEPT !.closure = closure, !.needs = needs, !.pc = "manifest"]
      OBVIOUS
    <3>5. proc' = [proc EXCEPT ![p] = c]
      BY <2>2, <3>1, <3>3, <3>4
    <3>6. /\ Fields(c, {"cmd", "pc", "on", "phase", "base", "release", "mine", "expected",
                       "seen", "candidate", "version", "closure", "needs"})
          /\ c.cmd = proc[p].cmd /\ c.on = proc[p].on /\ c.phase = proc[p].phase
          /\ c.pc = "manifest" /\ c.closure = closure
      BY <1>1, <3>4 DEF IsPack, Fields
    <3>7. /\ c.phase \in {"before", "forward", "undo"} /\ c.cmd \in PackCommands
          /\ c.phase = "before" => c.cmd = "publish"
      BY <3>6, <1>1 DEF IsPack
    <3>8. IsPack(c)
      BY <3>2, <3>6, <3>7, <1>2 DEF IsPack, Activating, Binding, Holding
    <3>9. ProcFrame(p) /\ IsPack(proc'[p])
      BY <3>5, <3>6, <3>8, <1>1, PackGoesOn
    <3>10. DiskFrame(p)
      BY <2>2, <1>1, <1>2, DiskKept, Replaced
    <3>11. QED  BY <1>3, <2>2, <3>9, <3>10, <1>1, DiskKept DEF Bind, Frame, Rest, Stay
  <2>3. QED  BY <1>3, <2>1, <2>2 DEF Bind
<1>4. CASE BindManifest(p)
  <2>1. CASE BindFails(p) /\ UNCHANGED disk
    BY <1>4, <2>1, <1>1, DiskKept, BindFailsFrame DEF BindManifest, Frame, Rest
  <2>2. CASE /\ BindFails(p) /\ IsDirectory(disk[PackDraft])
             /\ Put(PackDraft, [disk[PackDraft] EXCEPT !.closure = Torn])
    <3>1. DiskFrame(p)
      BY <2>2, <1>1, <1>2, DiskKept, Replaced DEF IsClosure
    <3>2. QED  BY <1>4, <2>2, <3>1, <1>1, BindFailsFrame DEF BindManifest, Frame, Rest
  <2>3. CASE /\ IsDirectory(disk[PackDraft]) /\ Continue(p, "product") /\ Stay
             /\ Put(PackDraft, [disk[PackDraft] EXCEPT !.closure = proc[p].closure])
    <3>0. proc[p].pc = "manifest"
      BY <1>4 DEF BindManifest, PackAt
    <3>1. DiskFrame(p)
      BY <2>3, <3>0, <1>1, <1>2, DiskKept, Replaced DEF Holding
    <3>2. ProcFrame(p) /\ IsPack(proc'[p])
      BY <2>3, <3>0, <1>1, <1>2, PackContinues DEF Binding, Holding
    <3>3. QED  BY <1>4, <2>3, <3>1, <3>2, <1>1, DiskKept DEF BindManifest, Frame, Rest, Stay
  <2>4. QED  BY <1>4, <2>1, <2>2, <2>3 DEF BindManifest
<1>5. CASE BindProduct(p)
  <2>1. CASE BindFails(p) /\ UNCHANGED <<disk, unbound>>
    BY <1>5, <2>1, <1>1, DiskKept, BindFailsFrame DEF BindProduct, Frame, Rest
  <2>2. ASSUME NEW dir, IsContent(dir), IsDirectory(dir), Put(PackDraft, Described(dir, p)),
               NEW promise, IsContent(promise),
               owed' = [owed EXCEPT ![PackDraft] = promise],
               proc' = [proc EXCEPT ![p] = IF proc[p].phase = "before"
                                          THEN [@ EXCEPT !.pc = "check"] ELSE Idle],
               UNCHANGED <<left, contested, died, crashes, adrift, saved>>
        PROVE  Frame(p) /\ IsPack(proc[p]) /\ (proc'[p] = Idle \/ IsPack(proc'[p]))
    <3>1. IsProduct([needs |-> proc[p].needs, closure |-> proc[p].closure])
      BY DEF IsProduct, Fields
    <3>2. IsContent(Described(dir, p))
      BY <2>2, <3>1, Replaced DEF Described
    <3>3. DiskFrame(p) /\ OwedFrame(p)
      BY <2>2, <3>2, <1>1, <1>2, DiskKept
    <3>4. ProcFrame(p) /\ (proc'[p] = Idle \/ IsPack(proc'[p]))
      <4>1. CASE proc[p].phase = "before"
        <5>1. Continue(p, "check")
          BY <2>2, <4>1, <1>1 DEF Continue
        <5>2. QED  BY <5>1, <4>1, <1>1, <1>2, PackContinues DEF Binding, Holding
      <4>2. CASE proc[p].phase # "before"
        <5>1. proc' = [proc EXCEPT ![p] = Idle]
          BY <2>2, <4>2
        <5>2. QED  BY <5>1, Alone DEF ProcFrame, IsCommand
      <4>3. QED  BY <4>1, <4>2
    <3>5. QED  BY <3>3, <3>4, <2>2, <1>1 DEF Frame, Rest
  <2>3. QED  BY <1>5, <2>1, <2>2, <1>2, Made, BoundContent DEF BindProduct
<1>6. QED  BY <1>3, <1>4, <1>5

\* What the steps of a command on Packs have in common.
LEMMA PackFrame ==
  ASSUME Shape, PackSkill \in Skills, NEW p \in Procs, PackActs(p)
  PROVE  Frame(p) /\ IsPack(proc[p]) /\ (proc'[p] = Idle \/ IsPack(proc'[p]))
BY PublishFrame, ActivateFrame, PointFrame, BindFrame DEF PackActs

-----------------------------------------------------------------------------
(* A command starts: it works alone where nobody was, and elsewhere contests   *)
(* the place.                                                                   *)

StartFrame(p) ==
  /\ proc[p] = Idle /\ proc'[p] # Idle
  /\ proc' = [q \in Procs |-> IF q = p THEN proc'[p] ELSE proc[q]]
  /\ IsCommand(proc'[p]) /\ proc'[p].on \subseteq Places
  /\ disk' = disk /\ saved' = saved /\ died' = died /\ contested \subseteq contested'
  /\ owed' = [place \in Places |-> owed'[place]] /\ \A place \in Places : IsContent(owed'[place])
  /\ \A place \in Places \ contested' :
       /\ place \in proc'[p].on =>
            /\ owed'[place] = disk[place]
            /\ \A q \in Procs : place \notin On(q)
       /\ place \notin proc'[p].on =>
            /\ owed'[place] = owed[place]
            /\ place \in adrift => place \in adrift'

\* Any command that starts keeps that frame.
LEMMA Begins ==
  ASSUME Shape, NEW p \in Procs, NEW c, IsCommand(c), c # Idle, c.on \subseteq Places, Begin(p, c)
  PROVE  StartFrame(p) /\ proc'[p] = c
<1>1. proc' = [q \in Procs |-> IF q = p THEN proc'[p] ELSE proc[q]] /\ proc'[p] = c
  BY Alone DEF Begin
<1>2. PICK alone : alone = {place \in c.on : Writers(place) = {}}
  OBVIOUS
<1>3. /\ proc[p] = Idle
      /\ owed' = [place \in Places |-> IF place \in alone THEN disk[place] ELSE owed[place]]
      /\ adrift' = adrift \ alone /\ contested' = contested \cup (c.on \ alone)
      /\ disk' = disk /\ saved' = saved /\ died' = died
  BY <1>2 DEF Begin
<1>4. \A place : place \in alone => \A q \in Procs : place \notin On(q)
  BY <1>2 DEF Writers, On
<1>5. \A place \in Places : IsContent(disk[place]) /\ IsContent(owed[place])
  BY DEF Shape
<1>6. alone \subseteq c.on
  BY <1>2
<1>7. owed' = [place \in Places |-> owed'[place]] /\ \A place \in Places : IsContent(owed'[place])
  BY <1>3, <1>5
<1>8. \A place \in Places \ contested' : place \in c.on => place \in alone
  BY <1>3
<1>9. QED  BY <1>1, <1>3, <1>4, <1>6, <1>7, <1>8 DEF StartFrame

\* What is compiled has no Pack, and a Closure that does not open if it has one.
LEMMA CompiledPins ==
  ASSUME NEW k, NEW ledger, NEW needs
  PROVE  LET d == Compiled(k, ledger, needs)
         IN /\ d.pack = Nothing
            /\ d.closure = Nothing \/ (d.closure # Torn /\ d.closure.life = "candidate")
<1>1. PICK d : d = Directory(k, ledger)
  OBVIOUS
<1>2. d.pack = Nothing /\ d.closure = Nothing
      /\ Fields(d, {"skill", "ledger", "pack", "closure", "product"})
  BY <1>1 DEF Directory, Fields
<1>3. PICK c : c = ClosureFor(d, "candidate", needs.caps)
  OBVIOUS
<1>4. c.life = "candidate" /\ c # Torn
  BY <1>3, Distinct DEF ClosureFor, Fields, IsWhole
<1>5. PICK e : e = [d EXCEPT !.closure = c, !.product = [needs |-> needs, closure |-> c]]
  OBVIOUS
<1>6. e.pack = Nothing /\ e.closure = c
  BY <1>5, <1>2 DEF Fields
<1>7. CASE ledger
  <2>1. Compiled(k, ledger, needs) = e
    BY <1>1, <1>3, <1>5, <1>7 DEF Compiled, Emitted, Directory
  <2>2. QED  BY <2>1, <1>6, <1>4
<1>8. CASE ~ledger
  <2>1. Compiled(k, ledger, needs) = Directory(k, FALSE)
    BY <1>8 DEF Compiled
  <2>2. QED  BY <2>1 DEF Directory
<1>9. QED  BY <1>7, <1>8

\* A build and a migration start.
LEMMA DraftsBegin ==
  ASSUME Shape, NEW p \in Procs
  PROVE  /\ BuildBegin(p) =>
              /\ StartFrame(p) /\ IsBuild(proc'[p])
              /\ proc'[p].pc = "compile" /\ proc'[p].held = Nothing
              /\ proc'[p].dir.pack = Nothing
              /\ \/ proc'[p].dir.closure = Nothing
                 \/ proc'[p].dir.closure # Torn /\ proc'[p].dir.closure.life = "candidate"
         /\ MigrateBegin(p) =>
              /\ StartFrame(p) /\ IsMigrate(proc'[p])
              /\ proc'[p].pc = "stage" /\ proc'[p].done = {}
              /\ \A place \in proc'[p].on :
                   /\ proc'[p].held[place] = Nothing /\ proc'[p].dir[place] = Nothing
                   /\ IsDirectory(disk[place]) /\ disk[place].closure = Nothing
<1>1. ASSUME BuildBegin(p)
      PROVE  /\ StartFrame(p) /\ IsBuild(proc'[p])
             /\ proc'[p].pc = "compile" /\ proc'[p].held = Nothing
             /\ proc'[p].dir.pack = Nothing
             /\ \/ proc'[p].dir.closure = Nothing
                \/ proc'[p].dir.closure # Torn /\ proc'[p].dir.closure.life = "candidate"
  <2>1. PICK s \in Skills, ledger \in BOOLEAN :
          Begin(p, [cmd |-> "build", pc |-> "compile", at |-> Draft(s),
                 on |-> {Draft(s)}, held |-> Nothing,
                 dir |-> Compiled(built + 1, ledger, NoRequirements)])
    BY <1>1 DEF BuildBegin
  <2>2. PICK dir : dir = Compiled(built + 1, ledger, NoRequirements)
    OBVIOUS
  <2>3. /\ IsContent(dir) /\ IsDirectory(dir) /\ dir.pack = Nothing
        /\ dir.closure = Nothing \/ (dir.closure # Torn /\ dir.closure.life = "candidate")
    BY <2>2, Made, CompiledPins
  <2>4. PICK c : c = [cmd |-> "build", pc |-> "compile", at |-> Draft(s),
                      on |-> {Draft(s)}, held |-> Nothing, dir |-> dir]
    OBVIOUS
  <2>5. /\ Fields(c, {"cmd", "pc", "at", "on", "held", "dir"})
        /\ c.cmd = "build" /\ c.pc = "compile" /\ c.at = Draft(s) /\ c.on = {c.at}
        /\ c.held = Nothing /\ c.dir = dir
    BY <2>4 DEF Fields
  <2>6. Draft(s) \in DraftPlaces /\ Draft(s) \in Places
    BY DEF Draft, DraftPlaces, Places
  <2>7. IsBuild(c) /\ c # Idle /\ c.on \subseteq Places
    BY <2>3, <2>5, <2>6, Made, Distinct DEF IsBuild
  <2>8. StartFrame(p) /\ proc'[p] = c
    BY <2>1, <2>2, <2>4, <2>7, Begins DEF IsCommand
  <2>9. QED  BY <2>3, <2>5, <2>7, <2>8
<1>2. ASSUME MigrateBegin(p)
      PROVE  /\ StartFrame(p) /\ IsMigrate(proc'[p])
             /\ proc'[p].pc = "stage" /\ proc'[p].done = {}
             /\ \A place \in proc'[p].on :
                   /\ proc'[p].held[place] = Nothing /\ proc'[p].dir[place] = Nothing
                   /\ IsDirectory(disk[place]) /\ disk[place].closure = Nothing
  <2>1. PICK on : on = LegacyPlaces
    OBVIOUS
  <2>2. \A place \in on : /\ place \in DraftPlaces /\ place \in Places
                          /\ IsDirectory(disk[place]) /\ disk[place].closure = Nothing
    BY <2>1 DEF LegacyPlaces, Present, Disposition, DraftPlaces, Places
  <2>3. PICK none : none = [place \in on |-> Nothing]
    OBVIOUS
  <2>4. PICK c : c = [cmd |-> "migrate", pc |-> "stage", on |-> on, todo |-> on, done |-> {},
                      at |-> << >>, dir |-> none, held |-> none]
    OBVIOUS
  <2>5. /\ Fields(c, {"cmd", "pc", "on", "todo", "done", "at", "dir", "held"})
        /\ c.cmd = "migrate" /\ c.pc = "stage" /\ c.on = on /\ c.todo = on /\ c.done = {}
        /\ c.dir = none /\ c.held = none
    BY <2>4 DEF Fields
  <2>6. /\ Over(none, on) /\ \A place \in on : none[place] = Nothing /\ IsContent(none[place])
    BY <2>3, Made DEF Over
  <2>7. IsMigrate(c) /\ c # Idle /\ c.on \subseteq Places
    BY <2>2, <2>5, <2>6, Distinct DEF IsMigrate
  <2>8. Begin(p, c)
    BY <1>2, <2>1, <2>3, <2>4 DEF MigrateBegin
  <2>9. StartFrame(p) /\ proc'[p] = c
    BY <2>7, <2>8, Begins DEF IsCommand
  <2>10. QED  BY <2>2, <2>5, <2>6, <2>7, <2>9
<1>3. QED  BY <1>1, <1>2

\* An installation and a removal start.
LEMMA SlotsBegin ==
  ASSUME Shape, NEW p \in Procs
  PROVE  /\ InstallBegin(p) =>
              /\ StartFrame(p) /\ IsInstall(proc'[p]) /\ proc'[p].pc = "gate"
              /\ proc'[p].held = Nothing /\ proc'[p].seen = Nothing
         /\ UninstallBegin(p) => StartFrame(p) /\ IsUninstall(proc'[p])
<1>0. \A s \in Skills : /\ Slot(s) \in SlotPlaces /\ Slot(s) \in Places
                        /\ Draft(s) \in DraftPlaces
  BY DEF Slot, Draft, DraftPlaces, SlotPlaces, Places
<1>1. ASSUME InstallBegin(p)
      PROVE  /\ StartFrame(p) /\ IsInstall(proc'[p]) /\ proc'[p].pc = "gate"
             /\ proc'[p].held = Nothing /\ proc'[p].seen = Nothing
  <2>1. PICK s \in Skills, host \in Hosts, keep \in BOOLEAN :
          Begin(p, [cmd |-> "install", pc |-> "gate", at |-> Slot(s),
                 on |-> {Slot(s)}, from |-> Draft(s), host |-> host,
                 keep |-> keep, seen |-> Nothing, held |-> Nothing,
                 dir |-> Empty, todo |-> Parts])
    BY <1>1 DEF InstallBegin
  <2>2. PICK c : c = [cmd |-> "install", pc |-> "gate", at |-> Slot(s),
                 on |-> {Slot(s)}, from |-> Draft(s), host |-> host,
                 keep |-> keep, seen |-> Nothing, held |-> Nothing,
                 dir |-> Empty, todo |-> Parts]
    OBVIOUS
  <2>3. /\ Fields(c, {"cmd", "pc", "at", "on", "from", "host", "keep", "seen", "held", "dir",
                      "todo"})
        /\ c.cmd = "install" /\ c.pc = "gate" /\ c.at = Slot(s) /\ c.on = {c.at}
        /\ c.from = Draft(s) /\ c.keep = keep /\ c.seen = Nothing /\ c.held = Nothing
        /\ c.dir = Empty
    BY <2>2 DEF Fields
  <2>4. IsInstall(c) /\ c # Idle /\ c.on \subseteq Places
    BY <2>3, <1>0, Made, Distinct DEF IsInstall
  <2>5. StartFrame(p) /\ proc'[p] = c
    BY <2>1, <2>2, <2>4, Begins DEF IsCommand
  <2>6. QED  BY <2>3, <2>4, <2>5
<1>2. ASSUME UninstallBegin(p)
      PROVE  StartFrame(p) /\ IsUninstall(proc'[p])
  <2>1. PICK s \in Skills : Begin(p, [cmd |-> "uninstall", pc |-> "remove", at |-> Slot(s),
                                      on |-> {Slot(s)}])
    BY <1>2 DEF UninstallBegin
  <2>2. PICK c : c = [cmd |-> "uninstall", pc |-> "remove", at |-> Slot(s), on |-> {Slot(s)}]
    OBVIOUS
  <2>3. Fields(c, {"cmd", "pc", "at", "on"}) /\ c.cmd = "uninstall" /\ c.at = Slot(s)
        /\ c.on = {c.at}
    BY <2>2 DEF Fields
  <2>4. IsUninstall(c) /\ c # Idle /\ c.on \subseteq Places
    BY <2>3, <1>0, Distinct DEF IsUninstall
  <2>5. StartFrame(p) /\ proc'[p] = c
    BY <2>1, <2>2, <2>4, Begins DEF IsCommand
  <2>6. QED  BY <2>4, <2>5
<1>3. QED  BY <1>1, <1>2

\* A command on Packs starts, from its review or from the store.
LEMMA PackBegins ==
  ASSUME Shape, PackSkill \in Skills, NEW p \in Procs, NEW cmd \in PackCommands, NEW pc,
         NEW bound, NEW phase, NEW base, NEW release, NEW candidate, NEW version,
         \/ cmd = "publish" /\ pc = "review" /\ phase = "before"
         \/ pc = "store" /\ phase = "forward",
         Begin(p, PackCommand(cmd, pc, bound, phase, base, release, candidate, version))
  PROVE  /\ StartFrame(p) /\ IsPack(proc'[p])
         /\ proc'[p].cmd = cmd /\ proc'[p].pc = pc /\ proc'[p].phase = phase
         /\ proc'[p].base = base /\ proc'[p].release = release /\ proc'[p].mine = Nothing
         /\ proc'[p].expected = base.version /\ proc'[p].seen = 0
         /\ proc'[p].version = version /\ proc'[p].candidate = candidate
<1>1. PICK c : c = PackCommand(cmd, pc, bound, phase, base, release, candidate, version)
  OBVIOUS
<1>2. /\ Fields(c, {"cmd", "pc", "on", "phase", "base", "release", "mine", "expected",
                  "seen", "candidate", "version", "closure", "needs"})
      /\ c.cmd = cmd /\ c.pc = pc /\ c.on \in {{}, {PackDraft}}
      /\ c.phase = phase /\ c.base = base
      /\ c.release = release /\ c.mine = Nothing
      /\ c.expected = base.version /\ c.seen = 0
      /\ c.version = version /\ c.candidate = candidate
  BY <1>1 DEF PackCommand, Fields
<1>3. PackDraft \in Places
  BY DEF PackDraft, Draft, Places
<1>4. IsPack(c)
  BY <1>2 DEF IsPack, Activating, Binding, Holding
<1>5. c # Idle
  BY <1>2, Distinct DEF PackCommands
<1>6. StartFrame(p) /\ proc'[p] = c
  BY <1>1, <1>2, <1>3, <1>4, <1>5, Begins DEF IsCommand
<1>7. QED  BY <1>2, <1>4, <1>6

-----------------------------------------------------------------------------
(* The two frames keep the shape of the state and that nobody else works where *)
(* a place is not contested; and what is to be shown of a step, for each part   *)
(* of the invariant on places.                                                  *)

\* A crash ends the command; where it would be noticed, its places are adrift.
LEMMA CrashFrame ==
  ASSUME Shape, PackSkill \in Skills, NEW p \in Procs, Crash(p)
  PROVE  /\ Frame(p) /\ proc'[p] = Idle /\ disk' = disk /\ owed' = owed
         /\ Exposed(p) => proc[p].on \subseteq adrift'
         /\ proc[p].cmd = "build" => proc[p].dir.skill \in died'
<1>1. Running(p)
  BY DEF Crash
<1>2. ProcFrame(p) /\ proc'[p] = Idle
  BY Alone DEF Crash, ProcFrame, IsCommand
<1>3. DiskFrame(p) /\ OwedFrame(p)
  BY <1>1, DiskKept DEF Crash
<1>4. QED  BY <1>1, <1>2, <1>3 DEF Crash, Expose, Frame, Rest

\* A process that does not take the step works where it did.
LEMMA Others ==
  ASSUME NEW p \in Procs, Frame(p) \/ StartFrame(p), NEW q \in Procs, q # p
  PROVE  proc'[q] = proc[q] /\ (Running(q)' <=> Running(q)) /\ On(q)' = On(q)
BY DEF Frame, ProcFrame, StartFrame, Running, On

\* Where the process of the step works, before and after.
LEMMA OnAfter ==
  ASSUME Shape, NEW p \in Procs
  PROVE  /\ Frame(p) => /\ On(p) = proc[p].on
                        /\ On(p)' = IF proc'[p] = Idle THEN {} ELSE proc[p].on
         /\ StartFrame(p) => On(p) = {} /\ On(p)' = proc'[p].on
BY DEF Frame, ProcFrame, StartFrame, Running, On

\* A step of a command keeps the shape, and who works alone.
LEMMA FrameKeeps ==
  ASSUME Shape, Exclusive, PackSkill \in Skills, NEW p \in Procs, Frame(p)
  PROVE  Shape' /\ Exclusive'
<1>1. proc[p].on \subseteq Places
  BY OnPlaces DEF Frame
<1>2. proc' = [q \in Procs |-> proc'[q]] /\ \A q \in Procs : IsCommand(proc'[q])
  BY DEF Frame, ProcFrame, Shape
<1>3. disk' = [place \in Places |-> disk'[place]] /\ \A place \in Places : IsContent(disk'[place])
  BY <1>1 DEF Frame, DiskFrame, Shape
<1>4. owed' = [place \in Places |-> owed'[place]] /\ \A place \in Places : IsContent(owed'[place])
  BY <1>1 DEF Frame, OwedFrame, Shape
<1>5. \A q \in Procs : On(q)' \subseteq On(q)
  BY Others, OnAfter
<1>6. contested' = contested
  BY DEF Frame, Rest
<1>7. Exclusive'
  BY <1>5, <1>6 DEF Exclusive
<1>8. QED  BY <1>2, <1>3, <1>4, <1>7 DEF Shape

\* So does a command that starts.
LEMMA StartKeeps ==
  ASSUME Shape, Exclusive, NEW p \in Procs, StartFrame(p)
  PROVE  Shape' /\ Exclusive'
<1>1. Shape'
  BY DEF StartFrame, Shape
<1>2. ASSUME NEW place \in Places \ contested', NEW q \in Procs, NEW r \in Procs,
             place \in On(q)', place \in On(r)'
      PROVE  q = r
  <2>1. CASE place \in proc'[p].on
    <3>1. \A s \in Procs : place \notin On(s)
      BY <2>1, <1>2 DEF StartFrame
    <3>2. QED  BY <3>1, <1>2, Others
  <2>2. CASE place \notin proc'[p].on
    <3>1. q # p /\ r # p
      BY <2>2, <1>2, OnAfter
    <3>2. place \in On(q) /\ place \in On(r) /\ place \notin contested
      BY <3>1, <1>2, Others DEF StartFrame
    <3>3. QED  BY <3>2, <1>2 DEF Exclusive
  <2>3. QED  BY <2>1, <2>2
<1>3. QED  BY <1>1, <1>2 DEF Exclusive

\* Where a command works, its place and its promise may change together; what
\* others work at is as it was.
LEMMA TreesKept ==
  ASSUME Shape, Exclusive, TreesInv, PackSkill \in Skills, NEW p \in Procs, Frame(p),
         \A place \in proc[p].on :
           place \notin contested \cup adrift'
             /\ Tree(proc[p], place, disk[place], owed[place])
           => IF proc'[p] = Idle THEN disk'[place] = owed'[place]
              ELSE Tree(proc'[p], place, disk'[place], owed'[place])
  PROVE  TreesInv'
<1> SUFFICES ASSUME NEW place \in Places, place \notin contested' \cup adrift'
             PROVE  /\ (\A q \in Procs : place \notin On(q)') => disk'[place] = owed'[place]
                    /\ \A q \in Procs : place \in On(q)' =>
                         Tree(proc'[q], place, disk'[place], owed'[place])
  BY DEF TreesInv
<1>1. place \notin contested \cup adrift /\ place \notin contested \cup adrift'
  BY DEF Frame, Rest
<1>2. /\ (\A q \in Procs : place \notin On(q)) => disk[place] = owed[place]
      /\ \A q \in Procs : place \in On(q) => Tree(proc[q], place, disk[place], owed[place])
  BY <1>1 DEF TreesInv
<1>3. CASE place \in proc[p].on
  <2>1. On(p) = proc[p].on /\ On(p)' = IF proc'[p] = Idle THEN {} ELSE proc[p].on
    BY OnAfter
  <2>2. IF proc'[p] = Idle THEN disk'[place] = owed'[place]
        ELSE Tree(proc'[p], place, disk'[place], owed'[place])
    BY <1>1, <1>2, <1>3, <2>1
  <2>3. \A q \in Procs : q # p => place \notin On(q)'
    BY <1>1, <1>3, <2>1, Others DEF Exclusive
  <2>4. QED  BY <2>1, <2>2, <2>3, <1>3
<1>4. CASE place \notin proc[p].on
  <2>1. disk'[place] = disk[place] /\ owed'[place] = owed[place]
    BY <1>4 DEF Frame, DiskFrame, OwedFrame
  <2>2. place \notin On(p) /\ place \notin On(p)'
    BY <1>4, OnAfter
  <2>3. \A q \in Procs : place \in On(q)' => q # p /\ place \in On(q) /\ proc'[q] = proc[q]
    BY <2>2, Others
  <2>4. (\A q \in Procs : place \notin On(q)') => \A q \in Procs : place \notin On(q)
    BY <2>2, Others
  <2>5. QED  BY <2>1, <2>3, <2>4, <1>2
<1>5. QED  BY <1>3, <1>4

\* A command that starts finds what was promised; what others work at is as it was.
LEMMA TreesStarted ==
  ASSUME Shape, Exclusive, TreesInv, NEW p \in Procs, StartFrame(p),
         \A place \in proc'[p].on : Tree(proc'[p], place, disk[place], disk[place])
  PROVE  TreesInv'
<1> SUFFICES ASSUME NEW place \in Places, place \notin contested' \cup adrift'
             PROVE  /\ (\A q \in Procs : place \notin On(q)') => disk'[place] = owed'[place]
                    /\ \A q \in Procs : place \in On(q)' =>
                         Tree(proc'[q], place, disk'[place], owed'[place])
  BY DEF TreesInv
<1>1. disk' = disk /\ place \notin contested
  BY DEF StartFrame
<1>2. On(p) = {} /\ On(p)' = proc'[p].on
  BY OnAfter
<1>3. CASE place \in proc'[p].on
  <2>1. owed'[place] = disk[place] /\ \A q \in Procs : place \notin On(q)
    BY <1>3 DEF StartFrame
  <2>2. \A q \in Procs : place \in On(q)' => q = p
    BY <2>1, Others
  <2>3. QED  BY <1>1, <1>2, <1>3, <2>1, <2>2
<1>4. CASE place \notin proc'[p].on
  <2>1. owed'[place] = owed[place] /\ place \notin adrift
    BY <1>4 DEF StartFrame
  <2>2. /\ (\A q \in Procs : place \notin On(q)) => disk[place] = owed[place]
        /\ \A q \in Procs : place \in On(q) => Tree(proc[q], place, disk[place], owed[place])
    BY <1>1, <2>1 DEF TreesInv
  <2>3. \A q \in Procs : place \in On(q)' => q # p /\ place \in On(q) /\ proc'[q] = proc[q]
    BY <1>2, <1>4, Others
  <2>4. (\A q \in Procs : place \notin On(q)') => \A q \in Procs : place \notin On(q)
    BY <1>2, Others
  <2>5. QED  BY <1>1, <2>1, <2>2, <2>3, <2>4
<1>5. QED  BY <1>3, <1>4

\* What is known stays known.
LEMMA Known ==
  ASSUME NEW known, NEW more, known \subseteq more
  PROVE  /\ \A d : KnownIn(d, known) => KnownIn(d, more)
         /\ \A c, place, d : SkillTree(c, place, d, known) => SkillTree(c, place, d, more)
BY DEF KnownIn, SkillTree

\* Where a command works the units may become known; elsewhere all is as it was.
LEMMA SkillsKept ==
  ASSUME Shape, Exclusive, SkillsInv, PackSkill \in Skills, NEW p \in Procs, Frame(p),
         \A place \in proc[p].on \cap DraftPlaces :
           SkillTree(proc[p], place, disk[place], saved \cup died)
           => IF proc'[p] = Idle THEN KnownIn(disk'[place], saved' \cup died')
              ELSE SkillTree(proc'[p], place, disk'[place], saved' \cup died')
  PROVE  SkillsInv'
<1> SUFFICES ASSUME NEW place \in DraftPlaces, place \notin contested'
             PROVE  /\ (\A q \in Procs : place \notin On(q)') =>
                         KnownIn(disk'[place], saved' \cup died')
                    /\ \A q \in Procs : place \in On(q)' =>
                         SkillTree(proc'[q], place, disk'[place], saved' \cup died')
  BY DEF SkillsInv
<1>1. place \notin contested /\ place \in Places /\ saved \cup died \subseteq saved' \cup died'
  BY DEF Frame, Rest, DraftPlaces, Places
<1>2. /\ (\A q \in Procs : place \notin On(q)) => KnownIn(disk[place], saved \cup died)
      /\ \A q \in Procs : place \in On(q) =>
           SkillTree(proc[q], place, disk[place], saved \cup died)
  BY <1>1 DEF SkillsInv
<1>3. CASE place \in proc[p].on
  <2>1. On(p) = proc[p].on /\ On(p)' = IF proc'[p] = Idle THEN {} ELSE proc[p].on
    BY OnAfter
  <2>2. IF proc'[p] = Idle THEN KnownIn(disk'[place], saved' \cup died')
        ELSE SkillTree(proc'[p], place, disk'[place], saved' \cup died')
    BY <1>1, <1>2, <1>3, <2>1
  <2>3. \A q \in Procs : q # p => place \notin On(q)'
    BY <1>1, <1>3, <2>1, Others DEF Exclusive
  <2>4. QED  BY <2>1, <2>2, <2>3, <1>3
<1>4. CASE place \notin proc[p].on
  <2>1. disk'[place] = disk[place]
    BY <1>1, <1>4 DEF Frame, DiskFrame
  <2>2. place \notin On(p) /\ place \notin On(p)'
    BY <1>4, OnAfter
  <2>3. \A q \in Procs : place \in On(q)' => q # p /\ place \in On(q) /\ proc'[q] = proc[q]
    BY <2>2, Others
  <2>4. (\A q \in Procs : place \notin On(q)') => \A q \in Procs : place \notin On(q)
    BY <2>2, Others
  <2>5. QED  BY <1>1, <2>1, <2>3, <2>4, <1>2, Known
<1>5. QED  BY <1>3, <1>4

\* A command that starts finds a draft whose units are known.
LEMMA SkillsStarted ==
  ASSUME Shape, Exclusive, SkillsInv, NEW p \in Procs, StartFrame(p),
         \A place \in proc'[p].on \cap DraftPlaces :
           KnownIn(disk[place], saved \cup died) =>
             SkillTree(proc'[p], place, disk[place], saved \cup died)
  PROVE  SkillsInv'
<1> SUFFICES ASSUME NEW place \in DraftPlaces, place \notin contested'
             PROVE  /\ (\A q \in Procs : place \notin On(q)') =>
                         KnownIn(disk'[place], saved' \cup died')
                    /\ \A q \in Procs : place \in On(q)' =>
                         SkillTree(proc'[q], place, disk'[place], saved' \cup died')
  BY DEF SkillsInv
<1>1. /\ disk' = disk /\ saved' = saved /\ died' = died
      /\ place \notin contested /\ place \in Places
  BY DEF StartFrame, DraftPlaces, Places
<1>2. On(p) = {} /\ On(p)' = proc'[p].on
  BY OnAfter
<1>3. /\ (\A q \in Procs : place \notin On(q)) => KnownIn(disk[place], saved \cup died)
      /\ \A q \in Procs : place \in On(q) =>
           SkillTree(proc[q], place, disk[place], saved \cup died)
  BY <1>1 DEF SkillsInv
<1>4. CASE place \in proc'[p].on
  <2>1. \A q \in Procs : place \notin On(q)
    BY <1>1, <1>4 DEF StartFrame
  <2>2. \A q \in Procs : place \in On(q)' => q = p
    BY <2>1, Others
  <2>3. SkillTree(proc'[p], place, disk[place], saved \cup died)
    BY <1>3, <1>4, <2>1
  <2>4. QED  BY <1>1, <1>2, <1>4, <2>2, <2>3
<1>5. CASE place \notin proc'[p].on
  <2>1. \A q \in Procs : place \in On(q)' => q # p /\ place \in On(q) /\ proc'[q] = proc[q]
    BY <1>2, <1>5, Others
  <2>2. (\A q \in Procs : place \notin On(q)') => \A q \in Procs : place \notin On(q)
    BY <1>2, Others
  <2>3. QED  BY <1>1, <1>3, <2>1, <2>2
<1>6. QED  BY <1>4, <1>5

\* What holds while a release awaits its binding, and what another step leaves.
LEMMA BoundKept ==
  ASSUME Shape, Exclusive, BoundInv, PackSkill \in Skills, NEW p \in Procs, Frame(p),
         unbound' # Nothing => unbound'.release = pointer' /\ pointer' # Nothing,
         unbound' # Nothing => unbound' = unbound \/ unbound'.by = p,
         proc'[p].cmd \in PackCommands => BoundNotes(proc'[p], p, unbound'),
         PackDraft \notin proc[p].on /\ unbound' = Nothing =>
           unbound = Nothing /\ pointer' = pointer,
         PackDraft \in proc[p].on \ contested
           /\ Good(disk[PackDraft], unbound, pointer)
           /\ BoundTree(proc[p], disk[PackDraft], unbound, pointer)
         => /\ Good(disk'[PackDraft], unbound', pointer')
            /\ proc'[p] # Idle => BoundTree(proc'[p], disk'[PackDraft], unbound', pointer')
  PROVE  BoundInv'
<1>1. ASSUME NEW q \in Procs, proc'[q].cmd \in PackCommands
      PROVE  BoundNotes(proc'[q], q, unbound')
  <2>1. CASE q = p
    BY <1>1, <2>1
  <2>2. CASE q # p
    <3>1. proc'[q] = proc[q] /\ BoundNotes(proc[q], q, unbound)
      BY <1>1, <2>2, Others DEF BoundInv
    <3>2. QED  BY <3>1, <2>2 DEF BoundNotes
  <2>3. QED  BY <2>1, <2>2
<1>2. ASSUME PackDraft \notin contested'
      PROVE  /\ Good(disk'[PackDraft], unbound', pointer')
             /\ \A q \in Procs : PackDraft \in On(q)' =>
                  BoundTree(proc'[q], disk'[PackDraft], unbound', pointer')
  <2>1. PackDraft \notin contested /\ PackDraft \in Places
    BY <1>2 DEF Frame, Rest, PackDraft, Draft, Places
  <2>2. /\ Good(disk[PackDraft], unbound, pointer)
        /\ \A q \in Procs : PackDraft \in On(q) =>
             BoundTree(proc[q], disk[PackDraft], unbound, pointer)
    BY <2>1 DEF BoundInv
  <2>3. CASE PackDraft \in proc[p].on
    <3>1. On(p) = proc[p].on /\ On(p)' = IF proc'[p] = Idle THEN {} ELSE proc[p].on
      BY OnAfter
    <3>2. \A q \in Procs : q # p => PackDraft \notin On(q)'
      BY <2>1, <2>3, <3>1, Others DEF Exclusive
    <3>3. QED  BY <2>1, <2>2, <2>3, <3>1, <3>2
  <2>4. CASE PackDraft \notin proc[p].on
    <3>1. disk'[PackDraft] = disk[PackDraft]
      BY <2>1, <2>4 DEF Frame, DiskFrame
    <3>2. PackDraft \notin On(p)'
      BY <2>4, OnAfter
    <3>3. \A q \in Procs : PackDraft \in On(q)' =>
            q # p /\ PackDraft \in On(q) /\ proc'[q] = proc[q]
      BY <3>2, Others
    <3>4. \A d : Good(d, unbound, pointer) => Good(d, unbound', pointer')
      BY <2>4 DEF Good
    <3>5. \A c, d : BoundTree(c, d, unbound, pointer) => BoundTree(c, d, unbound', pointer')
      BY <2>4, <3>4 DEF BoundTree
    <3>6. QED  BY <2>2, <3>1, <3>3, <3>4, <3>5
  <2>5. QED  BY <2>3, <2>4
<1>3. QED  BY <1>1, <1>2 DEF BoundInv

\* A command that starts finds the Pack bound as it is.
LEMMA BoundStarted ==
  ASSUME Shape, Exclusive, BoundInv, PackSkill \in Skills, NEW p \in Procs, StartFrame(p),
         UNCHANGED <<unbound, pointer>>,
         proc'[p].cmd \in PackCommands => BoundNotes(proc'[p], p, unbound),
         PackDraft \in proc'[p].on /\ Good(disk[PackDraft], unbound, pointer)
         => BoundTree(proc'[p], disk[PackDraft], unbound, pointer)
  PROVE  BoundInv'
<1>1. ASSUME NEW q \in Procs, proc'[q].cmd \in PackCommands
      PROVE  BoundNotes(proc'[q], q, unbound')
  BY <1>1, Others DEF BoundInv
<1>2. ASSUME PackDraft \notin contested'
      PROVE  /\ Good(disk'[PackDraft], unbound', pointer')
             /\ \A q \in Procs : PackDraft \in On(q)' =>
                  BoundTree(proc'[q], disk'[PackDraft], unbound', pointer')
  <2>1. PackDraft \notin contested /\ disk' = disk
    BY <1>2 DEF StartFrame
  <2>2. /\ Good(disk[PackDraft], unbound, pointer)
        /\ \A q \in Procs : PackDraft \in On(q) =>
             BoundTree(proc[q], disk[PackDraft], unbound, pointer)
    BY <2>1 DEF BoundInv
  <2>3. ASSUME NEW q \in Procs, PackDraft \in On(q)'
        PROVE  BoundTree(proc'[q], disk'[PackDraft], unbound', pointer')
    <3>1. CASE q = p
      <4>1. PackDraft \in proc'[p].on
        BY <2>3, <3>1, OnAfter
      <4>2. QED  BY <2>1, <2>2, <3>1, <4>1
    <3>2. CASE q # p
      <4>1. PackDraft \in On(q) /\ proc'[q] = proc[q]
        BY <2>3, <3>2, Others
      <4>2. QED  BY <2>1, <2>2, <4>1
    <3>3. QED  BY <3>1, <3>2
  <2>4. QED  BY <2>1, <2>2, <2>3
<1>3. UNCHANGED <<unbound, pointer>>
  OBVIOUS
<1>4. unbound' # Nothing => unbound'.release = pointer' /\ pointer' # Nothing
  BY <1>3 DEF BoundInv
<1>5. QED  BY <1>1, <1>2, <1>4 DEF BoundInv

-----------------------------------------------------------------------------
(* Builds.                                                                      *)

\* Step by step: what a build leaves at the draft it works on.
LEMMA BuildSteps ==
  ASSUME Shape, PackSkill \in Skills, NEW p \in Procs, BuildActs(p),
         NEW at, at = proc[p].at, NEW waits, NEW active
  PROVE  /\ at \notin adrift' /\ BuildTree(proc[p], disk[at], owed[at]) =>
              IF proc'[p] = Idle THEN disk'[at] = owed'[at]
              ELSE BuildTree(proc'[p], disk'[at], owed'[at])
         /\ SkillTree(proc[p], at, disk[at], saved \cup died) =>
              IF proc'[p] = Idle THEN KnownIn(disk'[at], saved' \cup died')
              ELSE SkillTree(proc'[p], at, disk'[at], saved' \cup died')
         /\ Good(disk[at], waits, active) /\ BoundTree(proc[p], disk[at], waits, active) =>
              /\ Good(disk'[at], waits, active)
              /\ proc'[p] # Idle => BoundTree(proc'[p], disk'[at], waits, active)
<1>1. IsBuild(proc[p]) /\ Running(p) /\ Frame(p) /\ (proc'[p] = Idle \/ IsBuild(proc'[p]))
  BY BuildFrame DEF Frame
<1>2. /\ proc[p].on = {at} /\ at \in DraftPlaces /\ at \in proc[p].on
      /\ IsContent(disk[at]) /\ IsContent(proc[p].held) /\ IsContent(proc[p].dir)
      /\ IsDirectory(proc[p].dir) /\ proc[p].cmd = "build"
      /\ proc[p].pc \in {"compile", "out", "in", "back", "save", "unsave", "replace", "bundle"}
  BY <1>1, OnPlaces DEF IsBuild, Shape
<1>3. saved \subseteq saved' /\ died \subseteq died'
  BY <1>1 DEF Frame, Rest
<1>4. PICK before, after : before = saved \cup died /\ after = saved' \cup died'
  OBVIOUS
<1>5. before \subseteq after
  BY <1>3, <1>4
<1>6. \A d : KnownIn(d, before) => KnownIn(d, after)
  BY <1>5, Known
<1>7. ~IsDirectory(Nothing) /\ IsContent(Nothing)
  BY Made
<1>8. KnownIn(Nothing, after) /\ Good(Nothing, waits, active)
  BY <1>7 DEF KnownIn, Good
<1>9. BoundTree(proc[p], disk[at], waits, active) => Good(proc[p].dir, waits, active)
  BY <1>2, Distinct DEF BoundTree, Good, Opens, ValidClosure, IsWhole
<1>10. SkillTree(proc[p], at, disk[at], before) =>
         /\ KnownIn(proc[p].held, after)
         /\ ~(proc[p].pc \in {"save", "unsave"} /\ disk[at] = proc[p].dir) =>
              KnownIn(disk[at], after)
  BY <1>2, <1>6 DEF SkillTree
<1>11. BoundTree(proc[p], disk[at], waits, active) =>
         /\ Good(proc[p].held, waits, active) /\ proc[p].dir.pack = Nothing
         /\ \/ proc[p].dir.closure = Nothing
            \/ proc[p].dir.closure # Torn /\ proc[p].dir.closure.life = "candidate"
  BY <1>2 DEF BoundTree

\* The command goes on.
<1>12. ASSUME NEW pc \in {"compile", "out", "in", "back", "save", "unsave", "replace",
                          "bundle"}, Continue(p, pc)
       PROVE  /\ proc'[p] # Idle /\ proc'[p].cmd = "build" /\ proc'[p].pc = pc
              /\ proc'[p].held = proc[p].held /\ proc'[p].dir = proc[p].dir
  BY <1>1, <1>12, BuildGoesOn, Distinct DEF IsBuild
<1>13. ASSUME proc'[p].cmd = "build", proc'[p].dir = proc[p].dir,
              Good(disk[at], waits, active) =>
                proc'[p].held \in {proc[p].held, disk[at]}
       PROVE  Good(disk[at], waits, active) /\ BoundTree(proc[p], disk[at], waits, active)
                => \A d : BoundTree(proc'[p], d, waits, active)
  BY <1>11, <1>13 DEF BoundTree, PackCommands
<1> DEFINE Goal ==
      /\ at \notin adrift' /\ BuildTree(proc[p], disk[at], owed[at]) =>
              IF proc'[p] = Idle THEN disk'[at] = owed'[at]
              ELSE BuildTree(proc'[p], disk'[at], owed'[at])
      /\ SkillTree(proc[p], at, disk[at], before) =>
              IF proc'[p] = Idle THEN KnownIn(disk'[at], after)
              ELSE SkillTree(proc'[p], at, disk'[at], after)
      /\ Good(disk[at], waits, active) /\ BoundTree(proc[p], disk[at], waits, active) =>
              /\ Good(disk'[at], waits, active)
              /\ proc'[p] # Idle => BoundTree(proc'[p], disk'[at], waits, active)
<1>14. SUFFICES Goal
  BY <1>4
<1>20. CASE BuildRefused(p)
  <2>1. /\ proc[p].pc = "compile" /\ proc'[p] = Idle /\ disk' = disk /\ owed' = owed
    BY <1>20, <1>1, EndsFrame DEF BuildRefused, At
  <2>2. QED  BY <2>1, <1>10 DEF BuildTree
<1>21. CASE BuildCompiled(p)
  <2>1. /\ proc[p].pc = "compile" /\ disk' = disk /\ owed' = owed
        /\ proc'[p] # Idle /\ proc'[p].cmd = "build" /\ proc'[p].pc = "out"
        /\ proc'[p].held = proc[p].held /\ proc'[p].dir = proc[p].dir
    BY <1>21, <1>12 DEF BuildCompiled, At, Stay
  <2>2. QED  BY <2>1, <1>10, <1>13 DEF BuildTree, SkillTree
<1>22. CASE DraftOut(p)
  <2>1. proc[p].pc = "out"
    BY <1>22 DEF DraftOut, At
  <2>2. CASE Fails(p) /\ UNCHANGED <<disk, adrift>>
    <3>1. proc'[p] = Idle /\ disk' = disk /\ owed' = owed
      BY <2>2, <1>1, EndsFrame
    <3>2. QED  BY <2>1, <3>1, <1>10 DEF BuildTree
  <2>3. CASE /\ Put(at, Nothing) /\ Stay
             /\ proc' = [proc EXCEPT ![p].held = disk[at], ![p].pc = "in"]
    <3>1. PICK c : c = [proc[p] EXCEPT !.held = disk[at], !.pc = "in"]
      OBVIOUS
    <3>2. proc' = [proc EXCEPT ![p] = c]
      BY <2>3, <3>1
    <3>3. c.cmd = "build" /\ c.pc = "in" /\ c.held = disk[at] /\ c.dir = proc[p].dir
      BY <3>1, <1>1 DEF IsBuild, Fields
    <3>4. /\ proc'[p].cmd = "build" /\ proc'[p].pc = "in" /\ proc'[p].held = disk[at]
          /\ proc'[p].dir = proc[p].dir /\ proc'[p] # Idle
      BY <3>2, <3>3, Alone, Distinct
    <3>5. disk'[at] = Nothing /\ owed' = owed
      BY <2>3, <1>1, <1>2, <1>7, DiskKept DEF Stay
    <3>6. QED  BY <2>1, <3>4, <3>5, <1>8, <1>10, <1>13 DEF BuildTree, SkillTree
  <2>4. QED  BY <1>22, <2>2, <2>3 DEF DraftOut
<1>23. CASE DraftIn(p)
  <2>1. proc[p].pc = "in" /\ owed' = owed
    BY <1>23 DEF DraftIn, At, Stay
  <2>2. CASE Put(at, proc[p].dir) /\ Continue(p, "save")
    <3>1. disk'[at] = proc[p].dir
      BY <2>2, <1>1, <1>2, DiskKept
    <3>2. /\ proc'[p] # Idle /\ proc'[p].cmd = "build" /\ proc'[p].pc = "save"
          /\ proc'[p].held = proc[p].held /\ proc'[p].dir = proc[p].dir
      BY <2>2, <1>12
    <3>3. QED  BY <2>1, <3>1, <3>2, <1>9, <1>10, <1>13 DEF BuildTree, SkillTree
  <2>3. CASE Continue(p, "back") /\ disk' = disk
    <3>1. /\ proc'[p] # Idle /\ proc'[p].cmd = "build" /\ proc'[p].pc = "back"
          /\ proc'[p].held = proc[p].held /\ proc'[p].dir = proc[p].dir
      BY <2>3, <1>12
    <3>2. QED  BY <2>1, <2>3, <3>1, <1>10, <1>13 DEF BuildTree, SkillTree
  <2>4. QED  BY <1>23, <2>2, <2>3 DEF DraftIn
<1>24. CASE DraftBack(p)
  <2>1. proc[p].pc = "back" /\ proc'[p] = Idle /\ owed' = owed
    BY <1>24, <1>1, EndsFrame DEF DraftBack, At
  <2>2. CASE Put(at, IF disk[at] = Nothing THEN proc[p].held ELSE disk[at])
    <3>1. disk'[at] = IF disk[at] = Nothing THEN proc[p].held ELSE disk[at]
      BY <2>2, <1>1, <1>2, DiskKept
    <3>2. QED  BY <2>1, <3>1, <1>10, <1>11 DEF BuildTree
  <2>3. CASE Expose({at}) /\ disk' = disk
    BY <2>1, <2>3, <1>10 DEF Expose
  <2>4. QED  BY <1>24, <2>2, <2>3 DEF DraftBack
<1>25. CASE SaveUnits(p)
  <2>1. proc[p].pc = "save" /\ disk' = disk /\ owed' = owed
    BY <1>25 DEF SaveUnits, At, Stay
  <2>2. CASE saved' = saved \cup {proc[p].dir.skill} /\ Continue(p, "bundle")
    <3>1. /\ proc'[p] # Idle /\ proc'[p].cmd = "build" /\ proc'[p].pc = "bundle"
          /\ proc'[p].held = proc[p].held /\ proc'[p].dir = proc[p].dir
      BY <2>2, <1>12
    <3>2. proc[p].dir.skill \in after
      BY <2>2, <1>4
    <3>3. KnownIn(proc[p].dir, after)
      BY <3>2 DEF KnownIn
    <3>4. QED  BY <2>1, <3>1, <3>3, <1>10, <1>13 DEF BuildTree, SkillTree
  <2>3. CASE Continue(p, "unsave")
    <3>1. /\ proc'[p] # Idle /\ proc'[p].cmd = "build" /\ proc'[p].pc = "unsave"
          /\ proc'[p].held = proc[p].held /\ proc'[p].dir = proc[p].dir
      BY <2>3, <1>12
    <3>2. QED  BY <2>1, <3>1, <1>10, <1>13 DEF BuildTree, SkillTree
  <2>4. QED  BY <1>25, <2>2, <2>3 DEF SaveUnits
<1>26. CASE RemoveNewDraft(p)
  <2>1. proc[p].pc = "unsave" /\ disk'[at] = Nothing
    BY <1>26, <1>1, <1>2, <1>7, DiskKept DEF RemoveNewDraft, At
  <2>2. CASE proc[p].held = Nothing /\ Fails(p)
    <3>1. proc'[p] = Idle /\ owed' = owed
      BY <2>2, <1>1, EndsFrame
    <3>2. QED  BY <2>1, <2>2, <3>1, <1>8 DEF BuildTree
  <2>3. CASE Continue(p, "replace") /\ Stay
    <3>1. /\ proc'[p] # Idle /\ proc'[p].cmd = "build" /\ proc'[p].pc = "replace"
          /\ proc'[p].held = proc[p].held /\ proc'[p].dir = proc[p].dir
      BY <2>3, <1>12
    <3>2. owed' = owed
      BY <2>3 DEF Stay
    <3>3. QED  BY <2>1, <3>1, <3>2, <1>8, <1>10, <1>13 DEF BuildTree, SkillTree
  <2>4. QED  BY <1>26, <2>2, <2>3 DEF RemoveNewDraft
<1>27. CASE RestoreDraft(p)
  <2>1. proc[p].pc = "replace" /\ proc'[p] = Idle /\ owed' = owed
    BY <1>27, <1>1, EndsFrame DEF RestoreDraft, At
  <2>2. CASE Put(at, proc[p].held)
    <3>1. disk'[at] = proc[p].held
      BY <2>2, <1>1, <1>2, DiskKept
    <3>2. QED  BY <2>1, <3>1, <1>10, <1>11 DEF BuildTree
  <2>3. CASE Expose({at}) /\ disk' = disk
    BY <2>1, <2>3, <1>10 DEF Expose
  <2>4. QED  BY <1>27, <2>2, <2>3 DEF RestoreDraft
<1>28. CASE BuildEnds(p)
  <2>1. proc[p].pc = "bundle" /\ disk' = disk
    BY <1>28 DEF BuildEnds, At
  <2>2. CASE Succeeds(p, [place \in {at} |-> proc[p].dir])
    <3>1. proc'[p] = Idle /\ owed'[at] = proc[p].dir
      BY <2>2, <1>1, <1>2, EndsFrame
    <3>2. QED  BY <2>1, <3>1, <1>10 DEF BuildTree
  <2>3. CASE Fails(p) /\ Expose({at})
    <3>1. proc'[p] = Idle /\ at \in adrift'
      BY <2>3 DEF Expose, Fails, Shape
    <3>2. QED  BY <2>1, <3>1, <1>10
  <2>4. QED  BY <1>28, <2>2, <2>3 DEF BuildEnds
<1>29. QED  BY <1>20, <1>21, <1>22, <1>23, <1>24, <1>25, <1>26, <1>27, <1>28 DEF BuildActs

-----------------------------------------------------------------------------
(* Migrations.                                                                  *)

\* A migrated directory is the same Skill, with a Closure for the Pack it had.
LEMMA MigratedIs ==
  ASSUME NEW d, IsContent(d), IsDirectory(d)
  PROVE  LET m == Migrated(d)
         IN /\ IsDirectory(m) /\ m.skill = d.skill
            /\ m.closure # Nothing /\ m.closure # Torn /\ m.closure.pack = d.pack
<1>1. PICK c : c = ClosureFor(d, "production", NoRequirements.caps)
  OBVIOUS
<1>2. c.pack = d.pack /\ c # Nothing /\ c # Torn
  BY <1>1, Distinct DEF ClosureFor, Fields, IsWhole
<1>3. PICK m : m = [d EXCEPT !.closure = c,
                             !.product = [needs |-> NoRequirements, closure |-> c]]
  OBVIOUS
<1>4. m.skill = d.skill /\ m.closure = c
  BY <1>3 DEF IsContent, Fields
<1>5. Migrated(d) = m
  BY <1>1, <1>3 DEF Migrated, Emitted
<1>6. QED  BY <1>2, <1>4, <1>5, Made DEF Migrated

\* What is to be shown of a step, at each draft of the batch.
MigrateGoal(p, place, waits, active) ==
  /\ place \notin adrift' /\ MigrateTree(proc[p], place, disk[place], owed[place]) =>
       IF proc'[p] = Idle THEN disk'[place] = owed'[place]
       ELSE MigrateTree(proc'[p], place, disk'[place], owed'[place])
  /\ SkillTree(proc[p], place, disk[place], saved \cup died) =>
       IF proc'[p] = Idle THEN KnownIn(disk'[place], saved' \cup died')
       ELSE SkillTree(proc'[p], place, disk'[place], saved' \cup died')
  /\ place = PackDraft /\ Good(disk[place], waits, active)
       /\ BoundTree(proc[p], disk[place], waits, active) =>
       /\ Good(disk'[place], waits, active)
       /\ proc'[p] # Idle => BoundTree(proc'[p], disk'[place], waits, active)

\* As long as the copies stay what they are, only the disk and the notes on where
\* the batch is can disturb that.
LEMMA MigrateMoves ==
  ASSUME Shape, PackSkill \in Skills, NEW p \in Procs, MigrateActs(p),
         NEW place \in proc[p].on, NEW waits, NEW active,
         place \notin adrift' /\ MigrateTree(proc[p], place, disk[place], owed[place]) =>
           IF proc'[p] = Idle THEN disk'[place] = owed'[place]
           ELSE MigrateTree(proc'[p], place, disk'[place], owed'[place]),
         disk'[place] \in {disk[place], Nothing, proc[p].held[place], proc[p].dir[place]},
         proc'[p] = Idle
           \/ /\ proc'[p].pc # "stage" /\ proc'[p].dir = proc[p].dir
              /\ proc'[p].held[place] \in {proc[p].held[place], disk[place]}
  PROVE  MigrateGoal(p, place, waits, active)
<1>1. /\ IsMigrate(proc[p]) /\ Frame(p) /\ (proc'[p] = Idle \/ IsMigrate(proc'[p]))
      /\ proc[p].cmd = "migrate"
  BY MigrateFrame DEF IsMigrate
<1>2. proc'[p] # Idle => proc'[p].cmd = "migrate"
  BY <1>1 DEF IsMigrate
<1>3. PICK before, after : before = saved \cup died /\ after = saved' \cup died'
  OBVIOUS
<1>4. before \subseteq after
  BY <1>1, <1>3 DEF Frame, Rest
<1>5. \A d : KnownIn(d, before) => KnownIn(d, after)
  BY <1>4, Known
<1>6. KnownIn(Nothing, after) /\ Good(Nothing, waits, active)
  BY Made DEF KnownIn, Good
<1>7. ASSUME SkillTree(proc[p], place, disk[place], before)
      PROVE  IF proc'[p] = Idle THEN KnownIn(disk'[place], after)
             ELSE SkillTree(proc'[p], place, disk'[place], after)
  <2>1. /\ KnownIn(disk[place], after) /\ KnownIn(proc[p].held[place], after)
        /\ KnownIn(proc[p].dir[place], after)
    BY <1>1, <1>5, <1>7 DEF SkillTree
  <2>2. QED  BY <1>2, <1>6, <2>1 DEF SkillTree
<1>8. ASSUME place = PackDraft, Good(disk[place], waits, active),
             BoundTree(proc[p], disk[place], waits, active)
      PROVE  /\ Good(disk'[place], waits, active)
             /\ proc'[p] # Idle => BoundTree(proc'[p], disk'[place], waits, active)
  <2>1. /\ Good(proc[p].held[place], waits, active)
        /\ IsDirectory(proc[p].dir[place]) =>
            /\ proc[p].dir[place].closure # Torn
            /\ proc[p].dir[place].closure # Nothing
            /\ proc[p].dir[place].closure.pack = Nothing
    BY <1>1, <1>8 DEF BoundTree
  <2>2. Good(proc[p].dir[place], waits, active)
    BY <2>1 DEF Good
  <2>3. Good(disk'[place], waits, active)
    BY <1>6, <1>8, <2>1, <2>2
  <2>4. ASSUME proc'[p] # Idle  PROVE BoundTree(proc'[p], disk'[place], waits, active)
    BY <1>2, <1>8, <2>1, <2>4 DEF BoundTree, PackCommands
  <2>5. QED  BY <2>3, <2>4
<1>9. QED  BY <1>3, <1>7, <1>8 DEF MigrateGoal

\* What a step leaves at the other drafts of the batch.
LEMMA PutAt ==
  ASSUME Shape, PackSkill \in Skills, NEW p \in Procs, Running(p),
         NEW there \in proc[p].on, NEW d, Put(there, d), NEW place \in proc[p].on
  PROVE  disk'[place] = IF place = there THEN d ELSE disk[place]
<1>1. proc[p].on \subseteq Places
  BY OnPlaces
<1>2. QED  BY <1>1 DEF Put, Shape

\* Step by step: what a migration leaves at a draft of its batch.
LEMMA MigrateSteps ==
  ASSUME Shape, PackSkill \in Skills, NEW p \in Procs, MigrateActs(p),
         NEW place \in proc[p].on, NEW waits, NEW active
  PROVE  MigrateGoal(p, place, waits, active)
<1>1. /\ IsMigrate(proc[p]) /\ Running(p) /\ Frame(p) /\ proc[p].cmd = "migrate"
      /\ IsMigrate(proc'[p]) => proc'[p] # Idle
  BY MigrateFrame, Distinct DEF Frame, IsMigrate
<1>2. /\ proc[p].on \subseteq Places /\ IsContent(disk[place])
      /\ proc[p].todo \subseteq proc[p].on /\ proc[p].done \subseteq proc[p].on
      /\ proc[p].todo \cap proc[p].done = {}
      /\ proc[p].pc \in {"stage", "out"} => proc[p].done = {}
      /\ proc[p].pc \in {"out", "next", "in"} => proc[p].todo \cup proc[p].done = proc[p].on
      /\ proc[p].pc \in {"in", "back"} => proc[p].at \in proc[p].todo
      /\ proc[p].pc = "return" => proc[p].at \in proc[p].done
      /\ proc[p].pc \in {"stage", "out", "next", "in", "back", "revert", "return"}
      /\ Over(proc[p].held, proc[p].on) /\ Over(proc[p].dir, proc[p].on)
  BY <1>1, OnPlaces DEF IsMigrate, Shape
<1>3. CASE Stage(p)
  <2>1. proc[p].pc = "stage" /\ disk' = disk /\ saved' = saved /\ owed' = owed
    BY <1>3 DEF Stage, At, Stay, Fails
  <2>2. CASE Fails(p) /\ UNCHANGED adrift
    <3>1. proc'[p] = Idle
      BY <1>1, <2>2, EndsFrame
    <3>2. MigrateTree(proc[p], place, disk[place], owed[place]) => disk[place] = owed[place]
      BY <1>2, <2>1 DEF MigrateTree, Aside
    <3>3. QED  BY <2>1, <3>1, <3>2, MigrateMoves
  <2>3. ASSUME NEW x \in proc[p].todo, IsDirectory(disk[x]),
               proc' = [proc EXCEPT ![p].dir[x] = Migrated(disk[x]),
                 ![p].todo = IF @ = {x} THEN proc[p].on ELSE @ \ {x},
                 ![p].pc = IF proc[p].todo = {x} THEN "out" ELSE "stage"]
        PROVE  MigrateGoal(p, place, waits, active)
    <3>1. /\ IsMigrate(proc'[p]) /\ proc'[p].pc \in {"stage", "out"} /\ proc'[p].done = {}
          /\ proc'[p].dir = [proc[p].dir EXCEPT ![x] = Migrated(disk[x])]
          /\ proc'[p].held = proc[p].held
      BY <1>1, <2>1, <2>3, StageNotes
    <3>2. proc'[p].cmd = "migrate" /\ proc'[p] # Idle
      BY <3>1, <1>1, Distinct DEF IsMigrate
    <3>3. proc'[p].dir[place] = IF place = x THEN Migrated(disk[place]) ELSE proc[p].dir[place]
      BY <1>2, <3>1 DEF Over
    <3>4. place = x => /\ IsDirectory(Migrated(disk[place]))
                       /\ Migrated(disk[place]).skill = disk[place].skill
                       /\ Migrated(disk[place]).closure # Nothing
                       /\ Migrated(disk[place]).closure # Torn
                       /\ Migrated(disk[place]).closure.pack = disk[place].pack
                       /\ IsDirectory(disk[place])
      BY <2>3, <1>2, MigratedIs
    <3>5. MigrateTree(proc[p], place, disk[place], owed[place]) =>
            MigrateTree(proc'[p], place, disk'[place], owed'[place])
      BY <2>1, <3>1, <1>2 DEF MigrateTree, Aside
    <3>6. PICK before, after : before = saved \cup died /\ after = saved' \cup died'
      OBVIOUS
    <3>7. before \subseteq after
      BY <1>1, <3>6 DEF Frame, Rest
    <3>8. \A d : KnownIn(d, before) => KnownIn(d, after)
      BY <3>7, Known
    <3>9. ASSUME SkillTree(proc[p], place, disk[place], before)
          PROVE  SkillTree(proc'[p], place, disk'[place], after)
      <4>1. /\ KnownIn(disk[place], after) /\ KnownIn(proc[p].held[place], after)
            /\ KnownIn(proc[p].dir[place], after)
        BY <1>1, <3>8, <3>9 DEF SkillTree
      <4>2. KnownIn(proc'[p].dir[place], after)
        BY <4>1, <3>3, <3>4 DEF KnownIn
      <4>3. QED  BY <4>1, <4>2, <2>1, <3>1, <3>2 DEF SkillTree
    <3>10. ASSUME place = PackDraft, Good(disk[place], waits, active),
                  BoundTree(proc[p], disk[place], waits, active)
           PROVE  BoundTree(proc'[p], disk'[place], waits, active)
      <4>1. /\ Good(proc[p].held[place], waits, active)
            /\ IsDirectory(disk[place]) => disk[place].closure = Nothing
            /\ IsDirectory(proc[p].dir[place]) =>
                /\ proc[p].dir[place].closure # Torn
                /\ proc[p].dir[place].closure # Nothing
                /\ proc[p].dir[place].closure.pack = Nothing
        BY <1>1, <2>1, <3>10 DEF BoundTree
      <4>2. IsDirectory(disk[place]) => disk[place].pack = Nothing
        BY <3>10, <4>1 DEF Good
      <4>3. IsDirectory(proc'[p].dir[place]) =>
              /\ proc'[p].dir[place].closure # Torn
              /\ proc'[p].dir[place].closure # Nothing
              /\ proc'[p].dir[place].closure.pack = Nothing
        BY <4>1, <4>2, <3>3, <3>4
      <4>4. QED  BY <4>1, <4>3, <2>1, <3>1, <3>2, <3>10 DEF BoundTree, PackCommands
    <3>11. QED  BY <2>1, <3>2, <3>5, <3>6, <3>9, <3>10 DEF MigrateGoal
  <2>4. QED  BY <1>3, <2>2, <2>3 DEF Stage
<1>4. CASE LegacyOut(p)
  <2>1. proc[p].pc \in {"out", "next"} /\ owed' = owed
    BY <1>4 DEF LegacyOut, At, Stay
  <2>2. ASSUME NEW x \in proc[p].todo, Put(x, Nothing),
               proc' = [proc EXCEPT ![p].held[x] = disk[x], ![p].at = x, ![p].pc = "in"]
        PROVE  MigrateGoal(p, place, waits, active)
    <3>1. /\ IsMigrate(proc'[p]) /\ proc'[p].pc = "in" /\ proc'[p].done = proc[p].done
          /\ proc'[p].at = x /\ proc'[p].dir = proc[p].dir
          /\ proc'[p].held = [proc[p].held EXCEPT ![x] = disk[x]]
      BY <1>1, <2>1, <2>2, OutNotes
    <3>2. disk'[place] = IF place = x THEN Nothing ELSE disk[place]
      BY <1>1, <1>2, <2>2, PutAt
    <3>3. proc'[p].held[place] = IF place = x THEN disk[place] ELSE proc[p].held[place]
      BY <1>2, <3>1 DEF Over
    <3>4. x \notin proc[p].done
      BY <1>2
    <3>5. MigrateTree(proc[p], place, disk[place], owed[place]) =>
            MigrateTree(proc'[p], place, disk'[place], owed'[place])
      BY <2>1, <3>1, <3>2, <3>3, <3>4 DEF MigrateTree, Aside
    <3>6. QED  BY <3>1, <3>2, <3>3, <3>5, <1>1, MigrateMoves
  <2>3. CASE Continue(p, "revert") /\ disk' = disk
    <3>1. /\ IsMigrate(proc'[p]) /\ proc'[p].pc = "revert" /\ proc'[p].done = proc[p].done
          /\ proc'[p].dir = proc[p].dir /\ proc'[p].held = proc[p].held
      BY <1>1, <2>3, MigrateGoesOn
    <3>2. MigrateTree(proc[p], place, disk[place], owed[place]) =>
            MigrateTree(proc'[p], place, disk'[place], owed'[place])
      BY <2>1, <2>3, <3>1 DEF MigrateTree, Aside
    <3>3. QED  BY <2>3, <3>1, <3>2, <1>1, MigrateMoves
  <2>4. QED  BY <1>4, <2>2, <2>3 DEF LegacyOut
<1>5. CASE MigratedIn(p)
  <2>1. proc[p].pc = "in" /\ proc[p].at \in proc[p].todo /\ proc[p].at \in proc[p].on
    BY <1>5, <1>2 DEF MigratedIn, At
  <2>2. CASE /\ Put(proc[p].at, proc[p].dir[proc[p].at]) /\ proc[p].todo \ {proc[p].at} = {}
             /\ Succeeds(p, proc[p].dir)
    <3>1. proc'[p] = Idle /\ owed'[place] = proc[p].dir[place]
      BY <1>1, <1>2, <2>2 DEF Succeeds, Shape
    <3>2. disk'[place] = IF place = proc[p].at THEN proc[p].dir[place] ELSE disk[place]
      BY <1>1, <2>1, <2>2, PutAt
    <3>3. place # proc[p].at => place \in proc[p].done
      BY <1>2, <2>1, <2>2
    <3>4. MigrateTree(proc[p], place, disk[place], owed[place]) =>
            disk'[place] = owed'[place]
      BY <2>1, <3>1, <3>2, <3>3 DEF MigrateTree
    <3>5. QED  BY <3>1, <3>2, <3>4, MigrateMoves
  <2>3. CASE /\ Put(proc[p].at, proc[p].dir[proc[p].at]) /\ Stay
             /\ proc' = [proc EXCEPT ![p].todo = proc[p].todo \ {proc[p].at},
                                     ![p].pc = "next", ![p].done = @ \cup {proc[p].at}]
    <3>1. PICK c : c = [proc[p] EXCEPT !.todo = proc[p].todo \ {proc[p].at},
                          !.done = proc[p].done \cup {proc[p].at}, !.pc = "next"]
      OBVIOUS
    <3>2. proc' = [proc EXCEPT ![p] = c]
      BY <2>3, <3>1
    <3>3. /\ c.dir = proc[p].dir /\ c.held = proc[p].held /\ c.pc = "next"
          /\ c.done = proc[p].done \cup {proc[p].at} /\ c.cmd = "migrate"
      BY <1>1, <3>1 DEF IsMigrate, Fields
    <3>4. proc'[p] = c
      BY <3>2, Alone
    <3>5. disk'[place] = IF place = proc[p].at THEN proc[p].dir[place] ELSE disk[place]
      BY <1>1, <2>1, <2>3, PutAt
    <3>6. owed' = owed
      BY <2>3 DEF Stay
    <3>7. MigrateTree(proc[p], place, disk[place], owed[place]) =>
            MigrateTree(c, place, disk'[place], owed'[place])
      BY <2>1, <3>3, <3>5, <3>6 DEF MigrateTree, Aside
    <3>8. c # Idle
      BY <3>3, Distinct
    <3>9. QED  BY <3>3, <3>4, <3>5, <3>7, <3>8, MigrateMoves
  <2>4. CASE Continue(p, "back") /\ disk' = disk /\ Stay
    <3>1. /\ IsMigrate(proc'[p]) /\ proc'[p].pc = "back" /\ proc'[p].done = proc[p].done
          /\ proc'[p].at = proc[p].at
          /\ proc'[p].dir = proc[p].dir /\ proc'[p].held = proc[p].held
      BY <1>1, <2>1, <2>4, MigrateGoesOn
    <3>2. owed' = owed
      BY <2>4 DEF Stay
    <3>3. MigrateTree(proc[p], place, disk[place], owed[place]) =>
            MigrateTree(proc'[p], place, disk'[place], owed'[place])
      BY <2>1, <2>4, <3>1, <3>2 DEF MigrateTree, Aside
    <3>4. QED  BY <2>4, <3>1, <3>3, <1>1, MigrateMoves
  <2>5. QED  BY <1>5, <2>2, <2>3, <2>4 DEF MigratedIn
<1>6. CASE LegacyBack(p)
  <2>1. /\ proc[p].pc = "back" /\ proc[p].at \in proc[p].todo /\ proc[p].at \in proc[p].on
        /\ owed' = owed /\ Continue(p, "revert")
    BY <1>6, <1>2 DEF LegacyBack, At
  <2>2. /\ IsMigrate(proc'[p]) /\ proc'[p].pc = "revert" /\ proc'[p].done = proc[p].done
        /\ proc'[p].dir = proc[p].dir /\ proc'[p].held = proc[p].held
    BY <1>1, <2>1, MigrateGoesOn
  <2>3. proc[p].at \notin proc[p].done
    BY <1>2, <2>1
  <2>4. CASE Put(proc[p].at, IF disk[proc[p].at] = Nothing THEN proc[p].held[proc[p].at]
                             ELSE disk[proc[p].at])
    <3>1. disk'[place] = IF place = proc[p].at
                         THEN IF disk[place] = Nothing THEN proc[p].held[place] ELSE disk[place]
                         ELSE disk[place]
      BY <1>1, <2>1, <2>4, PutAt
    <3>2. MigrateTree(proc[p], place, disk[place], owed[place]) =>
            MigrateTree(proc'[p], place, disk'[place], owed'[place])
      BY <2>1, <2>2, <2>3, <3>1 DEF MigrateTree, Aside
    <3>3. QED  BY <2>2, <3>1, <3>2, <1>1, MigrateMoves
  <2>5. CASE Expose({proc[p].at}) /\ disk' = disk
    <3>1. place \notin adrift' => place # proc[p].at
      BY <2>5 DEF Expose
    <3>2. place \notin adrift' /\ MigrateTree(proc[p], place, disk[place], owed[place]) =>
            MigrateTree(proc'[p], place, disk'[place], owed'[place])
      BY <2>1, <2>2, <2>5, <3>1 DEF MigrateTree, Aside
    <3>3. QED  BY <2>2, <2>5, <3>2, <1>1, MigrateMoves
  <2>6. QED  BY <1>6, <2>4, <2>5 DEF LegacyBack
<1>7. CASE Revert(p)
  <2>1. proc[p].pc = "revert"
    BY <1>7 DEF Revert, At
  <2>2. CASE proc[p].done = {} /\ Fails(p) /\ UNCHANGED <<disk, adrift>>
    <3>1. proc'[p] = Idle /\ owed' = owed
      BY <1>1, <2>2, EndsFrame
    <3>2. MigrateTree(proc[p], place, disk[place], owed[place]) => disk[place] = owed[place]
      BY <2>1, <2>2 DEF MigrateTree, Aside
    <3>3. QED  BY <2>2, <3>1, <3>2, MigrateMoves
  <2>3. ASSUME NEW x \in proc[p].done, Put(x, Nothing), Stay,
               proc' = [proc EXCEPT ![p].at = x, ![p].pc = "return"]
        PROVE  MigrateGoal(p, place, waits, active)
    <3>1. PICK c : c = [proc[p] EXCEPT !.at = x, !.pc = "return"]
      OBVIOUS
    <3>2. proc' = [proc EXCEPT ![p] = c]
      BY <2>3, <3>1
    <3>3. /\ c.dir = proc[p].dir /\ c.held = proc[p].held /\ c.pc = "return"
          /\ c.done = proc[p].done /\ c.at = x /\ c.cmd = "migrate"
      BY <1>1, <3>1 DEF IsMigrate, Fields
    <3>4. proc'[p] = c
      BY <3>2, Alone
    <3>5. disk'[place] = IF place = x THEN Nothing ELSE disk[place]
      BY <1>1, <1>2, <2>3, PutAt
    <3>6. owed' = owed
      BY <2>3 DEF Stay
    <3>7. MigrateTree(proc[p], place, disk[place], owed[place]) =>
            MigrateTree(c, place, disk'[place], owed'[place])
      BY <2>1, <3>3, <3>5, <3>6 DEF MigrateTree, Aside
    <3>8. c # Idle
      BY <3>3, Distinct
    <3>9. QED  BY <3>3, <3>4, <3>5, <3>7, <3>8, MigrateMoves
  <2>4. QED  BY <1>7, <2>2, <2>3 DEF Revert
<1>8. CASE Return(p)
  <2>1. proc[p].pc = "return" /\ proc[p].at \in proc[p].done /\ proc[p].at \in proc[p].on
    BY <1>8, <1>2 DEF Return, At
  <2>2. CASE /\ Put(proc[p].at, proc[p].held[proc[p].at]) /\ Stay
             /\ proc' = [proc EXCEPT ![p].done = @ \ {proc[p].at}, ![p].pc = "revert"]
    <3>1. PICK c : c = [proc[p] EXCEPT !.done = proc[p].done \ {proc[p].at}, !.pc = "revert"]
      OBVIOUS
    <3>2. proc' = [proc EXCEPT ![p] = c]
      BY <2>2, <3>1
    <3>3. /\ c.dir = proc[p].dir /\ c.held = proc[p].held /\ c.pc = "revert"
          /\ c.done = proc[p].done \ {proc[p].at} /\ c.cmd = "migrate"
      BY <1>1, <3>1 DEF IsMigrate, Fields
    <3>4. proc'[p] = c
      BY <3>2, Alone
    <3>5. disk'[place] = IF place = proc[p].at THEN proc[p].held[place] ELSE disk[place]
      BY <1>1, <2>1, <2>2, PutAt
    <3>6. owed' = owed
      BY <2>2 DEF Stay
    <3>7. MigrateTree(proc[p], place, disk[place], owed[place]) =>
            MigrateTree(c, place, disk'[place], owed'[place])
      BY <2>1, <3>3, <3>5, <3>6 DEF MigrateTree, Aside
    <3>8. c # Idle
      BY <3>3, Distinct
    <3>9. QED  BY <3>3, <3>4, <3>5, <3>7, <3>8, MigrateMoves
  <2>3. CASE Fails(p) /\ Expose(proc[p].on) /\ disk' = disk
    <3>1. proc'[p] = Idle /\ place \in adrift'
      BY <1>1, <2>3, EndsFrame DEF Expose
    <3>2. QED  BY <2>3, <3>1, MigrateMoves
  <2>4. QED  BY <1>8, <2>2, <2>3 DEF Return
<1>9. QED  BY <1>3, <1>4, <1>5, <1>6, <1>7, <1>8 DEF MigrateActs

-----------------------------------------------------------------------------
(* Installations and removals.                                                  *)

\* What is verified in a slot stays so until something else is written there.
LEMMA SlotsKept ==
  ASSUME Shape, SlotsInv, PackSkill \in Skills, NEW p \in Procs, Frame(p) \/ StartFrame(p),
         mixed \subseteq mixed',
         Frame(p) => \A place \in proc[p].on \cap SlotPlaces :
                       place \notin mixed' => Verified(disk'[place]),
         proc'[p].cmd = "install" =>
           /\ proc'[p].at \notin mixed' => Verified(proc'[p].held)
           /\ proc'[p].pc # "gate" => Verified(proc'[p].seen)
  PROVE  SlotsInv'
<1>1. ASSUME NEW place \in SlotPlaces, place \notin mixed'
      PROVE  Verified(disk'[place])
  <2>1. Verified(disk[place]) /\ place \in Places
    BY <1>1 DEF SlotsInv, SlotPlaces, Places
  <2>2. CASE StartFrame(p)
    BY <2>1, <2>2 DEF StartFrame
  <2>3. CASE Frame(p)
    BY <2>1, <2>3, <1>1 DEF Frame, DiskFrame
  <2>4. QED  BY <2>2, <2>3
<1>2. ASSUME NEW q \in Procs, proc'[q].cmd = "install"
      PROVE  /\ proc'[q].at \notin mixed' => Verified(proc'[q].held)
             /\ proc'[q].pc # "gate" => Verified(proc'[q].seen)
  <2>1. CASE q = p
    BY <1>2, <2>1
  <2>2. CASE q # p
    BY <1>2, <2>2, Others DEF SlotsInv
  <2>3. QED  BY <2>1, <2>2
<1>3. QED  BY <1>1, <1>2 DEF SlotsInv

\* What passes the gate is verified.
LEMMA Gated ==
  ASSUME NEW d, NEW host, MayInstall(d, host)
  PROVE  Verified(d)
BY DEF MayInstall, PassesGate, Verified

\* The steps of an installation, by what they note and leave in the slot.
LEMMA InstallSteps ==
  ASSUME Shape, PackSkill \in Skills, NEW p \in Procs, InstallActs(p), NEW at, at = proc[p].at
  PROVE  /\ at \notin adrift' /\ InstallTree(proc[p], disk[at], owed[at]) =>
              IF proc'[p] = Idle THEN disk'[at] = owed'[at]
              ELSE InstallTree(proc'[p], disk'[at], owed'[at])
         /\ mixed \subseteq mixed'
         /\ /\ at \notin mixed => Verified(disk[at]) /\ Verified(proc[p].held)
            /\ proc[p].pc # "gate" => Verified(proc[p].seen)
            => /\ at \notin mixed' => Verified(disk'[at])
               /\ proc'[p] # Idle =>
                    /\ at \notin mixed' => Verified(proc'[p].held)
                    /\ proc'[p].pc # "gate" => Verified(proc'[p].seen)
<1>1. /\ IsInstall(proc[p]) /\ Running(p) /\ Frame(p)
      /\ IsInstall(proc'[p]) => proc'[p] # Idle
  BY InstallFrame, Distinct DEF Frame, IsInstall
<1>2. /\ proc[p].on = {at} /\ at \in proc[p].on /\ IsContent(disk[at])
      /\ IsContent(proc[p].held) /\ IsContent(proc[p].dir)
      /\ proc[p].pc \in {"gate", "out", "copy", "in", "undo"} /\ proc[p].cmd = "install"
      /\ Fields(proc[p], {"cmd", "pc", "at", "on", "from", "host", "keep", "seen", "held",
                          "dir", "todo"})
  BY <1>1, OnPlaces DEF IsInstall, Shape
<1>3. Verified(Nothing) /\ Verified(Torn) /\ IsContent(Nothing) /\ IsContent(Torn)
  BY Made DEF Verified
<1>4. \A c : proc' = [proc EXCEPT ![p] = c] => proc'[p] = c
  BY Alone
<1>5. ASSUME NEW pc, Continue(p, pc)
      PROVE  /\ proc'[p] # Idle /\ proc'[p].pc = pc
             /\ proc'[p].seen = proc[p].seen /\ proc'[p].held = proc[p].held
  <2>1. PICK c : c = [proc[p] EXCEPT !.pc = pc]
    OBVIOUS
  <2>2. proc' = [proc EXCEPT ![p] = c]
    BY <1>5, <2>1 DEF Continue
  <2>3. c.cmd = "install" /\ c.pc = pc /\ c.seen = proc[p].seen /\ c.held = proc[p].held
    BY <2>1, <1>2 DEF Fields
  <2>4. QED  BY <2>2, <2>3, <1>4, Distinct
<1>6. CASE Gate(p)
  <2>1. /\ proc[p].pc = "gate" /\ disk' = disk /\ mixed' = mixed /\ owed' = owed
    BY <1>6 DEF Gate, At, Stay, Fails
  <2>2. CASE Fails(p)
    <3>1. proc'[p] = Idle
      BY <1>1, <2>2, EndsFrame
    <3>2. QED  BY <2>1, <3>1 DEF InstallTree
  <2>3. CASE /\ MayInstall(disk[proc[p].from], proc[p].host)
             /\ proc' = [proc EXCEPT ![p].seen = disk[proc[p].from], ![p].pc = "out"]
    <3>1. PICK c : c = [proc[p] EXCEPT !.seen = disk[proc[p].from], !.pc = "out"]
      OBVIOUS
    <3>2. proc' = [proc EXCEPT ![p] = c]
      BY <2>3, <3>1
    <3>3. /\ c.cmd = "install" /\ c.pc = "out" /\ c.seen = disk[proc[p].from]
          /\ c.held = proc[p].held
      BY <3>1, <1>2 DEF Fields
    <3>4. proc'[p] = c /\ c # Idle
      BY <3>2, <3>3, <1>4, Distinct
    <3>5. Verified(c.seen)
      BY <2>3, <3>3, Gated
    <3>6. QED  BY <2>1, <3>3, <3>4, <3>5 DEF InstallTree
  <2>4. QED  BY <1>6, <2>2, <2>3 DEF Gate
<1>7. CASE SlotOut(p)
  <2>1. proc[p].pc = "out" /\ mixed' = mixed
    BY <1>7 DEF SlotOut, At
  <2>2. CASE /\ Fails(p)
             /\ IF proc[p].keep THEN UNCHANGED <<disk, adrift>>
                ELSE Put(at, Torn) /\ Expose({at})
    <3>1. proc'[p] = Idle /\ owed' = owed
      BY <1>1, <2>2, EndsFrame
    <3>2. CASE proc[p].keep
      BY <2>1, <2>2, <3>1, <3>2 DEF InstallTree
    <3>3. CASE ~proc[p].keep
      <4>1. disk'[at] = Torn /\ at \in adrift'
        BY <2>2, <3>3, <1>1, <1>2, <1>3, DiskKept DEF Expose
      <4>2. QED  BY <2>1, <3>1, <4>1, <1>3
    <3>4. QED  BY <3>2, <3>3
  <2>3. CASE /\ Put(at, Nothing)
             /\ proc' = [proc EXCEPT
                  ![p].held = IF proc[p].keep THEN disk[at] ELSE Nothing, ![p].pc = "copy"]
             /\ owed' = IF proc[p].keep THEN owed ELSE [owed EXCEPT ![at] = Nothing]
    <3>1. PICK held : held = IF proc[p].keep THEN disk[at] ELSE Nothing
      OBVIOUS
    <3>2. PICK c : c = [proc[p] EXCEPT !.held = held, !.pc = "copy"]
      OBVIOUS
    <3>3. proc' = [proc EXCEPT ![p] = c]
      BY <2>3, <3>1, <3>2
    <3>4. c.cmd = "install" /\ c.pc = "copy" /\ c.seen = proc[p].seen /\ c.held = held
      BY <3>2, <1>2 DEF Fields
    <3>5. proc'[p] = c /\ c # Idle
      BY <3>3, <3>4, <1>4, Distinct
    <3>6. disk'[at] = Nothing
      BY <2>3, <1>1, <1>2, <1>3, DiskKept
    <3>7. owed'[at] = IF proc[p].keep THEN owed[at] ELSE Nothing
      <4>1. CASE proc[p].keep
        BY <2>3, <4>1
      <4>2. CASE ~proc[p].keep
        <5>1. owed' = [owed EXCEPT ![at] = Nothing]
          BY <2>3, <4>2
        <5>2. QED  BY <4>2, <5>1, <1>1, <1>2, <1>3, DiskKept
      <4>3. QED  BY <4>1, <4>2
    <3>8. QED  BY <2>1, <3>1, <3>4, <3>5, <3>6, <3>7, <1>3 DEF InstallTree
  <2>4. QED  BY <1>7, <2>2, <2>3 DEF SlotOut
<1>8. CASE Copy(p)
  <2>1. proc[p].pc = "copy" /\ disk' = disk /\ mixed' = mixed /\ owed' = owed
    BY <1>8 DEF Copy, At, Stay
  <2>2. CASE Continue(p, "undo") \/ Continue(p, "in")
    <3>1. /\ proc'[p] # Idle /\ proc'[p].pc \in {"undo", "in"}
          /\ proc'[p].seen = proc[p].seen /\ proc'[p].held = proc[p].held
      BY <2>2, <1>5
    <3>2. QED  BY <2>1, <3>1 DEF InstallTree
  <2>3. ASSUME NEW part \in proc[p].todo, NEW dir, NEW pc \in {"in", "copy"},
               proc' = [proc EXCEPT ![p].dir = dir, ![p].todo = @ \ {part}, ![p].pc = pc]
        PROVE  /\ proc'[p] # Idle /\ proc'[p].pc \in {"in", "copy"}
               /\ proc'[p].seen = proc[p].seen /\ proc'[p].held = proc[p].held
    <3>1. PICK c : c = [proc[p] EXCEPT !.dir = dir, !.todo = proc[p].todo \ {part}, !.pc = pc]
      OBVIOUS
    <3>2. proc' = [proc EXCEPT ![p] = c]
      BY <2>3, <3>1
    <3>3. c.cmd = "install" /\ c.pc = pc /\ c.seen = proc[p].seen /\ c.held = proc[p].held
      BY <3>1, <1>2 DEF Fields
    <3>4. QED  BY <3>2, <3>3, <1>4, Distinct
  <2>4. CASE \E part \in proc[p].todo :
                proc' = [proc EXCEPT
                  ![p].dir = Copied(IF @ = Empty THEN Directory(0, FALSE) ELSE @,
                                    disk[proc[p].from], part),
                  ![p].todo = @ \ {part},
                  ![p].pc = IF proc[p].todo = {part} THEN "in" ELSE "copy"]
    <3>1. PICK part \in proc[p].todo :
                proc' = [proc EXCEPT
                  ![p].dir = Copied(IF @ = Empty THEN Directory(0, FALSE) ELSE @,
                                    disk[proc[p].from], part),
                  ![p].todo = @ \ {part},
                  ![p].pc = IF proc[p].todo = {part} THEN "in" ELSE "copy"]
      BY <2>4
    <3>2. PICK dir : dir = Copied(IF proc[p].dir = Empty THEN Directory(0, FALSE)
                                  ELSE proc[p].dir, disk[proc[p].from], part)
      OBVIOUS
    <3>3. PICK pc \in {"in", "copy"} : pc = IF proc[p].todo = {part} THEN "in" ELSE "copy"
      OBVIOUS
    <3>4. proc' = [proc EXCEPT ![p].dir = dir, ![p].todo = @ \ {part}, ![p].pc = pc]
      BY <3>1, <3>2, <3>3
    <3>5. /\ proc'[p] # Idle /\ proc'[p].pc \in {"in", "copy"}
          /\ proc'[p].seen = proc[p].seen /\ proc'[p].held = proc[p].held
      BY <2>3, <3>4
    <3>6. QED  BY <2>1, <3>5 DEF InstallTree
  <2>5. QED  BY <1>8, <2>2, <2>4 DEF Copy
<1>9. CASE SlotIn(p)
  <2>1. proc[p].pc = "in"
    BY <1>9 DEF SlotIn, At
  <2>2. CASE /\ Put(at, proc[p].dir) /\ Succeeds(p, [place \in {at} |-> proc[p].dir])
             /\ mixed' = IF proc[p].dir = proc[p].seen THEN mixed ELSE mixed \cup {at}
    <3>1. proc'[p] = Idle /\ owed'[at] = proc[p].dir
      BY <2>2, <1>1, <1>2, EndsFrame
    <3>2. disk'[at] = proc[p].dir
      BY <2>2, <1>1, <1>2, DiskKept
    <3>3. QED  BY <2>1, <2>2, <3>1, <3>2
  <2>3. CASE Continue(p, "undo") /\ Stay /\ UNCHANGED <<disk, mixed>>
    <3>1. /\ proc'[p] # Idle /\ proc'[p].pc = "undo"
          /\ proc'[p].seen = proc[p].seen /\ proc'[p].held = proc[p].held
      BY <2>3, <1>5
    <3>2. QED  BY <2>1, <2>3, <3>1 DEF InstallTree, Stay
  <2>4. QED  BY <1>9, <2>2, <2>3 DEF SlotIn
<1>10. CASE SlotUndo(p)
  <2>1. proc[p].pc = "undo" /\ mixed' = mixed /\ proc'[p] = Idle /\ owed' = owed
    BY <1>10, <1>1, EndsFrame DEF SlotUndo, At
  <2>2. CASE Put(at, IF proc[p].held = Nothing THEN disk[at] ELSE proc[p].held)
    <3>1. disk'[at] = IF proc[p].held = Nothing THEN disk[at] ELSE proc[p].held
      BY <2>2, <1>1, <1>2, DiskKept
    <3>2. QED  BY <2>1, <3>1 DEF InstallTree
  <2>3. CASE Expose({at}) /\ disk' = disk
    BY <2>1, <2>3 DEF Expose
  <2>4. QED  BY <1>10, <2>2, <2>3 DEF SlotUndo
<1>11. QED  BY <1>6, <1>7, <1>8, <1>9, <1>10 DEF InstallActs

\* A removal leaves an empty slot, or says that it could not.
LEMMA RemoveSteps ==
  ASSUME Shape, PackSkill \in Skills, NEW p \in Procs, RemoveSlot(p), NEW at, at = proc[p].at
  PROVE  /\ at \notin adrift' => disk'[at] = owed'[at]
         /\ mixed' = mixed /\ Verified(disk'[at])
<1>1. IsUninstall(proc[p]) /\ Running(p)
  BY RemoveFrame DEF Frame
<1>2. proc[p].on = {at} /\ at \in proc[p].on
  BY <1>1 DEF IsUninstall
<1>3. Verified(Nothing) /\ Verified(Torn) /\ IsContent(Nothing) /\ IsContent(Torn)
  BY Made DEF Verified
<1>4. CASE Put(at, Nothing) /\ Succeeds(p, [place \in {at} |-> Nothing])
  <2>1. disk'[at] = Nothing /\ owed'[at] = Nothing
    BY <1>1, <1>2, <1>3, <1>4, DiskKept, EndsFrame
  <2>2. QED  BY <2>1, <1>3 DEF RemoveSlot
<1>5. CASE Put(at, Torn) /\ Expose({at})
  <2>1. disk'[at] = Torn /\ at \in adrift'
    BY <1>1, <1>2, <1>3, <1>5, DiskKept DEF Expose
  <2>2. QED  BY <2>1, <1>3 DEF RemoveSlot
<1>6. QED  BY <1>4, <1>5 DEF RemoveSlot

-----------------------------------------------------------------------------
(* Pack commands: what each step changes in the notes of its command.          *)

PackFields == {"cmd", "pc", "on", "phase", "base", "release", "mine", "expected",
               "seen", "candidate", "version", "closure", "needs"}
Noted(e, c, changed) == \A name \in PackFields \ changed : e[name] = c[name]

\* The steps up to the store.
LEMMA PublishNotes ==
  ASSUME Shape, PackSkill \in Skills, NEW p \in Procs, NEW c, c = proc[p]
  PROVE  /\ PublishRefused(p) => c.pc = "review" /\ proc'[p] = Idle
         /\ PublishReviewed(p) =>
              /\ c.pc = "review" /\ proc'[p] # Idle
              /\ Noted(proc'[p], c, {"pc"})
              /\ \/ proc'[p].pc = "check"
                 \/ proc'[p].pc = "bind" /\ c.on # {} /\ pointer = c.base
         /\ CheckBase(p) =>
              /\ c.pc = "check"
              /\ \/ proc'[p] = Idle
                 \/ /\ proc'[p] # Idle
                    /\ Noted(proc'[p], c, {"pc", "release", "phase"})
                    /\ proc'[p].pc = "store" /\ proc'[p].phase = "forward"
                    /\ proc'[p].release = NewRelease(c.base, c.candidate, c.version)
                    /\ MayPublish(c.base, c.candidate, c.version)
                    /\ pointer # Nothing => pointer = c.base
<1>1. PublishRefused(p) \/ PublishReviewed(p) \/ CheckBase(p) =>
        /\ IsPack(proc[p]) /\ Fields(c, PackFields)
        /\ c.phase = "before" /\ c.cmd = "publish" /\ c.on \in {{}, {PackDraft}}
  BY PublishFrame, Distinct DEF IsPack, PackCommands, PackFields, PublishRefused, PublishReviewed,
     CheckBase, PackAt
<1>2. ASSUME PublishRefused(p)  PROVE c.pc = "review" /\ proc'[p] = Idle
  BY <1>2 DEF PublishRefused, PackAt, Fails, Shape
<1>3. ASSUME PublishReviewed(p)
      PROVE  /\ c.pc = "review" /\ proc'[p] # Idle
             /\ Noted(proc'[p], c, {"pc"})
             /\ \/ proc'[p].pc = "check"
                \/ proc'[p].pc = "bind" /\ c.on # {} /\ pointer = c.base
  <2>1. PICK pc \in {"check", "bind"} :
          Continue(p, pc) /\ (pc = "bind" => c.on # {} /\ pointer = c.base)
    BY <1>3 DEF PublishReviewed
  <2>2. PICK e : e = [c EXCEPT !.pc = pc]
    OBVIOUS
  <2>3. Noted(e, c, {"pc"}) /\ e.pc = pc /\ e.cmd = c.cmd
    BY <1>1, <1>3, <2>2 DEF Noted, Fields, PackFields
  <2>4. proc'[p] = e
    BY <2>1, <2>2, GoesOn
  <2>5. e # Idle /\ c.pc = "review"
    BY <1>1, <1>3, <2>3, Distinct DEF PublishReviewed, PackAt
  <2>6. QED  BY <2>1, <2>3, <2>4, <2>5
<1>4. ASSUME CheckBase(p), proc'[p] # Idle
      PROVE  /\ Noted(proc'[p], c, {"pc", "release", "phase"})
             /\ proc'[p].pc = "store" /\ proc'[p].phase = "forward"
             /\ proc'[p].release = NewRelease(c.base, c.candidate, c.version)
             /\ MayPublish(c.base, c.candidate, c.version)
             /\ pointer # Nothing => pointer = c.base
  <2>1. PICK new : new = NewRelease(c.base, c.candidate, c.version)
    OBVIOUS
  <2>2. ~Fails(p)
    BY <1>4 DEF Fails, Shape
  <2>3. /\ proc' = [proc EXCEPT ![p].release = new, ![p].phase = "forward",
                                ![p].pc = "store"]
        /\ MayPublish(c.base, c.candidate, c.version)
        /\ pointer # Nothing => pointer = c.base
    BY <1>4, <2>1, <2>2 DEF CheckBase
  <2>4. PICK e : e = [c EXCEPT !.release = new, !.phase = "forward", !.pc = "store"]
    OBVIOUS
  <2>5. /\ Noted(e, c, {"pc", "release", "phase"})
        /\ e.pc = "store" /\ e.phase = "forward" /\ e.release = new
    BY <1>1, <1>4, <2>4 DEF Noted, Fields, PackFields
  <2>6. proc' = [proc EXCEPT ![p] = e]
    BY <2>3, <2>4
  <2>7. proc'[p] = e
    BY <2>6, Alone
  <2>8. QED  BY <2>1, <2>3, <2>5, <2>7
<1>5. CheckBase(p) => c.pc = "check"
  BY DEF CheckBase, PackAt
<1>6. QED  BY <1>2, <1>3, <1>4, <1>5

\* The steps of an activation.
LEMMA ActivateNotes ==
  ASSUME Shape, PackSkill \in Skills, NEW p \in Procs, NEW c, c = proc[p]
  PROVE  /\ Refused(p) =>
              proc'[p] = Idle /\ (c.phase = "undo" => c.on \subseteq adrift')
         /\ Store(p) =>
              /\ c.pc = "store" /\ (proc'[p] = Idle => Refused(p))
              /\ proc'[p] # Idle =>
                   /\ Noted(proc'[p], c, {"pc"})
                   /\ \/ proc'[p].pc = "write"
                      \/ proc'[p].pc = "expect" /\ releases[c.release.version] = c.release
         /\ Write(p) =>
              /\ c.pc = "write" /\ (proc'[p] = Idle => Refused(p))
              /\ proc'[p] = Idle => UNCHANGED <<releases, overwritten>>
              /\ proc'[p] # Idle =>
                   /\ Noted(proc'[p], c, {"pc"}) /\ proc'[p].pc = "expect"
                   /\ releases' = [releases EXCEPT ![c.release.version] = c.release]
                   /\ overwritten' = overwritten \cup
                        (IF releases[c.release.version] \in {Nothing, c.release} THEN {}
                         ELSE {c.release.version})
         /\ Expect(p) =>
              /\ c.pc = "expect" /\ (proc'[p] = Idle => Refused(p))
              /\ proc'[p] # Idle =>
                   /\ Noted(proc'[p], c, {"pc", "seen"}) /\ proc'[p].pc = "point"
                   /\ proc'[p].seen = IF c.phase = "undo" THEN c.seen ELSE moves
                   /\ AsExpected(p)
         /\ Undo(p) =>
              /\ c.pc = "undo" /\ (proc'[p] = Idle => c.on \subseteq adrift')
              /\ proc'[p] # Idle =>
                   /\ Noted(proc'[p], c, {"pc", "mine", "release", "phase", "expected"})
                   /\ proc'[p].pc = "store" /\ proc'[p].phase = "undo"
                   /\ proc'[p].mine = c.release
                   /\ proc'[p].release = releases[c.base.version]
                   /\ releases[c.base.version] # Nothing /\ ActiveLoads
<1>1. Store(p) \/ Write(p) \/ Expect(p) \/ Undo(p) => Fields(c, PackFields)
  BY ActivateFrame DEF IsPack, PackFields
<1>2. Refused(p) => proc'[p] = Idle /\ (c.phase = "undo" => c.on \subseteq adrift')
  BY DEF Refused, Fails, Expose, Shape
<1>3. ASSUME NEW pc, Continue(p, pc), Fields(c, PackFields)
      PROVE  Noted(proc'[p], c, {"pc"}) /\ proc'[p].pc = pc
  <2>1. PICK e : e = [c EXCEPT !.pc = pc]
    OBVIOUS
  <2>2. Noted(e, c, {"pc"}) /\ e.pc = pc
    BY <1>3, <2>1 DEF Noted, Fields, PackFields
  <2>3. proc'[p] = e
    BY <1>3, <2>1, GoesOn
  <2>4. QED  BY <2>2, <2>3
<1>4. ASSUME NEW c2, Noted(proc'[p], c2, {"pc"}), c2.cmd \in PackCommands
      PROVE  proc'[p] # Idle
  BY <1>4, Distinct DEF Noted, PackFields, PackCommands
<1>5. ASSUME Store(p)
      PROVE  /\ c.pc = "store" /\ (proc'[p] = Idle => Refused(p))
             /\ proc'[p] # Idle =>
                   /\ Noted(proc'[p], c, {"pc"})
                   /\ \/ proc'[p].pc = "write"
                      \/ proc'[p].pc = "expect" /\ releases[c.release.version] = c.release
  <2>1. c.pc = "store" /\ c.cmd \in PackCommands
    BY <1>5 DEF Store, PackAt
  <2>2. \/ Continue(p, "write") \/ Refused(p)
        \/ Continue(p, "expect") /\ releases[c.release.version] = c.release
    BY <1>5 DEF Store
  <2>3. QED  BY <1>1, <1>2, <1>3, <1>4, <1>5, <2>1, <2>2
<1>6. ASSUME Write(p)
      PROVE  /\ c.pc = "write" /\ (proc'[p] = Idle => Refused(p))
             /\ proc'[p] = Idle => UNCHANGED <<releases, overwritten>>
             /\ proc'[p] # Idle =>
                   /\ Noted(proc'[p], c, {"pc"}) /\ proc'[p].pc = "expect"
                   /\ releases' = [releases EXCEPT ![c.release.version] = c.release]
                   /\ overwritten' = overwritten \cup
                        (IF releases[c.release.version] \in {Nothing, c.release} THEN {}
                         ELSE {c.release.version})
  <2>1. c.pc = "write" /\ c.cmd \in PackCommands
    BY <1>6 DEF Write, PackAt
  <2>2. CASE /\ releases' = [releases EXCEPT ![c.release.version] = c.release]
             /\ overwritten' = overwritten \cup
                  (IF releases[c.release.version] \in {Nothing, c.release} THEN {}
                   ELSE {c.release.version})
             /\ Continue(p, "expect")
    <3>1. Noted(proc'[p], c, {"pc"}) /\ proc'[p].pc = "expect"
      BY <1>1, <1>3, <1>6, <2>2
    <3>2. proc'[p] # Idle
      BY <3>1, <2>1, <1>4
    <3>3. QED  BY <2>1, <2>2, <3>1, <3>2
  <2>3. CASE Refused(p) /\ UNCHANGED <<releases, overwritten>>
    BY <2>1, <2>3, <1>2
  <2>4. QED  BY <1>6, <2>2, <2>3 DEF Write
<1>7. ASSUME Expect(p)
      PROVE  /\ c.pc = "expect" /\ (proc'[p] = Idle => Refused(p))
             /\ proc'[p] # Idle =>
                   /\ Noted(proc'[p], c, {"pc", "seen"}) /\ proc'[p].pc = "point"
                   /\ proc'[p].seen = IF c.phase = "undo" THEN c.seen ELSE moves
                   /\ AsExpected(p)
  <2>1. c.pc = "expect" /\ c.cmd \in PackCommands
    BY <1>7 DEF Expect, PackAt
  <2>2. CASE ~AsExpected(p)
    <3>1. Refused(p)
      BY <1>7, <2>2 DEF Expect
    <3>2. QED  BY <2>1, <3>1, <1>2
  <2>3. CASE AsExpected(p)
    <3>1. proc' = [proc EXCEPT ![p].pc = "point",
                         ![p].seen = IF c.phase = "undo" THEN @ ELSE moves]
      BY <1>7, <2>3 DEF Expect
    <3>2. PICK seen : seen = IF c.phase = "undo" THEN c.seen ELSE moves
      OBVIOUS
    <3>3. PICK e : e = [c EXCEPT !.pc = "point", !.seen = seen]
      OBVIOUS
    <3>4. proc' = [proc EXCEPT ![p] = e]
      BY <3>1, <3>2, <3>3
    <3>5. Noted(e, c, {"pc", "seen"}) /\ e.pc = "point" /\ e.seen = seen /\ e.cmd = c.cmd
      BY <1>1, <1>7, <3>3 DEF Noted, Fields, PackFields
    <3>6. proc'[p] = e /\ e # Idle
      BY <2>1, <3>4, <3>5, Alone, Distinct DEF PackCommands
    <3>7. QED  BY <2>1, <2>3, <3>2, <3>5, <3>6
  <2>4. QED  BY <2>2, <2>3
<1>8. ASSUME Undo(p)
      PROVE  /\ c.pc = "undo" /\ (proc'[p] = Idle => c.on \subseteq adrift')
             /\ proc'[p] # Idle =>
                   /\ Noted(proc'[p], c, {"pc", "mine", "release", "phase", "expected"})
                   /\ proc'[p].pc = "store" /\ proc'[p].phase = "undo"
                   /\ proc'[p].mine = c.release
                   /\ proc'[p].release = releases[c.base.version]
                   /\ releases[c.base.version] # Nothing /\ ActiveLoads
  <2>1. c.pc = "undo" /\ c.cmd \in PackCommands
    BY <1>8 DEF Undo, PackAt
  <2>2. PICK target : target = releases[c.base.version]
    OBVIOUS
  <2>3. CASE Fails(p) /\ Expose(c.on)
    BY <2>1, <2>3 DEF Fails, Expose, Shape
  <2>4. CASE /\ ActiveLoads /\ target # Nothing
             /\ proc' = [proc EXCEPT ![p].mine = c.release,
                                     ![p].release = target, ![p].phase = "undo",
                                     ![p].expected = pointer.version, ![p].pc = "store"]
    <3>1. PICK e : e = [c EXCEPT !.mine = c.release, !.release = target, !.phase = "undo",
                                 !.expected = pointer.version, !.pc = "store"]
      OBVIOUS
    <3>2. proc' = [proc EXCEPT ![p] = e]
      BY <2>4, <3>1
    <3>3. /\ Noted(e, c, {"pc", "mine", "release", "phase", "expected"})
          /\ e.pc = "store" /\ e.phase = "undo" /\ e.mine = c.release /\ e.release = target
          /\ e.cmd = c.cmd
      BY <1>1, <1>8, <3>1 DEF Noted, Fields, PackFields
    <3>4. proc'[p] = e /\ e # Idle
      BY <2>1, <3>2, <3>3, Alone, Distinct DEF PackCommands
    <3>5. QED  BY <2>1, <2>2, <2>4, <3>3, <3>4
  <2>5. QED  BY <1>8, <2>2, <2>3, <2>4 DEF Undo
<1>9. QED  BY <1>2, <1>5, <1>6, <1>7, <1>8

\* The step that moves the pointer.
LEMMA PointNotes ==
  ASSUME Shape, PackSkill \in Skills, NEW p \in Procs, NEW c, c = proc[p], Point(p)
  PROVE  /\ c.pc = "point"
         /\ \/ /\ Refused(p) /\ proc'[p] = Idle
               /\ UNCHANGED <<pointer, unbound, kept, lost, moves>>
            \/ /\ pointer' = c.release /\ moves' = moves + 1
               /\ unbound' = [by |-> p, release |-> c.release]
               /\ kept' = StillKept(p) \cup {c.release}
               /\ lost' = IF Unseen(p) THEN lost \cup {r \in StillKept(p) : ~BothCover(p, r)}
                          ELSE lost
               /\ \/ c.on = {} /\ proc'[p] = Idle
                  \/ /\ c.on # {} /\ proc'[p] # Idle
                     /\ Noted(proc'[p], c, {"pc", "seen"})
                     /\ proc'[p].pc = "bind" /\ proc'[p].seen = moves + 1
<1>1. Fields(c, PackFields) /\ c.pc = "point" /\ c.cmd \in PackCommands
  BY PointFrame DEF IsPack, PackFields, Point, PackAt
<1>2. CASE Refused(p) /\ UNCHANGED <<pointer, unbound, kept, lost, moves>>
  BY <1>1, <1>2 DEF Refused, Fails, Shape
<1>3. CASE /\ pointer' = c.release /\ moves' = moves + 1
           /\ unbound' = [by |-> p, release |-> c.release]
           /\ kept' = StillKept(p) \cup {c.release}
           /\ lost' = IF Unseen(p) THEN lost \cup {r \in StillKept(p) : ~BothCover(p, r)}
                      ELSE lost
           /\ IF c.on = {} THEN Succeeds(p, << >>)
              ELSE proc' = [proc EXCEPT ![p].pc = "bind", ![p].seen = moves + 1]
  <2>1. CASE c.on = {}
    BY <1>1, <1>3, <2>1 DEF Succeeds, Shape
  <2>2. CASE c.on # {}
    <3>1. PICK e : e = [c EXCEPT !.pc = "bind", !.seen = moves + 1]
      OBVIOUS
    <3>2. proc' = [proc EXCEPT ![p] = e]
      BY <1>3, <2>2, <3>1
    <3>3. /\ Noted(e, c, {"pc", "seen"}) /\ e.pc = "bind" /\ e.seen = moves + 1
          /\ e.cmd = c.cmd
      BY <1>1, <3>1 DEF Noted, Fields, PackFields
    <3>4. proc'[p] = e /\ e # Idle
      BY <1>1, <3>2, <3>3, Alone, Distinct DEF PackCommands
    <3>5. QED  BY <1>1, <1>3, <2>2, <3>3, <3>4
  <2>3. QED  BY <2>1, <2>2
<1>4. QED  BY <1>2, <1>3 DEF Point

\* The steps of a binding.
LEMMA BindNotes ==
  ASSUME Shape, PackSkill \in Skills, NEW p \in Procs, NEW c, c = proc[p]
  PROVE  /\ Bind(p) =>
              /\ c.pc = "bind" /\ c.on = {PackDraft}
              /\ \/ BindFails(p) /\ disk' = disk
                 \/ /\ IsDirectory(disk[PackDraft]) /\ MayBind(disk[PackDraft], c.release)
                    /\ disk'[PackDraft] = [disk[PackDraft] EXCEPT !.pack = c.release]
                    /\ owed' = owed /\ proc'[p] # Idle
                    /\ Noted(proc'[p], c, {"pc", "closure", "needs"})
                    /\ proc'[p].pc = "manifest"
                    /\ proc'[p].closure = Rebound(disk[PackDraft].closure, c.release)
                    /\ proc'[p].needs = disk[PackDraft].product.needs
         /\ BindManifest(p) =>
              /\ c.pc = "manifest" /\ c.on = {PackDraft}
              /\ \/ BindFails(p) /\ disk' = disk
                 \/ /\ BindFails(p) /\ IsDirectory(disk[PackDraft])
                    /\ disk'[PackDraft] = [disk[PackDraft] EXCEPT !.closure = Torn]
                 \/ /\ IsDirectory(disk[PackDraft])
                    /\ disk'[PackDraft] = [disk[PackDraft] EXCEPT !.closure = c.closure]
                    /\ owed' = owed /\ proc'[p] # Idle
                    /\ Noted(proc'[p], c, {"pc"}) /\ proc'[p].pc = "product"
         /\ BindProduct(p) =>
              /\ c.pc = "product" /\ c.on = {PackDraft}
              /\ \/ BindFails(p) /\ disk' = disk /\ unbound' = unbound
                 \/ /\ disk'[PackDraft] =
                         [IF IsDirectory(disk[PackDraft]) THEN disk[PackDraft]
                          ELSE Directory(0, FALSE)
                          EXCEPT !.product = [needs |-> c.needs, closure |-> c.closure]]
                    /\ unbound' = IF \/ unbound = Nothing \/ unbound.release = c.release
                                     \/ unbound = [by |-> p, release |-> c.mine]
                                  THEN Nothing ELSE unbound
                    /\ PackDraft \notin contested =>
                         owed'[PackDraft] = Bound(owed[PackDraft], c.release)
                    /\ c.phase = "before" => /\ proc'[p] # Idle /\ Noted(proc'[p], c, {"pc"})
                                             /\ proc'[p].pc = "check"
                    /\ c.phase # "before" => proc'[p] = Idle
<1>1. Bind(p) \/ BindManifest(p) \/ BindProduct(p) =>
        /\ IsPack(c) /\ Running(p) /\ Fields(c, PackFields) /\ c.on = {PackDraft}
        /\ c.cmd \in PackCommands
  BY BindFrame DEF IsPack, PackFields, Frame, Bind, BindManifest, BindProduct, PackAt, Binding
<1>2. PackDraft \in Places /\ disk = [place \in Places |-> disk[place]]
      /\ owed = [place \in Places |-> owed[place]]
  BY DEF PackDraft, Draft, Places, Shape
<1>3. ASSUME NEW pc, Continue(p, pc), Fields(c, PackFields), c.cmd \in PackCommands
      PROVE  Noted(proc'[p], c, {"pc"}) /\ proc'[p].pc = pc /\ proc'[p] # Idle
  <2>1. PICK e : e = [c EXCEPT !.pc = pc]
    OBVIOUS
  <2>2. Noted(e, c, {"pc"}) /\ e.pc = pc /\ e.cmd = c.cmd
    BY <1>3, <2>1 DEF Noted, Fields, PackFields
  <2>3. proc'[p] = e
    BY <1>3, <2>1, GoesOn
  <2>4. QED  BY <1>3, <2>2, <2>3, Distinct DEF PackCommands
<1>4. \A d : Put(PackDraft, d) => disk'[PackDraft] = d
  BY <1>2 DEF Put
<1>5. ASSUME Bind(p)
      PROVE  /\ c.pc = "bind" /\ c.on = {PackDraft}
             /\ \/ BindFails(p) /\ disk' = disk
                \/ /\ IsDirectory(disk[PackDraft]) /\ MayBind(disk[PackDraft], c.release)
                   /\ disk'[PackDraft] = [disk[PackDraft] EXCEPT !.pack = c.release]
                   /\ owed' = owed /\ proc'[p] # Idle
                   /\ Noted(proc'[p], c, {"pc", "closure", "needs"})
                   /\ proc'[p].pc = "manifest"
                   /\ proc'[p].closure = Rebound(disk[PackDraft].closure, c.release)
                   /\ proc'[p].needs = disk[PackDraft].product.needs
  <2>1. c.pc = "bind"
    BY <1>5 DEF Bind, PackAt
  <2>2. CASE BindFails(p) /\ disk' = disk
    BY <1>1, <1>5, <2>1, <2>2
  <2>3. CASE /\ IsDirectory(disk[PackDraft]) /\ MayBind(disk[PackDraft], c.release)
             /\ Put(PackDraft, [disk[PackDraft] EXCEPT !.pack = c.release])
             /\ proc' = [proc EXCEPT
                  ![p].closure = Rebound(disk[PackDraft].closure, c.release),
                  ![p].needs = disk[PackDraft].product.needs,
                  ![p].pc = "manifest"]
             /\ owed' = owed
    <3>1. PICK closure, needs : /\ closure = Rebound(disk[PackDraft].closure, c.release)
                                /\ needs = disk[PackDraft].product.needs
      OBVIOUS
    <3>2. PICK e : e = [c EXCEPT !.closure = closure, !.needs = needs, !.pc = "manifest"]
      OBVIOUS
    <3>3. proc' = [proc EXCEPT ![p] = e]
      BY <2>3, <3>1, <3>2
    <3>4. /\ Noted(e, c, {"pc", "closure", "needs"})
          /\ e.pc = "manifest" /\ e.closure = closure /\ e.needs = needs /\ e.cmd = c.cmd
      BY <1>1, <1>5, <3>2 DEF Noted, Fields, PackFields
    <3>5. proc'[p] = e /\ e # Idle
      BY <1>1, <1>5, <3>3, <3>4, Alone, Distinct DEF PackCommands
    <3>6. QED  BY <1>1, <1>4, <1>5, <2>1, <2>3, <3>1, <3>4, <3>5
  <2>4. QED  BY <1>5, <2>2, <2>3 DEF Bind, Stay
<1>6. ASSUME BindManifest(p)
      PROVE  /\ c.pc = "manifest" /\ c.on = {PackDraft}
             /\ \/ BindFails(p) /\ disk' = disk
                \/ /\ BindFails(p) /\ IsDirectory(disk[PackDraft])
                   /\ disk'[PackDraft] = [disk[PackDraft] EXCEPT !.closure = Torn]
                \/ /\ IsDirectory(disk[PackDraft])
                   /\ disk'[PackDraft] = [disk[PackDraft] EXCEPT !.closure = c.closure]
                   /\ owed' = owed /\ proc'[p] # Idle
                   /\ Noted(proc'[p], c, {"pc"}) /\ proc'[p].pc = "product"
  <2>1. c.pc = "manifest"
    BY <1>6 DEF BindManifest, PackAt
  <2>2. CASE BindFails(p) /\ disk' = disk
    BY <1>1, <1>6, <2>1, <2>2
  <2>3. CASE /\ BindFails(p) /\ IsDirectory(disk[PackDraft])
             /\ Put(PackDraft, [disk[PackDraft] EXCEPT !.closure = Torn])
    BY <1>1, <1>4, <1>6, <2>1, <2>3
  <2>4. CASE /\ IsDirectory(disk[PackDraft]) /\ Continue(p, "product") /\ Stay
             /\ Put(PackDraft, [disk[PackDraft] EXCEPT !.closure = c.closure])
    <3>1. Noted(proc'[p], c, {"pc"}) /\ proc'[p].pc = "product" /\ proc'[p] # Idle
      BY <1>1, <1>3, <1>6, <2>4
    <3>2. QED  BY <1>1, <1>4, <1>6, <2>1, <2>4, <3>1 DEF Stay
  <2>5. QED  BY <1>6, <2>2, <2>3, <2>4 DEF BindManifest
<1>7. ASSUME BindProduct(p)
      PROVE  /\ c.pc = "product" /\ c.on = {PackDraft}
             /\ \/ BindFails(p) /\ disk' = disk /\ unbound' = unbound
                \/ /\ disk'[PackDraft] =
                         [IF IsDirectory(disk[PackDraft]) THEN disk[PackDraft]
                          ELSE Directory(0, FALSE)
                          EXCEPT !.product = [needs |-> c.needs, closure |-> c.closure]]
                   /\ unbound' = IF \/ unbound = Nothing \/ unbound.release = c.release
                                    \/ unbound = [by |-> p, release |-> c.mine]
                                 THEN Nothing ELSE unbound
                   /\ PackDraft \notin contested =>
                        owed'[PackDraft] = Bound(owed[PackDraft], c.release)
                   /\ c.phase = "before" => /\ proc'[p] # Idle /\ Noted(proc'[p], c, {"pc"})
                                            /\ proc'[p].pc = "check"
                   /\ c.phase # "before" => proc'[p] = Idle
  <2>1. c.pc = "product"
    BY <1>7 DEF BindProduct, PackAt
  <2>2. CASE BindFails(p) /\ disk' = disk /\ unbound' = unbound
    BY <1>1, <1>7, <2>1, <2>2
  <2>3. CASE /\ Put(PackDraft, Described(IF IsDirectory(disk[PackDraft]) THEN disk[PackDraft]
                                         ELSE Directory(0, FALSE), p))
             /\ unbound' = IF \/ unbound = Nothing \/ unbound.release = c.release
                              \/ unbound = [by |-> p, release |-> c.mine]
                           THEN Nothing ELSE unbound
             /\ owed' = [owed EXCEPT ![PackDraft] =
                  IF PackDraft \in contested THEN owed[PackDraft]
                  ELSE Bound(owed[PackDraft], c.release)]
             /\ proc' = [proc EXCEPT ![p] = IF c.phase = "before"
                                            THEN [@ EXCEPT !.pc = "check"] ELSE Idle]
    <3>1. disk'[PackDraft] = Described(IF IsDirectory(disk[PackDraft]) THEN disk[PackDraft]
                                       ELSE Directory(0, FALSE), p)
      BY <1>4, <2>3
    <3>2. PackDraft \notin contested => owed'[PackDraft] = Bound(owed[PackDraft], c.release)
      BY <1>2, <2>3
    <3>3. ASSUME c.phase = "before"
          PROVE  proc'[p] # Idle /\ Noted(proc'[p], c, {"pc"}) /\ proc'[p].pc = "check"
      <4>1. Continue(p, "check")
        BY <2>3, <3>3 DEF Continue
      <4>2. QED  BY <4>1, <1>1, <1>3, <1>7
    <3>4. c.phase # "before" => proc'[p] = Idle
      BY <2>3 DEF Shape
    <3>5. QED  BY <1>1, <1>7, <2>1, <2>3, <3>1, <3>2, <3>3, <3>4 DEF Described
  <2>4. QED  BY <1>7, <2>2, <2>3 DEF BindProduct
<1>8. QED  BY <1>5, <1>6, <1>7

-----------------------------------------------------------------------------
(* Pack commands: what they leave at the draft the Pack is bound to.           *)

\* The pin of a Closure is replaced, and nothing else of it.
LEMMA ReboundTwice ==
  ASSUME NEW a, NEW b, IsClosure(a), IsWhole(a), IsClosure(b), IsWhole(b), NEW r
  PROVE  /\ Rebound(Rebound(a, r), Nothing) = Rebound(a, Nothing)
         /\ Rebound(a, Nothing) = Rebound(b, Nothing) => Rebound(a, r) = Rebound(b, r)
<1>1. Fields(a, {"life", "skill", "pack", "caps"}) /\ Fields(b, {"life", "skill", "pack", "caps"})
  BY DEF IsClosure, IsWhole
<1>2. ASSUME NEW c, Fields(c, {"life", "skill", "pack", "caps"}), NEW s
      PROVE  /\ Fields(Rebound(c, s), {"life", "skill", "pack", "caps"})
             /\ Rebound(c, s).life = c.life /\ Rebound(c, s).skill = c.skill
             /\ Rebound(c, s).caps = c.caps /\ Rebound(c, s).pack = s
  BY <1>2 DEF Rebound, Fields
<1>3. ASSUME NEW c, NEW d, Fields(c, {"life", "skill", "pack", "caps"}),
             Fields(d, {"life", "skill", "pack", "caps"}),
             c.life = d.life, c.skill = d.skill, c.pack = d.pack, c.caps = d.caps
      PROVE  c = d
  BY <1>3 DEF Fields
<1>4. Rebound(Rebound(a, r), Nothing) = Rebound(a, Nothing)
  <2>1. PICK c : c = Rebound(a, r)
    OBVIOUS
  <2>2. Fields(c, {"life", "skill", "pack", "caps"})
        /\ c.life = a.life /\ c.skill = a.skill /\ c.caps = a.caps
    BY <1>1, <1>2, <2>1
  <2>3. /\ Fields(Rebound(c, Nothing), {"life", "skill", "pack", "caps"})
        /\ Rebound(c, Nothing).life = c.life /\ Rebound(c, Nothing).skill = c.skill
        /\ Rebound(c, Nothing).caps = c.caps /\ Rebound(c, Nothing).pack = Nothing
    BY <1>2, <2>2
  <2>4. /\ Fields(Rebound(a, Nothing), {"life", "skill", "pack", "caps"})
        /\ Rebound(a, Nothing).life = a.life /\ Rebound(a, Nothing).skill = a.skill
        /\ Rebound(a, Nothing).caps = a.caps /\ Rebound(a, Nothing).pack = Nothing
    BY <1>1, <1>2
  <2>5. Rebound(c, Nothing) = Rebound(a, Nothing)
    BY <1>3, <2>2, <2>3, <2>4
  <2>6. QED  BY <2>1, <2>5
<1>5. ASSUME Rebound(a, Nothing) = Rebound(b, Nothing)
      PROVE  Rebound(a, r) = Rebound(b, r)
  <2>1. a.life = b.life /\ a.skill = b.skill /\ a.caps = b.caps
    BY <1>1, <1>2, <1>5
  <2>2. /\ Fields(Rebound(a, r), {"life", "skill", "pack", "caps"})
        /\ Rebound(a, r).life = a.life /\ Rebound(a, r).skill = a.skill
        /\ Rebound(a, r).caps = a.caps /\ Rebound(a, r).pack = r
    BY <1>1, <1>2
  <2>3. /\ Fields(Rebound(b, r), {"life", "skill", "pack", "caps"})
        /\ Rebound(b, r).life = b.life /\ Rebound(b, r).skill = b.skill
        /\ Rebound(b, r).caps = b.caps /\ Rebound(b, r).pack = r
    BY <1>1, <1>2
  <2>4. QED  BY <1>3, <2>1, <2>2, <2>3
<1>6. QED  BY <1>4, <1>5

\* What is to be shown of a step of a command that binds its Pack.
PackGoal(p) ==
  PackDraft \in proc[p].on =>
    /\ /\ PackDraft \notin contested \cup adrift'
       /\ PackTree(proc[p], disk[PackDraft], owed[PackDraft])
       => IF proc'[p] = Idle THEN disk'[PackDraft] = owed'[PackDraft]
          ELSE PackTree(proc'[p], disk'[PackDraft], owed'[PackDraft])
    /\ KnownIn(disk[PackDraft], saved \cup died) => KnownIn(disk'[PackDraft], saved' \cup died')
    /\ /\ PackDraft \notin contested
       /\ Good(disk[PackDraft], unbound, pointer)
       /\ BoundTree(proc[p], disk[PackDraft], unbound, pointer)
       => /\ Good(disk'[PackDraft], unbound', pointer')
          /\ proc'[p] # Idle => BoundTree(proc'[p], disk'[PackDraft], unbound', pointer')

\* A step that leaves the draft as it is.
LEMMA PackQuiet ==
  ASSUME Shape, PackSkill \in Skills, NEW p \in Procs, IsPack(proc[p]), Frame(p),
         disk' = disk, owed' = owed,
         proc'[p] # Idle =>
           /\ IsPack(proc'[p]) /\ proc'[p].pc \notin {"undo"} \cup Holding
           /\ proc'[p].phase = "undo" => proc[p].phase = "undo" \/ proc[p].pc = "undo"
           /\ proc'[p].phase # "undo" =>
                proc[p].phase # "undo" /\ proc[p].pc \notin {"undo"} \cup Holding
           /\ proc'[p].pc \in Binding /\ unbound' = Nothing => proc'[p].release = pointer',
         proc'[p] = Idle => \/ proc[p].on \subseteq adrift'
                            \/ proc[p].phase # "undo" /\ proc[p].pc \notin {"undo"} \cup Holding,
         unbound' # Nothing \/ (unbound' = unbound /\ pointer' = pointer)
  PROVE  PackGoal(p)
<1> SUFFICES ASSUME PackDraft \in proc[p].on  PROVE PackGoal(p)
  BY DEF PackGoal
<1>1. saved \cup died \subseteq saved' \cup died'
  BY DEF Frame, Rest
<1>2. KnownIn(disk[PackDraft], saved \cup died) => KnownIn(disk'[PackDraft], saved' \cup died')
  BY <1>1 DEF KnownIn
<1>3. Good(disk[PackDraft], unbound, pointer) => Good(disk'[PackDraft], unbound', pointer')
  BY DEF Good
<1>4. ASSUME proc'[p] # Idle
      PROVE  BoundTree(proc'[p], disk'[PackDraft], unbound', pointer')
  BY <1>4 DEF BoundTree, IsPack, PackCommands, Holding
<1>5. ASSUME PackDraft \notin adrift', PackTree(proc[p], disk[PackDraft], owed[PackDraft])
      PROVE  IF proc'[p] = Idle THEN disk'[PackDraft] = owed'[PackDraft]
             ELSE PackTree(proc'[p], disk'[PackDraft], owed'[PackDraft])
  <2>1. CASE proc'[p] = Idle
    BY <1>5, <2>1 DEF PackTree
  <2>2. CASE proc'[p] # Idle
    BY <1>5, <2>2 DEF PackTree, Holding
  <2>3. QED  BY <2>1, <2>2
<1>6. QED  BY <1>2, <1>3, <1>4, <1>5 DEF PackGoal

\* The steps up to the binding, and the first of the compensation.
LEMMA ActivateGoal ==
  ASSUME Shape, PackSkill \in Skills, NEW p \in Procs,
         proc[p].phase = "before" => proc[p].release = proc[p].base,
         \/ PublishRefused(p) \/ PublishReviewed(p) \/ CheckBase(p) \/ Store(p) \/ Write(p)
         \/ Expect(p) \/ Point(p) \/ Undo(p)
  PROVE  PackGoal(p)
<1>1. /\ Frame(p) /\ IsPack(proc[p]) /\ (proc'[p] # Idle => IsPack(proc'[p]))
      /\ disk' = disk /\ owed' = owed
  BY PublishFrame, ActivateFrame, PointFrame
<1>2. PICK c : c = proc[p]
  OBVIOUS
<1>3. /\ c.phase \in {"before", "forward", "undo"}
      /\ c.pc \in {"review", "check"} => c.phase = "before"
      /\ c.phase = "before" => c.pc \in {"review", "check"} \cup Binding
      /\ c.pc = "undo" => c.phase = "forward"
  BY <1>1, <1>2 DEF IsPack
<1>4. CASE PublishRefused(p)
  <2>1. c.pc = "review" /\ proc'[p] = Idle /\ UNCHANGED <<unbound, pointer>>
    BY <1>2, <1>4, PublishNotes DEF PublishRefused, packVars
  <2>2. QED  BY <1>1, <1>2, <1>3, <2>1, PackQuiet DEF Holding
<1>5. CASE PublishReviewed(p)
  <2>1. /\ c.pc = "review" /\ proc'[p] # Idle /\ Noted(proc'[p], c, {"pc"})
        /\ \/ proc'[p].pc = "check"
           \/ proc'[p].pc = "bind" /\ c.on # {} /\ pointer = c.base
        /\ UNCHANGED <<unbound, pointer>>
    BY <1>2, <1>5, PublishNotes DEF PublishReviewed, packVars
  <2>2. proc'[p].phase = c.phase /\ proc'[p].release = c.release
    BY <2>1 DEF Noted, PackFields
  <2>3. c.phase = "before" /\ c.release = c.base
    BY <1>2, <1>3, <2>1
  <2>4. QED  BY <1>1, <1>2, <2>1, <2>2, <2>3, PackQuiet DEF Holding, Binding
<1>6. CASE CheckBase(p)
  <2>1. /\ c.pc = "check" /\ UNCHANGED <<unbound, pointer>>
        /\ proc'[p] # Idle => proc'[p].pc = "store" /\ proc'[p].phase = "forward"
    BY <1>2, <1>6, PublishNotes DEF CheckBase, packVars
  <2>2. QED  BY <1>1, <1>2, <1>3, <2>1, PackQuiet DEF Holding, Binding
<1>7. CASE Store(p) \/ Write(p) \/ Expect(p)
  <2>1. /\ c.pc \in {"store", "write", "expect"} /\ UNCHANGED <<unbound, pointer>>
        /\ proc'[p] = Idle /\ c.phase = "undo" => c.on \subseteq adrift'
        /\ proc'[p] # Idle => /\ Noted(proc'[p], c, {"pc", "seen"})
                              /\ proc'[p].pc \in {"write", "expect", "point"}
    <3>1. \A e : Noted(e, c, {"pc"}) => Noted(e, c, {"pc", "seen"})
      BY DEF Noted
    <3>2. UNCHANGED <<unbound, pointer>>
      BY <1>7 DEF Store, Write, Expect, packVars
    <3>3. CASE Store(p)
      BY <1>2, <3>1, <3>2, <3>3, ActivateNotes
    <3>4. CASE Write(p)
      BY <1>2, <3>1, <3>2, <3>4, ActivateNotes
    <3>5. CASE Expect(p)
      BY <1>2, <3>2, <3>5, ActivateNotes
    <3>6. QED  BY <1>7, <3>3, <3>4, <3>5
  <2>2. proc'[p] # Idle => proc'[p].phase = c.phase
    BY <2>1 DEF Noted, PackFields
  <2>3. QED  BY <1>1, <1>2, <1>3, <2>1, <2>2, PackQuiet DEF Holding, Binding
<1>8. CASE Point(p)
  <2>1. /\ c.pc = "point"
        /\ proc'[p] = Idle /\ c.phase = "undo" => c.on \subseteq adrift'
        /\ unbound' # Nothing \/ (unbound' = unbound /\ pointer' = pointer)
        /\ proc'[p] # Idle => /\ Noted(proc'[p], c, {"pc", "seen"}) /\ proc'[p].pc = "bind"
                              /\ unbound' # Nothing
    <3>1. \A r : [by |-> p, release |-> r] # Nothing
      <4>1. ASSUME NEW r  PROVE "nothing" \notin DOMAIN [by |-> p, release |-> r]
        OBVIOUS
      <4>2. "nothing" \in DOMAIN Nothing
        BY DEF Nothing
      <4>3. QED  BY <4>1, <4>2
    <3>2. Refused(p) => (c.phase = "undo" => c.on \subseteq adrift')
      BY <1>2, ActivateNotes
    <3>3. c.phase = "undo" => c.on # {}
      BY <1>1, <1>2 DEF IsPack
    <3>4. QED  BY <1>2, <1>8, <3>1, <3>2, <3>3, PointNotes
  <2>2. proc'[p] # Idle => proc'[p].phase = c.phase
    BY <2>1 DEF Noted, PackFields
  <2>3. QED  BY <1>1, <1>2, <1>3, <2>1, <2>2, PackQuiet DEF Holding, Binding
<1>9. CASE Undo(p)
  <2>1. /\ c.pc = "undo" /\ UNCHANGED <<unbound, pointer>>
        /\ proc'[p] = Idle => c.on \subseteq adrift'
        /\ proc'[p] # Idle => proc'[p].pc = "store" /\ proc'[p].phase = "undo"
    BY <1>2, <1>9, ActivateNotes DEF Undo, packVars
  <2>2. QED  BY <1>1, <1>2, <1>3, <2>1, PackQuiet DEF Holding, Binding
<1>10. QED  BY <1>4, <1>5, <1>6, <1>7, <1>8, <1>9

\* A binding that fails leaves the directory as it was, or its manifest cut off.
LEMMA BindFailsGoal ==
  ASSUME Shape, PackSkill \in Skills, NEW p \in Procs, IsPack(proc[p]), Frame(p), BindFails(p),
         proc[p].pc \in Binding, UNCHANGED <<unbound, pointer>>,
         \/ disk' = disk
         \/ /\ IsDirectory(disk[PackDraft]) /\ proc[p].pc \in Holding
            /\ disk'[PackDraft] = [disk[PackDraft] EXCEPT !.closure = Torn]
  PROVE  PackGoal(p)
<1>1. PICK c, d, o : c = proc[p] /\ d = disk[PackDraft] /\ o = owed[PackDraft]
  OBVIOUS
<1>2. /\ c.on = {PackDraft} /\ IsContent(d) /\ c.phase \in {"before", "forward", "undo"}
  BY <1>1 DEF IsPack, Shape, PackDraft, Draft, Places
<1>3. /\ owed' = owed
      /\ c.phase = "forward" => /\ IsPack(proc'[p]) /\ proc'[p].pc = "undo"
                                /\ proc'[p].phase = c.phase
      /\ c.phase # "forward" => /\ proc'[p] = Idle
                                /\ ~(c.phase = "before" /\ c.pc = "bind") => PackDraft \in adrift'
  BY <1>1, <1>2, BindFailsFrame DEF Frame
<1>4. \/ disk'[PackDraft] = d
      \/ /\ IsDirectory(d) /\ c.pc \in Holding
         /\ IsDirectory(disk'[PackDraft]) /\ disk'[PackDraft].closure = Torn
         /\ disk'[PackDraft].skill = d.skill /\ disk'[PackDraft].ledger = d.ledger
         /\ disk'[PackDraft].product = d.product
  <2>1. CASE disk' = disk
    BY <1>1, <2>1
  <2>2. CASE IsDirectory(d) /\ c.pc \in Holding /\ disk'[PackDraft] = [d EXCEPT !.closure = Torn]
    <3>1. PICK e : e = [d EXCEPT !.closure = Torn]
      OBVIOUS
    <3>2. /\ Fields(e, {"skill", "ledger", "pack", "closure", "product"})
          /\ e.closure = Torn /\ e.skill = d.skill /\ e.ledger = d.ledger
          /\ e.product = d.product
      BY <1>2, <2>2, <3>1 DEF IsContent, Fields
    <3>3. IsDirectory(e)
      BY <3>2, Distinct
    <3>4. QED  BY <2>2, <3>1, <3>2, <3>3
  <2>3. QED  BY <1>1, <2>1, <2>2
<1>5. saved \cup died \subseteq saved' \cup died'
  BY DEF Frame, Rest
<1>6. KnownIn(d, saved \cup died) => KnownIn(disk'[PackDraft], saved' \cup died')
  BY <1>4, <1>5 DEF KnownIn
<1>7. Good(d, unbound, pointer) => Good(disk'[PackDraft], unbound', pointer')
  BY <1>4, Distinct DEF Good, Opens, IsWhole
<1>8. ASSUME proc'[p] # Idle
      PROVE  BoundTree(proc'[p], disk'[PackDraft], unbound', pointer')
  BY <1>2, <1>3, <1>8 DEF BoundTree, IsPack, PackCommands, Holding, Binding
<1>9. ASSUME PackDraft \notin adrift', PackTree(c, d, o)
      PROVE  IF proc'[p] = Idle THEN disk'[PackDraft] = owed'[PackDraft]
             ELSE PackTree(proc'[p], disk'[PackDraft], owed'[PackDraft])
  <2>1. CASE c.phase # "forward"
    <3>1. c.phase = "before" /\ c.pc = "bind" /\ proc'[p] = Idle
      BY <1>3, <1>9, <2>1
    <3>2. d = o /\ disk'[PackDraft] = d
      BY <1>4, <1>9, <3>1 DEF PackTree, Holding
    <3>3. QED  BY <1>1, <1>3, <3>1, <3>2
  <2>2. CASE c.phase = "forward"
    <3>1. proc'[p] # Idle
      BY <1>3, <2>2, Distinct DEF IsPack, PackCommands
    <3>2. Twin(disk'[PackDraft], o)
      <4>1. CASE c.pc \notin Holding
        BY <1>1, <1>4, <1>9, <2>2, <4>1 DEF PackTree, Twin, Binding
      <4>2. CASE c.pc \in Holding
        <5>1. Twin(d, o) /\ IsDirectory(d) /\ IsWhole(o.closure) /\ IsWhole(o.product)
          BY <1>9, <4>2 DEF PackTree
        <5>2. QED  BY <1>4, <5>1 DEF Twin
      <4>3. QED  BY <4>1, <4>2
    <3>3. owed'[PackDraft] = o
      BY <1>1, <1>3
    <3>4. QED  BY <1>3, <2>2, <3>1, <3>2, <3>3 DEF PackTree, Holding
  <2>3. QED  BY <2>1, <2>2
<1>10. QED  BY <1>1, <1>6, <1>7, <1>8, <1>9 DEF PackGoal

\* The Pack file is written: the manifest it will pin is noted.
LEMMA BindGoal ==
  ASSUME Shape, PackSkill \in Skills, NEW p \in Procs, Bind(p)
  PROVE  PackGoal(p)
<1>1. IsPack(proc[p]) /\ Frame(p) /\ UNCHANGED <<unbound, pointer>>
  BY BindFrame DEF Bind, packVars
<1>2. PICK c, d, o, r : /\ c = proc[p] /\ d = disk[PackDraft] /\ o = owed[PackDraft]
                        /\ r = c.release
  OBVIOUS
<1>3. CASE BindFails(p) /\ disk' = disk
  BY <1>1, <1>3, BindFailsGoal, BindNotes DEF Binding
<1>4. CASE /\ IsDirectory(d) /\ MayBind(d, r)
           /\ disk'[PackDraft] = [d EXCEPT !.pack = r]
           /\ owed' = owed /\ proc'[p] # Idle
           /\ Noted(proc'[p], c, {"pc", "closure", "needs"})
           /\ proc'[p].pc = "manifest"
           /\ proc'[p].closure = Rebound(d.closure, r)
           /\ proc'[p].needs = d.product.needs
  <2>1. PICK e, f : e = disk'[PackDraft] /\ f = proc'[p]
    OBVIOUS
  <2>2. /\ c.pc = "bind" /\ IsContent(d) /\ IsContent(o) /\ c.cmd \in PackCommands
        /\ IsWhole(d.closure) /\ IsWhole(d.product)
    BY <1>1, <1>2, <1>4, BindNotes DEF Bind, PackAt, Shape, PackDraft, Draft, Places, MayBind,
       Opens
  <2>3. /\ f.phase = c.phase /\ f.cmd = c.cmd /\ f.release = r /\ f.pc = "manifest"
        /\ f.closure = Rebound(d.closure, r) /\ f.needs = d.product.needs
    BY <1>2, <1>4, <2>1 DEF Noted, PackFields
  <2>4. /\ Fields(e, {"skill", "ledger", "pack", "closure", "product"})
        /\ e.pack = r /\ e.skill = d.skill /\ e.ledger = d.ledger /\ e.closure = d.closure
        /\ e.product = d.product
    BY <1>4, <2>1, <2>2 DEF IsContent, Fields
  <2>5. IsDirectory(e)
    BY <2>4, Distinct
  <2>6. IsClosure(d.closure) /\ (IsDirectory(o) => IsClosure(o.closure))
    BY <1>4, <2>2 DEF IsContent
  <2>7. IsWhole(f.closure) /\ f.closure.pack = r
    BY <2>2, <2>3, <2>6, ReboundWhole
  <2>8. KnownIn(d, saved \cup died) => KnownIn(e, saved' \cup died')
    <3>1. saved \cup died \subseteq saved' \cup died'
      BY <1>1 DEF Frame, Rest
    <3>2. QED  BY <3>1, <1>4, <2>4 DEF KnownIn
  <2>9. ASSUME PackTree(c, d, o)  PROVE PackTree(f, e, o)
    <3>1. Twin(d, o)
      BY <2>2, <2>9 DEF PackTree, Twin, Holding
    <3>2. /\ IsDirectory(o) /\ d.skill = o.skill /\ d.ledger = o.ledger
          /\ d.product = o.product /\ IsWhole(o.closure) /\ IsWhole(o.product)
          /\ Rebound(d.closure, Nothing) = Rebound(o.closure, Nothing)
      BY <3>1, <2>2, <1>4, Distinct DEF Twin, IsWhole
    <3>3. Twin(e, o)
      BY <2>2, <2>4, <2>5, <3>2 DEF Twin
    <3>4. Rebound(d.closure, r) = Rebound(o.closure, r)
      BY <2>2, <2>6, <3>2, ReboundTwice
    <3>5. QED  BY <2>3, <2>4, <2>5, <3>2, <3>3, <3>4 DEF PackTree, Holding
  <2>10. ASSUME Good(d, unbound, pointer), BoundTree(c, d, unbound, pointer)
         PROVE  Good(e, unbound, pointer) /\ BoundTree(f, e, unbound, pointer)
    <3>1. unbound = Nothing => r = pointer
      BY <1>2, <2>2, <2>10 DEF BoundTree, Binding
    <3>2. e.closure # Nothing
      BY <2>2, <2>4 DEF IsWhole
    <3>3. Good(e, unbound, pointer)
      BY <2>4, <2>5, <3>1, <3>2 DEF Good, Opens, ValidClosure, PinsHold
    <3>4. BoundTree(f, e, unbound, pointer)
      BY <2>2, <2>3, <2>4, <2>5, <2>7, <3>1, <3>2 DEF BoundTree, PackCommands, Holding, Binding
    <3>5. QED  BY <3>3, <3>4
  <2>11. UNCHANGED <<unbound, pointer>> /\ owed' = owed /\ f # Idle
    BY <1>1, <1>4, <2>1
  <2>12. QED  BY <1>2, <2>1, <2>8, <2>9, <2>10, <2>11 DEF PackGoal
<1>5. QED  BY <1>2, <1>3, <1>4, BindNotes

\* The manifest is written.
LEMMA ManifestGoal ==
  ASSUME Shape, PackSkill \in Skills, NEW p \in Procs, BindManifest(p)
  PROVE  PackGoal(p)
<1>1. IsPack(proc[p]) /\ Frame(p) /\ UNCHANGED <<unbound, pointer>>
  BY BindFrame DEF BindManifest, packVars
<1>2. PICK c, d, o, r : /\ c = proc[p] /\ d = disk[PackDraft] /\ o = owed[PackDraft]
                        /\ r = c.release
  OBVIOUS
<1>3. c.pc = "manifest" /\ c.cmd \in PackCommands /\ IsClosure(c.closure)
  BY <1>1, <1>2, BindNotes DEF IsPack, Holding
<1>4. CASE \/ BindFails(p) /\ disk' = disk
           \/ /\ BindFails(p) /\ IsDirectory(d)
              /\ disk'[PackDraft] = [d EXCEPT !.closure = Torn]
  BY <1>1, <1>2, <1>3, <1>4, BindFailsGoal DEF Binding, Holding
<1>5. CASE /\ IsDirectory(d)
           /\ disk'[PackDraft] = [d EXCEPT !.closure = c.closure]
           /\ owed' = owed /\ proc'[p] # Idle
           /\ Noted(proc'[p], c, {"pc"}) /\ proc'[p].pc = "product"
  <2>1. PICK e, f : e = disk'[PackDraft] /\ f = proc'[p]
    OBVIOUS
  <2>2. IsContent(d) /\ IsContent(o)
    BY <1>2 DEF Shape, PackDraft, Draft, Places
  <2>3. /\ f.phase = c.phase /\ f.cmd = c.cmd /\ f.release = r /\ f.pc = "product"
        /\ f.closure = c.closure /\ f.needs = c.needs
    BY <1>2, <1>5, <2>1 DEF Noted, PackFields
  <2>4. /\ Fields(e, {"skill", "ledger", "pack", "closure", "product"})
        /\ e.pack = d.pack /\ e.skill = d.skill /\ e.ledger = d.ledger
        /\ e.closure = c.closure /\ e.product = d.product
    BY <1>5, <2>1, <2>2 DEF IsContent, Fields
  <2>5. IsDirectory(e)
    BY <2>4, Distinct
  <2>6. KnownIn(d, saved \cup died) => KnownIn(e, saved' \cup died')
    <3>1. saved \cup died \subseteq saved' \cup died'
      BY <1>1 DEF Frame, Rest
    <3>2. QED  BY <3>1, <1>5, <2>4 DEF KnownIn
  <2>7. ASSUME PackTree(c, d, o)  PROVE PackTree(f, e, o)
    <3>1. /\ Twin(d, o) /\ d.pack = r /\ IsWhole(o.closure) /\ IsWhole(o.product)
          /\ c.closure = Rebound(o.closure, r) /\ c.needs = o.product.needs
      BY <1>2, <1>3, <2>7 DEF PackTree, Holding
    <3>2. /\ IsDirectory(o) /\ d.skill = o.skill /\ d.ledger = o.ledger
          /\ d.product = o.product
      BY <3>1, <1>5 DEF Twin
    <3>3. IsClosure(o.closure)
      BY <2>2, <3>2 DEF IsContent
    <3>4. IsWhole(c.closure) /\ Rebound(c.closure, Nothing) = Rebound(o.closure, Nothing)
      BY <3>1, <3>3, ReboundWhole, ReboundTwice
    <3>5. Twin(e, o)
      BY <2>4, <2>5, <3>1, <3>2, <3>4 DEF Twin
    <3>6. QED  BY <2>3, <2>4, <2>5, <3>1, <3>5 DEF PackTree, Holding
  <2>8. ASSUME Good(d, unbound, pointer), BoundTree(c, d, unbound, pointer)
        PROVE  Good(e, unbound, pointer) /\ BoundTree(f, e, unbound, pointer)
    <3>1. /\ unbound = Nothing => r = pointer
          /\ d.pack = r /\ IsWhole(c.closure) /\ c.closure.pack = r
      BY <1>2, <1>3, <2>8 DEF BoundTree, Binding, Holding
    <3>2. e.closure # Nothing
      BY <2>4, <3>1 DEF IsWhole
    <3>3. Good(e, unbound, pointer)
      BY <2>4, <2>5, <3>1, <3>2 DEF Good
    <3>4. BoundTree(f, e, unbound, pointer)
      BY <1>3, <2>3, <2>4, <2>5, <3>1, <3>2 DEF BoundTree, PackCommands, Holding, Binding
    <3>5. QED  BY <3>3, <3>4
  <2>9. UNCHANGED <<unbound, pointer>> /\ owed' = owed /\ f # Idle
    BY <1>1, <1>5, <2>1
  <2>10. QED  BY <1>2, <2>1, <2>6, <2>7, <2>8, <2>9 DEF PackGoal
<1>6. QED  BY <1>2, <1>4, <1>5, BindNotes

\* What is written last makes the directory the one that was promised.
LEMMA DescribedIsBound ==
  ASSUME NEW d, IsContent(d), IsDirectory(d), NEW o, IsContent(o), IsDirectory(o), NEW r,
         NEW closure, closure = Rebound(o.closure, r), IsWhole(o.product),
         d.skill = o.skill, d.ledger = o.ledger, d.pack = r, d.closure = closure
  PROVE  [d EXCEPT !.product = [needs |-> o.product.needs, closure |-> closure]] = Bound(o, r)
<1>1. /\ Fields(d, {"skill", "ledger", "pack", "closure", "product"})
      /\ Fields(o, {"skill", "ledger", "pack", "closure", "product"})
      /\ Fields(o.product, {"needs", "closure"})
  BY DEF IsContent, IsProduct, IsWhole
<1>2. PICK n : n = [needs |-> o.product.needs, closure |-> closure]
  OBVIOUS
<1>3. [o.product EXCEPT !.closure = closure] = n
  BY <1>1, <1>2 DEF Fields
<1>4. PICK e : e = [d EXCEPT !.product = n]
  OBVIOUS
<1>5. /\ Fields(e, {"skill", "ledger", "pack", "closure", "product"})
      /\ e.skill = o.skill /\ e.ledger = o.ledger /\ e.pack = r /\ e.closure = closure
      /\ e.product = n
  BY <1>1, <1>4 DEF Fields
<1>6. PICK o1 : o1 = [o EXCEPT !.pack = r]
  OBVIOUS
<1>7. /\ Fields(o1, {"skill", "ledger", "pack", "closure", "product"})
      /\ o1.skill = o.skill /\ o1.ledger = o.ledger /\ o1.pack = r /\ o1.product = o.product
  BY <1>1, <1>6 DEF Fields
<1>8. PICK o2 : o2 = [o1 EXCEPT !.closure = closure]
  OBVIOUS
<1>9. /\ Fields(o2, {"skill", "ledger", "pack", "closure", "product"})
      /\ o2.skill = o.skill /\ o2.ledger = o.ledger /\ o2.pack = r /\ o2.product = o.product
      /\ o2.closure = closure
  BY <1>7, <1>8 DEF Fields
<1>10. PICK b : b = Bound(o, r)
  OBVIOUS
<1>11. b = [[[o EXCEPT !.pack = r] EXCEPT !.closure = closure] EXCEPT !.product.closure = closure]
  BY <1>10 DEF Bound
<1>12. b = [o2 EXCEPT !.product.closure = closure]
  BY <1>6, <1>8, <1>11
<1>13. b = [o2 EXCEPT !.product = n]
  BY <1>3, <1>9, <1>12 DEF Fields
<1>14. /\ Fields(b, {"skill", "ledger", "pack", "closure", "product"})
       /\ b.skill = o.skill /\ b.ledger = o.ledger /\ b.pack = r /\ b.closure = closure
       /\ b.product = n
  BY <1>9, <1>13 DEF Fields
<1>15. b = e
  BY <1>5, <1>14 DEF Fields
<1>16. QED  BY <1>2, <1>4, <1>10, <1>15

\* The descriptor is written, and the binding is no longer outstanding.
LEMMA ProductGoal ==
  ASSUME Shape, BoundInv, PackSkill \in Skills, NEW p \in Procs, BindProduct(p)
  PROVE  PackGoal(p)
<1>1. IsPack(proc[p]) /\ Frame(p) /\ UNCHANGED <<pointer, saved>>
  BY BindFrame DEF BindProduct
<1>2. PICK c, d, o, r : /\ c = proc[p] /\ d = disk[PackDraft] /\ o = owed[PackDraft]
                        /\ r = c.release
  OBVIOUS
<1>3. c.pc = "product" /\ c.cmd \in PackCommands /\ IsClosure(c.closure)
  BY <1>1, <1>2, BindNotes DEF IsPack, Holding
<1>4. CASE BindFails(p) /\ disk' = disk /\ unbound' = unbound
  BY <1>1, <1>2, <1>3, <1>4, BindFailsGoal DEF Binding, Holding
<1>5. CASE /\ disk'[PackDraft] = [IF IsDirectory(d) THEN d ELSE Directory(0, FALSE)
                          EXCEPT !.product = [needs |-> c.needs, closure |-> c.closure]]
           /\ unbound' = IF \/ unbound = Nothing \/ unbound.release = r
                            \/ unbound = [by |-> p, release |-> c.mine]
                         THEN Nothing ELSE unbound
           /\ PackDraft \notin contested => owed'[PackDraft] = Bound(o, r)
           /\ c.phase = "before" => /\ proc'[p] # Idle /\ Noted(proc'[p], c, {"pc"})
                                    /\ proc'[p].pc = "check"
           /\ c.phase # "before" => proc'[p] = Idle
  <2>1. PICK e, f : e = disk'[PackDraft] /\ f = proc'[p]
    OBVIOUS
  <2>2. IsContent(d) /\ IsContent(o)
    BY <1>2 DEF Shape, PackDraft, Draft, Places
  <2>3. f # Idle => /\ f.phase = "before" /\ f.cmd = c.cmd /\ f.pc = "check"
    BY <1>5, <2>1 DEF Noted, PackFields
  <2>4. PICK n : n = [needs |-> c.needs, closure |-> c.closure]
    OBVIOUS
  <2>5. PICK dir : dir = IF IsDirectory(d) THEN d ELSE Directory(0, FALSE)
    OBVIOUS
  <2>6. IsContent(dir) /\ IsDirectory(dir) /\ (~IsDirectory(d) => dir.skill = 0)
    BY <2>2, <2>5, Made DEF Directory
  <2>7. /\ Fields(e, {"skill", "ledger", "pack", "closure", "product"})
        /\ e.pack = dir.pack /\ e.skill = dir.skill /\ e.closure = dir.closure
    BY <1>5, <2>1, <2>4, <2>5, <2>6 DEF IsContent, Fields
  <2>8. IsDirectory(e)
    BY <2>7, Distinct
  <2>9. KnownIn(d, saved \cup died) => KnownIn(e, saved' \cup died')
    <3>1. saved \cup died \subseteq saved' \cup died'
      BY <1>1 DEF Frame, Rest
    <3>2. CASE IsDirectory(d)
      BY <3>1, <3>2, <2>5, <2>7 DEF KnownIn
    <3>3. CASE ~IsDirectory(d)
      <4>1. e.skill = 0
        BY <3>3, <2>6, <2>7
      <4>2. e.skill < 1
        BY <4>1
      <4>3. QED  BY <4>2 DEF KnownIn
    <3>4. QED  BY <3>2, <3>3
  <2>10. ASSUME PackDraft \notin contested, PackTree(c, d, o)
         PROVE  IF f = Idle THEN e = owed'[PackDraft] ELSE PackTree(f, e, owed'[PackDraft])
    <3>1. /\ Twin(d, o) /\ IsDirectory(d) /\ d.pack = r
          /\ IsWhole(o.closure) /\ IsWhole(o.product)
          /\ c.closure = Rebound(o.closure, r) /\ c.needs = o.product.needs
          /\ d.closure = c.closure
      BY <1>2, <1>3, <2>10 DEF PackTree, Holding
    <3>2. IsDirectory(o) /\ d.skill = o.skill /\ d.ledger = o.ledger
      BY <3>1 DEF Twin
    <3>3. e = [d EXCEPT !.product = [needs |-> o.product.needs, closure |-> c.closure]]
      BY <1>5, <2>1, <3>1
    <3>4. e = Bound(o, r)
      BY <2>2, <3>1, <3>2, <3>3, DescribedIsBound
    <3>5. e = owed'[PackDraft]
      BY <1>5, <2>10, <3>4
    <3>6. QED  BY <2>3, <3>5 DEF PackTree, Holding
  <2>11. ASSUME Good(d, unbound, pointer), BoundTree(c, d, unbound, pointer)
         PROVE  Good(e, unbound', pointer') /\ (f # Idle => BoundTree(f, e, unbound', pointer'))
    <3>1. /\ unbound = Nothing => r = pointer
          /\ IsDirectory(d) /\ d.closure = c.closure /\ IsWhole(c.closure)
          /\ c.closure.pack = r
      BY <1>2, <1>3, <2>11 DEF BoundTree, Binding, Holding
    <3>2. e.closure = c.closure /\ e.closure # Nothing
      BY <2>5, <2>7, <3>1 DEF IsWhole
    <3>3. unbound' = Nothing => r = pointer
      <4>1. /\ unbound # Nothing => unbound.release = pointer /\ pointer # Nothing
            /\ BoundNotes(c, p, unbound)
        BY <1>2, <1>3 DEF BoundInv
      <4>2. CASE unbound # Nothing /\ unbound = [by |-> p, release |-> c.mine]
        <5>1. unbound.by = p /\ unbound.release = c.mine
          BY <4>2
        <5>2. CASE c.phase # "undo"
          BY <4>1, <4>2, <5>1, <5>2 DEF BoundNotes
        <5>3. CASE c.phase = "undo"
          BY <1>2, <1>3, <4>1, <4>2, <5>1, <5>3 DEF BoundNotes, Binding
        <5>4. QED  BY <5>2, <5>3
      <4>3. CASE unbound # Nothing /\ unbound.release = r
        BY <4>1, <4>3
      <4>4. QED  BY <1>5, <3>1, <4>2, <4>3
    <3>4. Good(e, unbound', pointer')
      BY <1>1, <3>1, <3>2, <3>3 DEF Good
    <3>5. f # Idle => BoundTree(f, e, unbound', pointer')
      BY <1>3, <2>3 DEF BoundTree, PackCommands, Holding, Binding
    <3>6. QED  BY <3>4, <3>5
  <2>12. QED  BY <1>2, <2>1, <2>9, <2>10, <2>11 DEF PackGoal
<1>6. QED  BY <1>2, <1>4, <1>5, BindNotes

-----------------------------------------------------------------------------
(* The releases: what is stored, what is active, and what each command on     *)
(* Packs knows of both.                                                        *)

\* To have everything of a release is reflexive and transitive.
LEMMA CoversAll ==
  /\ \A a : Covers(a, a)
  /\ \A a, b, c : Covers(a, b) /\ Covers(b, c) => Covers(a, c)
BY DEF Covers

\* What is published on a base without a conflict has everything of the base.
LEMMA PublishedCovers ==
  ASSUME NEW base, NEW candidate, NEW version, ~Conflicts(base, candidate)
  PROVE  /\ Covers(NewRelease(base, candidate, version), base)
         /\ NewRelease(base, candidate, version).version = version
         /\ NewRelease(base, candidate, version) # Nothing
<1>1. PICK r : r = NewRelease(base, candidate, version)
  OBVIOUS
<1>2. r.version = version /\ r.assets = Merged(base, candidate) /\ "version" \in DOMAIN r
  BY <1>1 DEF NewRelease
<1>3. r # Nothing
  BY <1>2 DEF Nothing
<1>4. ASSUME NEW k \in DOMAIN base.assets
      PROVE  /\ k \in DOMAIN r.assets /\ r.assets[k].hash = base.assets[k].hash
             /\ base.assets[k].refs \subseteq r.assets[k].refs
  <2>1. PICK assets : assets = Under(k, base, candidate)
    OBVIOUS
  <2>2. base.assets[k] \in assets
    BY <1>4, <2>1 DEF Under
  <2>3. k \in MergedKeys(base, candidate)
    BY <1>4 DEF MergedKeys
  <2>4. \A a, b \in assets : a.hash = b.hash
    BY <2>1, <2>3 DEF Conflicts
  <2>5. PICK any : any = (CHOOSE a \in assets : TRUE)
    OBVIOUS
  <2>6. any \in assets
    BY <2>2, <2>5
  <2>7. r.assets[k] = [hash |-> any.hash, scope |-> UNION {a.scope : a \in assets},
                       refs |-> UNION {a.refs : a \in assets}]
    BY <1>2, <2>1, <2>3, <2>5 DEF Merged
  <2>8. r.assets[k].hash = any.hash /\ r.assets[k].refs = UNION {a.refs : a \in assets}
    BY <2>7
  <2>9. any.hash = base.assets[k].hash
    BY <2>2, <2>4, <2>6
  <2>10. k \in DOMAIN r.assets
    BY <1>2, <2>3 DEF Merged
  <2>11. QED  BY <2>2, <2>8, <2>9, <2>10
<1>5. QED  BY <1>1, <1>2, <1>3, <1>4 DEF Covers

PackSame == UNCHANGED <<releases, pointer, kept, lost, overwritten, moves>>

\* A step that leaves the store and the pointer, and one command on Packs.
LEMMA PacksQuiet ==
  ASSUME PacksInv, PackSame, NEW p \in Procs, \A q \in Procs : q # p => proc'[q] = proc[q],
         proc'[p].cmd \in PackCommands => PackKnows(proc'[p])
  PROVE  PacksInv'
<1>1. \A f : PackKnows(f) => PackKnows(f)'
  BY DEF PackSame, PackKnows, StoredAs
<1>2. \A q \in Procs : proc'[q].cmd \in PackCommands => PackKnows(proc'[q])
  BY DEF PacksInv
<1>3. \A q \in Procs : (proc[q].cmd \in PackCommands => PackKnows(proc[q]))'
  BY <1>1, <1>2
<1>4. QED  BY <1>3 DEF PacksInv, PackSame, StoredAs

\* Where the pointer stays what a command knows of the releases stays true, and
\* where it moves it was there before.
LEMMA KnowsKept ==
  ASSUME PacksInv, NEW c, IsPack(c), PackKnows(c),
         moves' \in Nat, moves <= moves', pointer' = Nothing => pointer = Nothing,
         pointer = Nothing => pointer' = Nothing,
         overwritten \subseteq overwritten',
         \A r : r # Nothing /\ r.version \in 1..MaxVersion /\ StoredAs(r) =>
           r.version \in overwritten' \/ releases'[r.version] = r,
         moves' = moves => UNCHANGED <<pointer, kept, lost>>
  PROVE  PackKnows(c)'
<1>1. moves \in Nat /\ c.seen \in 0..moves
  BY DEF PacksInv, PackKnows
<1>2. c.seen \in 0..moves' /\ (moves' = c.seen => moves' = moves)
  BY <1>1
<1>3. pointer' # Nothing =>
        /\ c.base.version \in 1..MaxVersion
        /\ c.base.version \in overwritten' \/ releases'[c.base.version] = c.base
  BY DEF PackKnows
<1>4. c.pc \in {"expect", "point"} =>
        c.release.version \in overwritten' \/ releases'[c.release.version] = c.release
  BY DEF PackKnows, IsPack, Binding
<1>5. (c.pc = "point" /\ c.phase # "undo" /\ moves = c.seen /\ c.base.version \notin overwritten
       => pointer = c.base)'
  BY <1>2 DEF PackKnows
<1>6. ((\/ c.phase = "forward" /\ c.pc \in {"bind", "manifest", "product", "undo"}
        \/ c.phase = "undo" /\ c.pc \in Activating)
       => ( moves = c.seen /\ c.base.version \notin overwritten =>
            \A r \in kept \ lost :
              r # (IF c.phase = "undo" THEN c.mine ELSE c.release) => Covers(c.base, r) ))'
  BY <1>2 DEF PackKnows
<1>7. QED  BY <1>2, <1>3, <1>4, <1>5, <1>6 DEF PackKnows, StoredAs

\* The steps of a publication up to the store keep what a command knows.
LEMMA PublishKnows ==
  ASSUME Shape, PacksInv, PackSkill \in Skills, NEW p \in Procs,
         PublishRefused(p) \/ PublishReviewed(p) \/ CheckBase(p)
  PROVE  PacksInv'
<1>1. Frame(p) /\ IsPack(proc[p]) /\ PackSame
  BY PublishFrame DEF PublishRefused, PublishReviewed, CheckBase, packVars, PackSame
<1>2. PICK c, f : c = proc[p] /\ f = proc'[p]
  OBVIOUS
<1>3. PackKnows(c) /\ IsPack(c)
  BY <1>1, <1>2 DEF PacksInv, IsPack
<1>4. ASSUME f # Idle  PROVE PackKnows(f)
  <2>1. CASE PublishReviewed(p)
    <3>1. c.pc = "review" /\ Noted(f, c, {"pc"}) /\ f.pc \in {"check", "bind"}
      BY <1>2, <1>4, <2>1, PublishNotes
    <3>2. c.phase = "before" /\ f.phase = c.phase /\ f.cmd = c.cmd /\ f.base = c.base
          /\ f.release = c.release /\ f.seen = c.seen /\ f.version = c.version
          /\ f.expected = c.expected /\ f.mine = c.mine
      BY <1>3, <3>1 DEF IsPack, Noted, PackFields
    <3>3. QED  BY <1>3, <3>1, <3>2 DEF PackKnows, StoredAs, Activating
  <2>2. CASE CheckBase(p)
    <3>1. /\ c.pc = "check" /\ Noted(f, c, {"pc", "release", "phase"})
          /\ f.pc = "store" /\ f.phase = "forward"
          /\ f.release = NewRelease(c.base, c.candidate, c.version)
      BY <1>2, <1>4, <2>2, PublishNotes
    <3>2. ~Conflicts(c.base, c.candidate)
      <4>1. Fails(p) => f = Idle
        BY <1>1, <1>2, EndsFrame DEF Frame
      <4>2. QED  BY <1>2, <1>4, <2>2, <4>1 DEF CheckBase, MayPublish
    <3>3. c.phase = "before" /\ f.cmd = c.cmd /\ f.base = c.base
          /\ f.seen = c.seen /\ f.version = c.version /\ f.expected = c.expected
      BY <1>3, <3>1 DEF IsPack, Noted, PackFields
    <3>4. Covers(f.release, f.base) /\ f.release.version = c.version /\ f.release # Nothing
      BY <3>1, <3>2, <3>3, PublishedCovers
    <3>5. QED  BY <1>3, <3>1, <3>3, <3>4 DEF PackKnows, StoredAs, Activating, Binding
  <2>3. CASE PublishRefused(p)
    BY <1>2, <1>4, <2>3, PublishNotes
  <2>4. QED  BY <2>1, <2>2, <2>3
<1>5. f.cmd \in PackCommands => f # Idle
  BY Distinct DEF PackCommands
<1>6. QED  BY <1>1, <1>2, <1>4, <1>5, PacksQuiet, Others

\* The steps of an activation that look at the store and the pointer, and the first
\* of the compensation.
LEMMA ActivateKnows ==
  ASSUME Shape, PacksInv, PackSkill \in Skills, NEW p \in Procs,
         Store(p) \/ Expect(p) \/ Undo(p)
  PROVE  PacksInv'
<1>1. Frame(p) /\ IsPack(proc[p]) /\ PackSame
  BY ActivateFrame DEF Store, Expect, Undo, packVars, PackSame
<1>2. PICK c, f : c = proc[p] /\ f = proc'[p]
  OBVIOUS
<1>3. PackKnows(c) /\ IsPack(c)
  BY <1>1, <1>2 DEF PacksInv, IsPack
<1>4. ASSUME f # Idle  PROVE PackKnows(f)
  <2>1. CASE Store(p)
    <3>1. /\ c.pc = "store" /\ Noted(f, c, {"pc"})
          /\ f.pc = "write" \/ (f.pc = "expect" /\ releases[c.release.version] = c.release)
      BY <1>2, <1>4, <2>1, ActivateNotes
    <3>2. c.phase # "before" /\ f.phase = c.phase /\ f.cmd = c.cmd /\ f.base = c.base
          /\ f.release = c.release /\ f.seen = c.seen /\ f.version = c.version
          /\ f.expected = c.expected /\ f.mine = c.mine
      BY <1>3, <3>1 DEF IsPack, Noted, PackFields, Binding
    <3>3. QED  BY <1>3, <3>1, <3>2 DEF PackKnows, StoredAs, Activating, Binding
  <2>2. CASE Expect(p)
    <3>1. /\ c.pc = "expect" /\ Noted(f, c, {"pc", "seen"}) /\ f.pc = "point"
          /\ f.seen = (IF c.phase = "undo" THEN c.seen ELSE moves)
          /\ AsExpected(p)
      BY <1>2, <1>4, <2>2, ActivateNotes
    <3>2. c.phase # "before" /\ f.phase = c.phase /\ f.cmd = c.cmd /\ f.base = c.base
          /\ f.release = c.release /\ f.version = c.version
          /\ f.expected = c.expected /\ f.mine = c.mine
      BY <1>3, <3>1 DEF IsPack, Noted, PackFields, Binding
    <3>3. /\ pointer # Nothing /\ releases[pointer.version] = pointer
          /\ pointer.version = c.expected
      BY <1>2, <3>1 DEF AsExpected, ActiveLoads
    <3>4. c.phase # "undo" /\ c.base.version \notin overwritten => pointer = c.base
      BY <1>3, <3>3 DEF PackKnows, StoredAs
    <3>5. f.seen \in 0..moves
      BY <1>3, <3>1 DEF PackKnows, PacksInv
    <3>6. (c.phase = "undo" => f.seen = c.seen) /\ c.phase \in {"forward", "undo"}
      BY <1>3, <3>1, <3>2 DEF IsPack
    <3>7. QED  BY <1>3, <3>1, <3>2, <3>3, <3>4, <3>5, <3>6
               DEF PackKnows, StoredAs, Activating, Binding
  <2>3. CASE Undo(p)
    <3>1. /\ c.pc = "undo" /\ Noted(f, c, {"pc", "mine", "release", "phase", "expected"})
          /\ f.pc = "store" /\ f.phase = "undo" /\ f.mine = c.release
          /\ f.release = releases[c.base.version]
      BY <1>2, <1>4, <2>3, ActivateNotes
    <3>2. c.phase = "forward" /\ f.cmd = c.cmd /\ f.base = c.base
          /\ f.seen = c.seen /\ f.version = c.version
      BY <1>3, <3>1 DEF IsPack, Noted, PackFields
    <3>3. f.release # Nothing
      <4>1. Fails(p) => f = Idle
        BY <1>1, <1>2, EndsFrame DEF Frame
      <4>2. QED  BY <1>2, <1>4, <2>3, <3>1, <4>1 DEF Undo
    <3>4. pointer # Nothing /\ c.base.version \in 1..MaxVersion
      BY <1>3, <3>1 DEF PackKnows
    <3>5. f.release.version \in 1..MaxVersion
      BY <3>1, <3>3, <3>4 DEF PacksInv
    <3>6. c.base.version \in overwritten \/ f.release = c.base
      BY <1>3, <3>1, <3>4 DEF PackKnows, StoredAs
    <3>7. QED  BY <1>3, <3>1, <3>2, <3>3, <3>4, <3>5, <3>6
               DEF PackKnows, StoredAs, Activating, Binding
  <2>4. QED  BY <2>1, <2>2, <2>3
<1>5. f.cmd \in PackCommands => f # Idle
  BY Distinct DEF PackCommands
<1>6. QED  BY <1>1, <1>2, <1>4, <1>5, PacksQuiet, Others

\* The binding changes nothing of the store.
LEMMA BindKnows ==
  ASSUME Shape, PacksInv, PackSkill \in Skills, NEW p \in Procs,
         Bind(p) \/ BindManifest(p) \/ BindProduct(p)
  PROVE  PacksInv'
<1>1. Frame(p) /\ IsPack(proc[p]) /\ PackSame
  BY BindFrame DEF Bind, BindManifest, BindProduct, packVars, PackSame
<1>2. PICK c, f : c = proc[p] /\ f = proc'[p]
  OBVIOUS
<1>3. PackKnows(c) /\ IsPack(c) /\ Running(p)
  BY <1>1, <1>2 DEF PacksInv, IsPack, Frame
<1>4. ASSUME f # Idle
      PROVE  /\ f.phase = c.phase /\ f.cmd = c.cmd /\ f.base = c.base
             /\ f.release = c.release /\ f.seen = c.seen /\ f.version = c.version
             /\ f.expected = c.expected /\ f.mine = c.mine
             /\ c.pc \in Binding
             /\ \/ f.pc = "undo" /\ f.phase = "forward"
                \/ f.pc \in Holding
                \/ f.pc = "check" /\ f.phase = "before"
  <2>1. c.pc \in Binding
    BY <1>2, BindNotes DEF Binding
  <2>2. CASE BindFails(p)
    BY <1>2, <1>3, <1>4, <2>1, <2>2, BindFailsFrame
  <2>3. CASE ~BindFails(p)
    <3>1. \/ Noted(f, c, {"pc", "closure", "needs"}) /\ f.pc \in Holding
          \/ Noted(f, c, {"pc"}) /\ f.pc = "check" /\ c.phase = "before"
      <4>1. Noted(f, c, {"pc"}) => Noted(f, c, {"pc", "closure", "needs"})
        BY DEF Noted
      <4>2. CASE Bind(p)
        BY <1>2, <2>3, <4>2, BindNotes DEF Holding
      <4>3. CASE BindManifest(p)
        BY <1>2, <2>3, <4>1, <4>3, BindNotes DEF Holding
      <4>4. CASE BindProduct(p)
        <5>1. c.phase = "before"
          BY <1>2, <1>4, <2>3, <4>4, BindNotes
        <5>2. QED  BY <1>2, <2>3, <4>4, <5>1, BindNotes
      <4>5. QED  BY <4>2, <4>3, <4>4
    <3>2. QED  BY <2>1, <3>1 DEF Noted, PackFields
  <2>4. QED  BY <2>2, <2>3
<1>5. f # Idle => PackKnows(f)
  BY <1>3, <1>4 DEF PackKnows, StoredAs, Activating, Binding, Holding
<1>6. f.cmd \in PackCommands => f # Idle
  BY Distinct DEF PackCommands
<1>7. QED  BY <1>1, <1>2, <1>5, <1>6, PacksQuiet, Others

\* A release is written: what was stored stays, or two commands wrote the version.
LEMMA WriteKnows ==
  ASSUME Shape, PacksInv, PackSkill \in Skills, NEW p \in Procs, Write(p)
  PROVE  PacksInv'
<1>1. Frame(p) /\ IsPack(proc[p]) /\ UNCHANGED <<pointer, kept, lost, moves>>
  BY ActivateFrame DEF Write
<1>2. PICK c, f, r : c = proc[p] /\ f = proc'[p] /\ r = c.release
  OBVIOUS
<1>3. PackKnows(c) /\ IsPack(c) /\ c.pc = "write"
  BY <1>1, <1>2, ActivateNotes DEF PacksInv, IsPack
<1>4. f.cmd \in PackCommands => f # Idle
  BY Distinct DEF PackCommands
<1>5. CASE f = Idle
  <2>1. PackSame
    BY <1>1, <1>2, <1>5, ActivateNotes DEF PackSame
  <2>2. QED  BY <1>1, <1>2, <1>4, <1>5, <2>1, PacksQuiet, Others
<1>6. CASE f # Idle
  <2>1. /\ Noted(f, c, {"pc"}) /\ f.pc = "expect"
        /\ releases' = [releases EXCEPT ![r.version] = r]
        /\ overwritten' = overwritten \cup
             (IF releases[r.version] \in {Nothing, r} THEN {} ELSE {r.version})
    BY <1>2, <1>6, ActivateNotes
  <2>2. c.phase # "before" /\ f.phase = c.phase /\ f.cmd = c.cmd /\ f.base = c.base
        /\ f.release = c.release /\ f.seen = c.seen /\ f.version = c.version
        /\ f.expected = c.expected /\ f.mine = c.mine
    BY <1>3, <2>1 DEF IsPack, Noted, PackFields, Binding
  <2>3. r # Nothing /\ r.version \in 1..MaxVersion
    BY <1>2, <1>3, <2>2 DEF PackKnows
  <2>4. /\ releases' = [v \in 1..MaxVersion |-> IF v = r.version THEN r ELSE releases[v]]
        /\ overwritten \subseteq overwritten'
    BY <2>1 DEF PacksInv
  <2>5. \A s : s # Nothing /\ s.version \in 1..MaxVersion /\ StoredAs(s) =>
           s.version \in overwritten' \/ releases'[s.version] = s
    BY <2>1, <2>3, <2>4 DEF StoredAs
  <2>6. \A v \in 1..MaxVersion : releases'[v] # Nothing => releases'[v].version = v
    BY <2>4 DEF PacksInv
  <2>7. ASSUME NEW q \in Procs, NEW g, g = proc'[q], g.cmd \in PackCommands
        PROVE  PackKnows(g)'
    <3>2. CASE q # p
      <4>1. g = proc[q] /\ IsPack(g) /\ PackKnows(g)
        BY <1>1, <2>7, <3>2, Others, Kinds DEF PacksInv
      <4>2. moves' \in Nat /\ moves <= moves'
        BY <1>1 DEF PacksInv
      <4>3. QED  BY <1>1, <2>4, <2>5, <4>1, <4>2, KnowsKept
    <3>3. CASE q = p
      <4>1. g = f
        BY <1>2, <2>7, <3>3
      <4>2. releases'[r.version] = r
        BY <2>3, <2>4
      <4>3. pointer # Nothing =>
              c.base.version \in overwritten' \/ releases'[c.base.version] = c.base
        BY <1>3, <2>5 DEF PackKnows
      <4>4. PackKnows(f)'
        BY <1>1, <1>2, <1>3, <2>1, <2>2, <2>3, <4>2, <4>3
           DEF PackKnows, StoredAs, Activating, Binding
      <4>5. QED  BY <4>1, <4>4
    <3>4. QED  BY <3>2, <3>3
  <2>8. pointer' # Nothing =>
          /\ pointer'.version \in 1..MaxVersion
          /\ pointer'.version \in overwritten' \/ releases'[pointer'.version] = pointer'
          /\ \A s \in kept' \ lost' : Covers(pointer', s)
    BY <1>1, <2>5 DEF PacksInv
  <2>9. \A q \in Procs : (proc[q].cmd \in PackCommands => PackKnows(proc[q]))'
    BY <2>7
  <2>10. QED  BY <1>1, <2>4, <2>6, <2>8, <2>9 DEF PacksInv, StoredAs
<1>7. QED  BY <1>5, <1>6

\* The pointer moves: what is active then has everything that was kept and that no
\* other command moved the pointer past.
LEMMA PointKnows ==
  ASSUME Shape, PacksInv, PackSkill \in Skills, NEW p \in Procs, Point(p)
  PROVE  PacksInv'
<1>1. Frame(p) /\ IsPack(proc[p]) /\ UNCHANGED <<releases, overwritten>>
  BY PointFrame DEF Point
<1>2. PICK c, f, r, b : c = proc[p] /\ f = proc'[p] /\ r = c.release /\ b = c.base
  OBVIOUS
<1>3. PackKnows(c) /\ IsPack(c) /\ c.pc = "point"
  BY <1>1, <1>2, PointNotes DEF PacksInv, IsPack
<1>4. f.cmd \in PackCommands => f # Idle
  BY Distinct DEF PackCommands
<1>5. CASE UNCHANGED <<pointer, kept, lost, moves>> /\ f = Idle
  <2>1. PackSame
    BY <1>1, <1>5 DEF PackSame
  <2>2. QED  BY <1>1, <1>2, <1>4, <1>5, <2>1, PacksQuiet, Others
<1>6. CASE /\ pointer' = r /\ moves' = moves + 1
           /\ kept' = StillKept(p) \cup {r}
           /\ lost' = (IF Unseen(p) THEN lost \cup {s \in StillKept(p) : ~BothCover(p, s)}
                       ELSE lost)
           /\ f # Idle => /\ Noted(f, c, {"pc", "seen"})
                          /\ f.pc = "bind" /\ f.seen = moves + 1
  <2>1. c.phase \in {"forward", "undo"}
    BY <1>3 DEF IsPack, Binding
  <2>2. /\ r # Nothing /\ b # Nothing /\ pointer # Nothing
        /\ r.version \in 1..MaxVersion /\ b.version \in 1..MaxVersion
        /\ StoredAs(r) /\ StoredAs(b)
    BY <1>2, <1>3, <2>1 DEF PackKnows
  <2>3. moves \in Nat /\ \A s \in kept \ lost : Covers(pointer, s)
    BY <2>2 DEF PacksInv
  <2>4. ASSUME NEW s \in kept' \ lost', s # r
        PROVE  /\ Covers(r, s)
               /\ c.phase = "forward" /\ b.version \notin overwritten => Covers(b, s)
    <3>1. s \in StillKept(p)
      BY <1>6, <2>4
    <3>2. s \in kept
      BY <3>1 DEF StillKept
    <3>3. CASE Unseen(p)
      <4>1. BothCover(p, s)
        BY <1>6, <2>4, <3>1, <3>3
      <4>2. QED  BY <1>2, <4>1 DEF BothCover
    <3>4. CASE ~Unseen(p)
      <4>1. moves = c.seen /\ b.version \notin overwritten /\ s \in kept \ lost
        BY <1>2, <1>6, <2>4, <3>2, <3>4 DEF Unseen, Overtaken
      <4>2. CASE c.phase = "undo"
        <5>1. s # c.mine
          BY <1>2, <3>1, <4>2 DEF StillKept
        <5>2. Covers(b, s) /\ r = b
          BY <1>2, <1>3, <4>1, <4>2, <5>1 DEF PackKnows, Activating
        <5>3. QED  BY <5>2, <4>2
      <4>3. CASE c.phase = "forward"
        <5>1. Covers(b, s)
          BY <1>2, <1>3, <2>3, <4>1, <4>3 DEF PackKnows
        <5>2. CASE c.cmd = "publish"
          <6>1. Covers(r, b)
            BY <1>2, <1>3, <4>3, <5>2 DEF PackKnows
          <6>2. QED  BY <5>1, <6>1, CoversAll
        <5>3. CASE c.cmd # "publish"
          BY <1>2, <3>1, <4>3, <5>1, <5>3 DEF StillKept
        <5>4. QED  BY <5>2, <5>3
      <4>4. QED  BY <2>1, <4>2, <4>3
    <3>5. QED  BY <3>3, <3>4
  <2>5. \A s \in kept' \ lost' : Covers(r, s)
    BY <2>4, CoversAll
  <2>6. ASSUME NEW q \in Procs, NEW g, g = proc'[q], g.cmd \in PackCommands
        PROVE  PackKnows(g)'
    <3>2. CASE q # p
      <4>1. g = proc[q] /\ IsPack(g) /\ PackKnows(g)
        BY <1>1, <2>6, <3>2, Others, Kinds DEF PacksInv
      <4>2. moves' \in Nat /\ moves <= moves' /\ moves' # moves
        BY <1>6, <2>3
      <4>3. \A s : StoredAs(s) => s.version \in overwritten' \/ releases'[s.version] = s
        BY <1>1 DEF StoredAs
      <4>4. QED  BY <1>1, <1>6, <2>2, <4>1, <4>2, <4>3, KnowsKept
    <3>3. CASE q = p
      <4>1. g = f /\ f # Idle
        BY <1>2, <1>4, <2>6, <3>3
      <4>2. f.phase = c.phase /\ f.cmd = c.cmd /\ f.base = b /\ f.pc = "bind"
            /\ f.release = r /\ f.version = c.version
            /\ f.expected = c.expected /\ f.mine = c.mine /\ f.seen = moves'
        BY <1>2, <1>6, <4>1 DEF Noted, PackFields
      <4>3. moves' \in Nat /\ f.seen \in 0..moves'
        BY <1>6, <2>3, <4>2
      <4>4. c.phase = "forward" /\ b.version \notin overwritten' =>
              \A s \in kept' \ lost' : s # r => Covers(b, s)
        BY <1>1, <2>4
      <4>5. b.version \in overwritten' \/ releases'[b.version] = b
        BY <1>1, <2>2 DEF StoredAs
      <4>6. PackKnows(f)'
        BY <1>1, <1>2, <1>3, <1>6, <2>1, <2>2, <4>2, <4>3, <4>4, <4>5
           DEF PackKnows, StoredAs, Activating, Binding
      <4>7. QED  BY <4>1, <4>6
    <3>4. QED  BY <3>2, <3>3
  <2>7. moves' \in Nat
    BY <1>6, <2>3
  <2>8. \A q \in Procs : (proc[q].cmd \in PackCommands => PackKnows(proc[q]))'
    BY <2>6
  <2>9. QED  BY <1>1, <1>6, <2>2, <2>5, <2>7, <2>8 DEF PacksInv, StoredAs
<1>7. QED  BY <1>2, <1>5, <1>6, PointNotes

\* A command on Packs starts from what is active.
LEMMA PackStarts ==
  ASSUME Shape, PacksInv, PackSkill \in Skills, Seed # Nothing, NEW p \in Procs,
         PublishBegin(p) \/ RollBackBegin(p)
  PROVE  /\ StartFrame(p) /\ IsPack(proc'[p]) /\ UNCHANGED packVars /\ PacksInv'
         /\ proc'[p].mine = Nothing
         /\ \/ proc'[p].pc = "review" /\ proc'[p].phase = "before"
            \/ proc'[p].pc = "store" /\ proc'[p].phase = "forward"
<1>1. moves \in Nat /\ 0 \in 0..moves
  BY DEF PacksInv
<1>2. CASE PublishBegin(p)
  <2>1. PICK batch \in Batches, bound \in BOOLEAN, version \in 1..MaxVersion :
          LET base == IF pointer = Nothing THEN Seed ELSE pointer
          IN /\ pointer # Nothing => ActiveLoads
             /\ Begin(p, PackCommand("publish", "review", bound, "before", base, base,
                                     ReviewedBatch(base, batch), version))
             /\ UNCHANGED packVars
    BY <1>2 DEF PublishBegin
  <2>2. PICK base, cand : base = (IF pointer = Nothing THEN Seed ELSE pointer)
                          /\ cand = ReviewedBatch(base, batch)
    OBVIOUS
  <2>3. Begin(p, PackCommand("publish", "review", bound, "before", base, base, cand, version))
        /\ UNCHANGED packVars
    BY <2>1, <2>2
  <2>4. /\ StartFrame(p) /\ IsPack(proc'[p])
        /\ proc'[p].cmd = "publish" /\ proc'[p].pc = "review" /\ proc'[p].phase = "before"
        /\ proc'[p].base = base /\ proc'[p].release = base /\ proc'[p].mine = Nothing
        /\ proc'[p].expected = base.version /\ proc'[p].seen = 0
        /\ proc'[p].version = version
    BY <2>3, PackBegins DEF PackCommands
  <2>5. base # Nothing /\ (pointer # Nothing => base.version \in 1..MaxVersion /\ StoredAs(base))
    BY <2>2 DEF PacksInv
  <2>6. PackKnows(proc'[p])
    BY <1>1, <2>4, <2>5 DEF PackKnows, StoredAs, Activating, Binding
  <2>7. PacksInv'
    BY <2>3, <2>4, <2>6, PacksQuiet, Others DEF PackSame, packVars
  <2>8. QED  BY <2>3, <2>4, <2>7
<1>3. CASE RollBackBegin(p)
  <2>1. PICK version \in 1..MaxVersion, bound \in BOOLEAN :
          LET target == releases[version]
          IN /\ ActiveLoads
             /\ target \notin {Nothing, pointer} /\ MayRollBack(pointer, target)
             /\ Begin(p, PackCommand("rollback", "store", bound, "forward", pointer,
                                     target, Nothing, version))
             /\ UNCHANGED packVars
    BY <1>3 DEF RollBackBegin
  <2>2. PICK target : target = releases[version]
    OBVIOUS
  <2>3. /\ Begin(p, PackCommand("rollback", "store", bound, "forward", pointer,
                                target, Nothing, version))
        /\ UNCHANGED packVars /\ pointer # Nothing /\ target # Nothing
    BY <2>1, <2>2 DEF ActiveLoads
  <2>4. /\ StartFrame(p) /\ IsPack(proc'[p])
        /\ proc'[p].cmd = "rollback" /\ proc'[p].pc = "store" /\ proc'[p].phase = "forward"
        /\ proc'[p].base = pointer /\ proc'[p].release = target /\ proc'[p].mine = Nothing
        /\ proc'[p].expected = pointer.version /\ proc'[p].seen = 0
        /\ proc'[p].version = version
    BY <2>3, PackBegins DEF PackCommands
  <2>5. target.version \in 1..MaxVersion /\ pointer.version \in 1..MaxVersion /\ StoredAs(pointer)
    BY <2>2, <2>3 DEF PacksInv
  <2>6. PackKnows(proc'[p])
    BY <1>1, <2>3, <2>4, <2>5 DEF PackKnows, StoredAs, Activating, Binding
  <2>7. PacksInv'
    BY <2>3, <2>4, <2>6, PacksQuiet, Others DEF PackSame, packVars
  <2>8. QED  BY <2>3, <2>4, <2>7
<1>4. QED  BY <1>2, <1>3

-----------------------------------------------------------------------------
(* Every step keeps the invariant.                                             *)

\* What is promised of a place, by the kind of command that works at it.
LEMMA TreeOf ==
  ASSUME NEW c, NEW place, NEW d, NEW o
  PROVE  /\ c.cmd = "build" => (Tree(c, place, d, o) <=> BuildTree(c, d, o))
         /\ c.cmd = "migrate" => (Tree(c, place, d, o) <=> MigrateTree(c, place, d, o))
         /\ c.cmd = "install" => (Tree(c, place, d, o) <=> InstallTree(c, d, o))
         /\ c.cmd = "uninstall" => (Tree(c, place, d, o) <=> d = o)
         /\ c.cmd \in PackCommands => (Tree(c, place, d, o) <=> PackTree(c, d, o))
BY DEF Tree, PackCommands

\* Drafts and slots are different places.
LEMMA PlacesApart ==
  /\ DraftPlaces \subseteq Places /\ SlotPlaces \subseteq Places
  /\ DraftPlaces \cap SlotPlaces = {}
  /\ PackSkill \in Skills => PackDraft \in DraftPlaces
BY DEF DraftPlaces, SlotPlaces, Places, PackDraft, Draft

\* A command that has nothing to do with Packs leaves what is known of them.
LEMMA PacksApart ==
  ASSUME PacksInv, NEW p \in Procs, Frame(p) \/ StartFrame(p), UNCHANGED packVars,
         proc'[p].cmd \notin PackCommands
  PROVE  PacksInv'
BY PacksQuiet, Others DEF PackSame, packVars

\* The steps of a build.
LEMMA BuildKeeps ==
  ASSUME Inv, PackSkill \in Skills, NEW p \in Procs, BuildActs(p), UNCHANGED <<mixed, packVars>>
  PROVE  Inv'
<1>1. Shape /\ Exclusive /\ TreesInv /\ SkillsInv /\ BoundInv /\ SlotsInv /\ PacksInv
  BY DEF Inv
<1>2. PICK c, f, at : c = proc[p] /\ f = proc'[p] /\ at = c.at
  OBVIOUS
<1>3. Frame(p) /\ IsBuild(c) /\ (f = Idle \/ IsBuild(f))
  BY <1>1, <1>2, BuildFrame
<1>4. /\ c.cmd = "build" /\ c.on = {at} /\ at \in DraftPlaces
      /\ f # Idle => f.cmd = "build"
      /\ f.cmd \notin PackCommands /\ f.cmd # "install"
  BY <1>2, <1>3, Distinct DEF IsBuild, PackCommands
<1>5. UNCHANGED <<unbound, pointer>>
  BY DEF packVars
<1>6. Shape' /\ Exclusive'
  BY <1>1, <1>3, FrameKeeps
<1>7. TreesInv'
  <2>1. at \notin adrift' /\ Tree(c, at, disk[at], owed[at]) =>
           IF f = Idle THEN disk'[at] = owed'[at] ELSE Tree(f, at, disk'[at], owed'[at])
    BY <1>1, <1>2, <1>4, BuildSteps, TreeOf
  <2>2. QED  BY <1>1, <1>2, <1>3, <1>4, <2>1, TreesKept
<1>8. SkillsInv'
  BY <1>1, <1>2, <1>3, <1>4, BuildSteps, SkillsKept
<1>9. BoundInv'
  <2>1. Good(disk[at], unbound, pointer) /\ BoundTree(c, disk[at], unbound, pointer) =>
              /\ Good(disk'[at], unbound, pointer)
              /\ f # Idle => BoundTree(f, disk'[at], unbound, pointer)
    BY <1>1, <1>2, BuildSteps
  <2>2. unbound # Nothing => unbound.release = pointer /\ pointer # Nothing
    BY <1>1 DEF BoundInv
  <2>3. QED  BY <1>1, <1>2, <1>3, <1>4, <1>5, <2>1, <2>2, BoundKept
<1>10. SlotsInv'
  BY <1>1, <1>2, <1>3, <1>4, PlacesApart, SlotsKept
<1>11. PacksInv'
  BY <1>1, <1>2, <1>3, <1>4, PacksApart
<1>12. QED  BY <1>6, <1>7, <1>8, <1>9, <1>10, <1>11 DEF Inv

\* The steps of a migration.
LEMMA MigrateKeeps ==
  ASSUME Inv, PackSkill \in Skills, NEW p \in Procs, MigrateActs(p), UNCHANGED <<mixed, packVars>>
  PROVE  Inv'
<1>1. Shape /\ Exclusive /\ TreesInv /\ SkillsInv /\ BoundInv /\ SlotsInv /\ PacksInv
  BY DEF Inv
<1>2. PICK c, f : c = proc[p] /\ f = proc'[p]
  OBVIOUS
<1>3. Frame(p) /\ IsMigrate(c) /\ (f = Idle \/ IsMigrate(f))
  BY <1>1, <1>2, MigrateFrame
<1>4. /\ c.cmd = "migrate" /\ c.on \subseteq DraftPlaces
      /\ f # Idle => f.cmd = "migrate"
      /\ f.cmd \notin PackCommands /\ f.cmd # "install"
  BY <1>2, <1>3, Distinct DEF IsMigrate, PackCommands
<1>5. UNCHANGED <<unbound, pointer>>
  BY DEF packVars
<1>6. Shape' /\ Exclusive'
  BY <1>1, <1>3, FrameKeeps
<1>7. \A place \in c.on : MigrateGoal(p, place, unbound, pointer)
  BY <1>1, <1>2, MigrateSteps
<1>8. TreesInv'
  <2>1. ASSUME NEW place \in c.on
        PROVE  place \notin adrift' /\ Tree(c, place, disk[place], owed[place]) =>
                 IF f = Idle THEN disk'[place] = owed'[place]
                 ELSE Tree(f, place, disk'[place], owed'[place])
    BY <1>2, <1>4, <1>7, TreeOf DEF MigrateGoal
  <2>2. QED  BY <1>1, <1>2, <1>3, <2>1, TreesKept
<1>9. SkillsInv'
  <2>1. ASSUME NEW place \in c.on, SkillTree(c, place, disk[place], saved \cup died)
        PROVE  IF f = Idle THEN KnownIn(disk'[place], saved' \cup died')
               ELSE SkillTree(f, place, disk'[place], saved' \cup died')
    BY <1>2, <1>7, <2>1 DEF MigrateGoal
  <2>2. QED  BY <1>1, <1>2, <1>3, <2>1, SkillsKept
<1>10. BoundInv'
  <2>1. PackDraft \in c.on /\ Good(disk[PackDraft], unbound, pointer)
          /\ BoundTree(c, disk[PackDraft], unbound, pointer) =>
              /\ Good(disk'[PackDraft], unbound, pointer)
              /\ f # Idle => BoundTree(f, disk'[PackDraft], unbound, pointer)
    BY <1>2, <1>7 DEF MigrateGoal
  <2>2. unbound # Nothing => unbound.release = pointer /\ pointer # Nothing
    BY <1>1 DEF BoundInv
  <2>3. QED  BY <1>1, <1>2, <1>3, <1>4, <1>5, <2>1, <2>2, BoundKept
<1>11. SlotsInv'
  BY <1>1, <1>2, <1>3, <1>4, PlacesApart, SlotsKept
<1>12. PacksInv'
  BY <1>1, <1>2, <1>3, <1>4, PacksApart
<1>13. QED  BY <1>6, <1>8, <1>9, <1>10, <1>11, <1>12 DEF Inv

\* The steps of an installation and of a removal.
LEMMA SlotStepsKeep ==
  ASSUME Inv, PackSkill \in Skills, NEW p \in Procs, InstallActs(p) \/ RemoveSlot(p),
         UNCHANGED packVars
  PROVE  Inv'
<1>1. Shape /\ Exclusive /\ TreesInv /\ SkillsInv /\ BoundInv /\ SlotsInv /\ PacksInv
  BY DEF Inv
<1>2. PICK c, f, at : c = proc[p] /\ f = proc'[p] /\ at = c.at
  OBVIOUS
<1>3. /\ Frame(p)
      /\ \/ InstallActs(p) /\ IsInstall(c) /\ (f = Idle \/ IsInstall(f))
         \/ RemoveSlot(p) /\ IsUninstall(c) /\ f = Idle
  BY <1>1, <1>2, InstallFrame, RemoveFrame
<1>4. /\ c.on = {at} /\ at \in SlotPlaces /\ at \notin DraftPlaces /\ PackDraft \notin c.on
      /\ f.cmd \notin PackCommands
  BY <1>2, <1>3, Distinct, PlacesApart DEF IsInstall, IsUninstall, PackCommands
<1>5. UNCHANGED <<unbound, pointer>>
  BY DEF packVars
<1>6. Shape' /\ Exclusive'
  BY <1>1, <1>3, FrameKeeps
<1>7. TreesInv'
  <2>1. at \notin adrift' /\ Tree(c, at, disk[at], owed[at]) =>
           IF f = Idle THEN disk'[at] = owed'[at] ELSE Tree(f, at, disk'[at], owed'[at])
    <3>1. CASE InstallActs(p) /\ IsInstall(c) /\ (f = Idle \/ IsInstall(f))
      <4>1. c.cmd = "install" /\ (f # Idle => f.cmd = "install")
        BY <3>1 DEF IsInstall
      <4>2. QED  BY <1>1, <1>2, <3>1, <4>1, InstallSteps, TreeOf
    <3>2. CASE RemoveSlot(p) /\ IsUninstall(c) /\ f = Idle
      BY <1>1, <1>2, <3>2, RemoveSteps
    <3>3. QED  BY <1>3, <3>1, <3>2
  <2>2. QED  BY <1>1, <1>2, <1>3, <1>4, <2>1, TreesKept
<1>8. SkillsInv'
  BY <1>1, <1>2, <1>3, <1>4, SkillsKept
<1>9. BoundInv'
  <2>1. unbound # Nothing => unbound.release = pointer /\ pointer # Nothing
    BY <1>1 DEF BoundInv
  <2>2. QED  BY <1>1, <1>2, <1>3, <1>4, <1>5, <2>1, BoundKept
<1>10. SlotsInv'
  <2>1. /\ mixed \subseteq mixed' /\ (at \notin mixed' => Verified(disk'[at]))
        /\ f.cmd = "install" => /\ f.at \notin mixed' => Verified(f.held)
                                /\ f.pc # "gate" => Verified(f.seen)
    <3>1. CASE InstallActs(p) /\ IsInstall(c) /\ (f = Idle \/ IsInstall(f))
      <4>1. /\ at \notin mixed => Verified(disk[at]) /\ Verified(c.held)
            /\ c.pc # "gate" => Verified(c.seen)
        BY <1>1, <1>2, <1>4, <3>1 DEF SlotsInv, IsInstall
      <4>2. f # Idle => f.at = at
        BY <1>2, <1>3, <1>4, <3>1 DEF IsInstall, Frame, ProcFrame
      <4>3. f = Idle => f.cmd # "install"
        BY Distinct
      <4>4. QED  BY <1>1, <1>2, <3>1, <4>1, <4>2, <4>3, InstallSteps
    <3>2. CASE RemoveSlot(p) /\ IsUninstall(c) /\ f = Idle
      BY <1>1, <1>2, <3>2, RemoveSteps, Distinct
    <3>3. QED  BY <1>3, <3>1, <3>2
  <2>2. QED  BY <1>1, <1>2, <1>3, <1>4, <2>1, SlotsKept
<1>11. PacksInv'
  BY <1>1, <1>2, <1>3, <1>4, PacksApart
<1>12. QED  BY <1>6, <1>7, <1>8, <1>9, <1>10, <1>11 DEF Inv

\* Which release awaits its binding, and what the command that made it active notes.
LEMMA PackWaits ==
  ASSUME Inv, PackSkill \in Skills, NEW p \in Procs, PackActs(p), NEW f, f = proc'[p]
  PROVE  /\ unbound' # Nothing => unbound'.release = pointer' /\ pointer' # Nothing
         /\ unbound' # Nothing => unbound' = unbound \/ unbound'.by = p
         /\ f.cmd \in PackCommands => BoundNotes(f, p, unbound')
         /\ PackDraft \notin proc[p].on /\ unbound' = Nothing =>
              unbound = Nothing /\ pointer' = pointer
<1>1. Shape /\ BoundInv /\ PacksInv
  BY DEF Inv
<1>2. PICK c : c = proc[p]
  OBVIOUS
<1>3. IsPack(c) /\ Running(p) /\ c.cmd \in PackCommands
  BY <1>1, <1>2, PackFrame DEF IsPack, Frame
<1>4. /\ unbound # Nothing => unbound.release = pointer /\ pointer # Nothing
      /\ BoundNotes(c, p, unbound)
  BY <1>1, <1>2, <1>3 DEF BoundInv
<1>5. f = Idle => f.cmd \notin PackCommands
  BY Distinct DEF PackCommands
<1>6. ASSUME UNCHANGED <<unbound, pointer>>, f # Idle => BoundNotes(f, p, unbound)
      PROVE  /\ unbound' # Nothing => unbound'.release = pointer' /\ pointer' # Nothing
             /\ unbound' # Nothing => unbound' = unbound \/ unbound'.by = p
             /\ f.cmd \in PackCommands => BoundNotes(f, p, unbound')
             /\ PackDraft \notin proc[p].on /\ unbound' = Nothing =>
                  unbound = Nothing /\ pointer' = pointer
  BY <1>4, <1>5, <1>6
<1>7. CASE PublishRefused(p) \/ PublishReviewed(p) \/ CheckBase(p)
  <2>1. UNCHANGED <<unbound, pointer>>
    BY <1>7 DEF PublishRefused, PublishReviewed, CheckBase, packVars
  <2>2. ASSUME f # Idle  PROVE c.phase = "before" /\ f.phase # "undo" /\ f.mine = c.mine
    <3>1. \/ c.pc = "review" /\ Noted(f, c, {"pc"})
          \/ c.pc = "check" /\ Noted(f, c, {"pc", "release", "phase"}) /\ f.phase = "forward"
      BY <1>1, <1>2, <1>7, <2>2, PublishNotes
    <3>2. QED  BY <1>3, <3>1 DEF IsPack, Noted, PackFields
  <2>3. f # Idle => BoundNotes(f, p, unbound)
    BY <1>4, <2>2 DEF BoundNotes
  <2>4. QED  BY <1>6, <2>1, <2>3
<1>8. CASE Store(p) \/ Write(p) \/ Expect(p) \/ Undo(p)
  <2>1. UNCHANGED <<unbound, pointer>>
    BY <1>8 DEF Store, Write, Expect, Undo, packVars
  <2>2. ASSUME f # Idle
        PROVE  /\ f.pc \notin Binding
               /\ f.phase # "undo" => c.phase # "undo" /\ f.mine = c.mine
    <3>1. \/ Noted(f, c, {"pc"}) /\ f.pc \in {"write", "expect"}
          \/ Noted(f, c, {"pc", "seen"}) /\ f.pc = "point"
          \/ f.phase = "undo" /\ f.pc = "store"
      BY <1>1, <1>2, <1>8, <2>2, ActivateNotes
    <3>2. QED  BY <3>1 DEF Noted, PackFields, Binding
  <2>3. f # Idle => BoundNotes(f, p, unbound)
    BY <1>4, <2>2 DEF BoundNotes
  <2>4. QED  BY <1>6, <2>1, <2>3
<1>9. CASE Point(p)
  <2>1. CASE f = Idle /\ UNCHANGED <<pointer, unbound>>
    BY <1>6, <2>1
  <2>2. CASE /\ pointer' = c.release /\ unbound' = [by |-> p, release |-> c.release]
             /\ f # Idle => Noted(f, c, {"pc", "seen"})
    <3>1. unbound'.by = p /\ unbound'.release = c.release /\ unbound' # Nothing
      BY <2>2 DEF Nothing
    <3>2. c.release # Nothing
      BY <1>1, <1>2, <1>3 DEF PacksInv, PackKnows
    <3>3. f # Idle => f.phase = c.phase /\ f.mine = c.mine /\ f.release = c.release
      BY <2>2 DEF Noted, PackFields
    <3>4. f # Idle => BoundNotes(f, p, unbound')
      BY <1>4, <3>1, <3>3 DEF BoundNotes
    <3>5. QED  BY <1>5, <2>2, <3>1, <3>2, <3>4
  <2>3. QED  BY <1>1, <1>2, <1>9, <2>1, <2>2, PointNotes
<1>10. CASE Bind(p) \/ BindManifest(p) \/ BindProduct(p)
  <2>1. /\ pointer' = pointer /\ c.on = {PackDraft} /\ c.pc \in Binding
        /\ unbound' = unbound \/ unbound' = Nothing
    <3>1. c.on = {PackDraft} /\ c.pc \in Binding
      BY <1>1, <1>2, <1>10, BindNotes DEF Binding
    <3>2. pointer' = pointer
      BY <1>10 DEF Bind, BindManifest, BindProduct, packVars
    <3>3. unbound' = unbound \/ unbound' = Nothing
      <4>1. CASE BindProduct(p)
        BY <1>1, <1>2, <4>1, BindNotes
      <4>2. CASE Bind(p) \/ BindManifest(p)
        BY <4>2 DEF Bind, BindManifest, packVars
      <4>3. QED  BY <1>10, <4>1, <4>2
    <3>4. QED  BY <3>1, <3>2, <3>3
  <2>2. ASSUME f # Idle
        PROVE  f.phase = c.phase /\ f.mine = c.mine /\ f.release = c.release
    <3>1. CASE BindFails(p)
      BY <1>2, <1>3, <2>1, <2>2, <1>1, <3>1, BindFailsFrame
    <3>2. CASE ~BindFails(p)
      <4>1. Noted(f, c, {"pc"}) => Noted(f, c, {"pc", "closure", "needs"})
        BY DEF Noted
      <4>2. Noted(f, c, {"pc", "closure", "needs"})
        <5>1. CASE Bind(p)
          BY <1>1, <1>2, <3>2, <5>1, BindNotes
        <5>2. CASE BindManifest(p)
          BY <1>1, <1>2, <3>2, <4>1, <5>2, BindNotes
        <5>3. CASE BindProduct(p)
          <6>1. c.phase = "before"
            BY <1>1, <1>2, <2>2, <3>2, <5>3, BindNotes
          <6>2. QED  BY <1>1, <1>2, <3>2, <4>1, <5>3, <6>1, BindNotes
        <5>4. QED  BY <1>10, <5>1, <5>2, <5>3
      <4>3. QED  BY <4>2 DEF Noted, PackFields
    <3>3. QED  BY <3>1, <3>2
  <2>3. f # Idle => BoundNotes(f, p, unbound')
    BY <1>4, <2>1, <2>2 DEF BoundNotes
  <2>4. QED  BY <1>2, <1>4, <1>5, <2>1, <2>3
<1>11. QED  BY <1>7, <1>8, <1>9, <1>10 DEF PackActs

\* The steps of a command on Packs.
LEMMA PackKeeps ==
  ASSUME Inv, PackSkill \in Skills, NEW p \in Procs, PackActs(p), mixed' = mixed
  PROVE  Inv'
<1>1. Shape /\ Exclusive /\ TreesInv /\ SkillsInv /\ BoundInv /\ SlotsInv /\ PacksInv
  BY DEF Inv
<1>2. PICK c, f : c = proc[p] /\ f = proc'[p]
  OBVIOUS
<1>3. Frame(p) /\ IsPack(c) /\ (f = Idle \/ IsPack(f))
  BY <1>1, <1>2, PackFrame
<1>4. /\ c.cmd \in PackCommands /\ c.on \in {{}, {PackDraft}}
      /\ f # Idle => f.cmd \in PackCommands
      /\ f.cmd # "install" /\ PackDraft \in DraftPlaces
  BY <1>2, <1>3, Distinct, PlacesApart DEF IsPack, PackCommands
<1>5. PackKnows(c)
  BY <1>1, <1>2, <1>4 DEF PacksInv
<1>6. PackGoal(p)
  <2>1. c.phase = "before" => c.release = c.base
    BY <1>5 DEF PackKnows
  <2>2. QED  BY <1>1, <1>2, <2>1, ActivateGoal, BindGoal, ManifestGoal, ProductGoal DEF PackActs
<1>7. Shape' /\ Exclusive'
  BY <1>1, <1>3, FrameKeeps
<1>8. TreesInv'
  <2>1. ASSUME NEW place \in c.on
        PROVE  place \notin contested \cup adrift' /\ Tree(c, place, disk[place], owed[place]) =>
                 IF f = Idle THEN disk'[place] = owed'[place]
                 ELSE Tree(f, place, disk'[place], owed'[place])
    BY <1>2, <1>4, <1>6, TreeOf DEF PackGoal
  <2>2. QED  BY <1>1, <1>2, <1>3, <2>1, TreesKept
<1>9. SkillsInv'
  <2>1. \A d, place, known : SkillTree(c, place, d, known) => KnownIn(d, known)
    BY <1>4 DEF SkillTree, PackCommands
  <2>2. f # Idle => \A d, place, known : KnownIn(d, known) => SkillTree(f, place, d, known)
    BY <1>4 DEF SkillTree, PackCommands
  <2>3. ASSUME NEW place \in c.on, SkillTree(c, place, disk[place], saved \cup died)
        PROVE  IF f = Idle THEN KnownIn(disk'[place], saved' \cup died')
               ELSE SkillTree(f, place, disk'[place], saved' \cup died')
    <3>1. place = PackDraft /\ KnownIn(disk[place], saved \cup died)
      BY <1>4, <2>1, <2>3
    <3>2. KnownIn(disk'[place], saved' \cup died')
      BY <1>2, <1>6, <2>3, <3>1 DEF PackGoal
    <3>3. QED  BY <2>2, <3>2
  <2>4. QED  BY <1>1, <1>2, <1>3, <2>3, SkillsKept
<1>10. BoundInv'
  <2>1. PackDraft \in c.on \ contested /\ Good(disk[PackDraft], unbound, pointer)
          /\ BoundTree(c, disk[PackDraft], unbound, pointer) =>
              /\ Good(disk'[PackDraft], unbound', pointer')
              /\ f # Idle => BoundTree(f, disk'[PackDraft], unbound', pointer')
    BY <1>2, <1>6 DEF PackGoal
  <2>2. /\ unbound' # Nothing => unbound'.release = pointer' /\ pointer' # Nothing
        /\ unbound' # Nothing => unbound' = unbound \/ unbound'.by = p
        /\ f.cmd \in PackCommands => BoundNotes(f, p, unbound')
        /\ PackDraft \notin c.on /\ unbound' = Nothing =>
             unbound = Nothing /\ pointer' = pointer
    BY <1>2, PackWaits
  <2>3. QED  BY <1>1, <1>2, <1>3, <2>1, <2>2, BoundKept
<1>11. SlotsInv'
  BY <1>1, <1>2, <1>3, <1>4, PlacesApart, SlotsKept
<1>12. PacksInv'
  BY <1>1, PublishKnows, ActivateKnows, WriteKnows, PointKnows, BindKnows DEF PackActs
<1>13. QED  BY <1>7, <1>8, <1>9, <1>10, <1>11, <1>12 DEF Inv

\* A process dies: where it would be noticed the place is adrift.
LEMMA CrashKeeps ==
  ASSUME Inv, PackSkill \in Skills, NEW p \in Procs, Crash(p), UNCHANGED <<mixed, packVars>>
  PROVE  Inv'
<1>1. Shape /\ Exclusive /\ TreesInv /\ SkillsInv /\ BoundInv /\ SlotsInv /\ PacksInv
  BY DEF Inv
<1>2. PICK c : c = proc[p]
  OBVIOUS
<1>3. /\ Frame(p) /\ proc'[p] = Idle /\ disk' = disk /\ owed' = owed
      /\ Exposed(p) => c.on \subseteq adrift'
      /\ c.cmd = "build" => c.dir.skill \in died'
  BY <1>1, <1>2, CrashFrame
<1>4. Idle.cmd \notin PackCommands /\ Idle.cmd # "install"
  BY Distinct DEF PackCommands
<1>5. UNCHANGED <<unbound, pointer>>
  BY DEF packVars
<1>6. Shape' /\ Exclusive'
  BY <1>1, <1>3, FrameKeeps
<1>7. TreesInv'
  <2>1. ASSUME NEW place \in c.on, place \notin adrift',
               Tree(c, place, disk[place], owed[place])
        PROVE  disk[place] = owed[place]
    <3>1. ~Exposed(p)
      BY <1>3, <2>1
    <3>2. /\ c.pc \notin {"in", "back", "save", "unsave", "replace", "bundle", "copy",
                          "undo", "next", "revert", "return", "manifest", "product"}
          /\ c.cmd \in PackCommands => c.phase # "undo"
      BY <1>2, <3>1 DEF Exposed
    <3>3. CASE IsBuild(c)
      BY <2>1, <3>2, <3>3, TreeOf DEF IsBuild, BuildTree
    <3>4. CASE IsMigrate(c)
      BY <2>1, <3>2, <3>4, TreeOf DEF IsMigrate, MigrateTree, Aside
    <3>5. CASE IsInstall(c)
      BY <2>1, <3>2, <3>5, TreeOf DEF IsInstall, InstallTree
    <3>6. CASE IsUninstall(c)
      BY <2>1, <3>6, TreeOf DEF IsUninstall
    <3>7. CASE IsPack(c)
      BY <2>1, <3>2, <3>7, TreeOf DEF IsPack, PackTree, Holding
    <3>8. QED  BY <1>1, <1>2, <1>3, <3>3, <3>4, <3>5, <3>6, <3>7, Kinds DEF Frame
  <2>2. QED  BY <1>1, <1>2, <1>3, <2>1, TreesKept
<1>8. SkillsInv'
  <2>1. ASSUME NEW place \in c.on, SkillTree(c, place, disk[place], saved \cup died)
        PROVE  KnownIn(disk[place], saved' \cup died')
    <3>1. saved \cup died \subseteq saved' \cup died'
      BY <1>3 DEF Frame, Rest
    <3>2. CASE c.cmd = "build" /\ disk[place] = c.dir
      BY <1>3, <3>2 DEF KnownIn
    <3>3. CASE KnownIn(disk[place], saved \cup died)
      BY <3>1, <3>3, Known
    <3>4. QED  BY <2>1, <3>2, <3>3 DEF SkillTree
  <2>2. QED  BY <1>1, <1>2, <1>3, <2>1, SkillsKept
<1>9. BoundInv'
  <2>1. unbound # Nothing => unbound.release = pointer /\ pointer # Nothing
    BY <1>1 DEF BoundInv
  <2>2. QED  BY <1>1, <1>2, <1>3, <1>4, <1>5, <2>1, BoundKept
<1>10. SlotsInv'
  <2>1. \A place \in c.on \cap SlotPlaces : place \notin mixed' => Verified(disk'[place])
    BY <1>1, <1>3 DEF SlotsInv
  <2>2. QED  BY <1>1, <1>2, <1>3, <1>4, <2>1, SlotsKept
<1>11. PacksInv'
  BY <1>1, <1>3, <1>4, PacksApart
<1>12. QED  BY <1>6, <1>7, <1>8, <1>9, <1>10, <1>11 DEF Inv

Starting(p) ==
  \/ BuildBegin(p) \/ MigrateBegin(p) \/ InstallBegin(p) \/ UninstallBegin(p)
  \/ PublishBegin(p) \/ RollBackBegin(p)

\* A command starts.
LEMMA StartsKeep ==
  ASSUME Inv, PackSkill \in Skills, Seed # Nothing, NEW p \in Procs, Starting(p),
         UNCHANGED mixed, PublishBegin(p) \/ RollBackBegin(p) \/ UNCHANGED packVars
  PROVE  Inv'
<1>1. Shape /\ Exclusive /\ TreesInv /\ SkillsInv /\ BoundInv /\ SlotsInv /\ PacksInv
  BY DEF Inv
<1>2. PICK f : f = proc'[p]
  OBVIOUS
<1>3. /\ StartFrame(p)
      /\ \/ /\ IsBuild(f) /\ f.pc = "compile" /\ f.held = Nothing
            /\ f.dir.pack = Nothing
            /\ \/ f.dir.closure = Nothing
               \/ f.dir.closure # Torn /\ f.dir.closure.life = "candidate"
         \/ /\ IsMigrate(f) /\ f.pc = "stage" /\ f.done = {}
            /\ \A place \in f.on :
                 /\ f.held[place] = Nothing /\ f.dir[place] = Nothing
                 /\ IsDirectory(disk[place]) /\ disk[place].closure = Nothing
         \/ IsInstall(f) /\ f.pc = "gate" /\ f.held = Nothing /\ f.seen = Nothing
         \/ IsUninstall(f)
         \/ /\ IsPack(f) /\ f.mine = Nothing
            /\ \/ f.pc = "review" /\ f.phase = "before"
               \/ f.pc = "store" /\ f.phase = "forward"
  BY <1>1, <1>2, DraftsBegin, SlotsBegin, PackStarts DEF Starting
<1>4. UNCHANGED <<unbound, pointer>>
  <2>1. UNCHANGED packVars
    BY <1>1, PackStarts
  <2>2. QED  BY <2>1 DEF packVars
<1>5. ~IsDirectory(Nothing)
  BY Made
<1>6. Shape' /\ Exclusive'
  BY <1>1, <1>3, StartKeeps
<1>7. TreesInv'
  <2>1. ASSUME NEW place \in f.on  PROVE Tree(f, place, disk[place], disk[place])
    <3>1. CASE IsBuild(f) /\ f.pc = "compile"
      BY <3>1, TreeOf DEF IsBuild, BuildTree
    <3>2. CASE IsMigrate(f) /\ f.pc = "stage" /\ f.done = {}
      BY <3>2, TreeOf DEF IsMigrate, MigrateTree, Aside
    <3>3. CASE IsInstall(f) /\ f.pc = "gate"
      BY <3>3, TreeOf DEF IsInstall, InstallTree
    <3>4. CASE IsUninstall(f)
      BY <3>4, TreeOf DEF IsUninstall
    <3>5. CASE IsPack(f) /\ f.pc \in {"review", "store"} /\ f.phase # "undo"
      BY <3>5, TreeOf DEF IsPack, PackTree, Holding
    <3>6. QED  BY <1>3, <3>1, <3>2, <3>3, <3>4, <3>5
  <2>2. QED  BY <1>1, <1>2, <1>3, <2>1, TreesStarted
<1>8. SkillsInv'
  <2>1. ASSUME NEW place \in f.on, KnownIn(disk[place], saved \cup died)
        PROVE  SkillTree(f, place, disk[place], saved \cup died)
    <3>1. KnownIn(Nothing, saved \cup died)
      BY <1>5 DEF KnownIn
    <3>2. f.cmd = "build" => f.held = Nothing
      BY <1>3 DEF IsMigrate, IsInstall, IsUninstall, IsPack, PackCommands
    <3>3. f.cmd = "migrate" => f.held[place] = Nothing /\ f.dir[place] = Nothing
      BY <1>3, <2>1 DEF IsBuild, IsInstall, IsUninstall, IsPack, PackCommands
    <3>4. QED  BY <2>1, <3>1, <3>2, <3>3 DEF SkillTree
  <2>2. QED  BY <1>1, <1>2, <1>3, <2>1, SkillsStarted
<1>9. BoundInv'
  <2>1. f.cmd \in PackCommands => BoundNotes(f, p, unbound)
    BY <1>3 DEF BoundNotes, IsBuild, IsMigrate, IsInstall, IsUninstall, PackCommands
  <2>2. PackDraft \in f.on => BoundTree(f, disk[PackDraft], unbound, pointer)
    <3>1. Good(Nothing, unbound, pointer)
      BY <1>5 DEF Good
    <3>2. CASE /\ IsBuild(f) /\ f.held = Nothing /\ f.dir.pack = Nothing
               /\ \/ f.dir.closure = Nothing
                  \/ f.dir.closure # Torn /\ f.dir.closure.life = "candidate"
      BY <3>1, <3>2 DEF IsBuild, BoundTree, PackCommands
    <3>3. CASE /\ IsMigrate(f)
               /\ \A place \in f.on :
                    /\ f.held[place] = Nothing /\ f.dir[place] = Nothing
                    /\ IsDirectory(disk[place]) /\ disk[place].closure = Nothing
      BY <1>5, <3>1, <3>3 DEF IsMigrate, BoundTree, PackCommands
    <3>4. CASE IsInstall(f) \/ IsUninstall(f)
      BY <3>4 DEF IsInstall, IsUninstall, BoundTree, PackCommands
    <3>5. CASE IsPack(f) /\ f.pc \in {"review", "store"}
      BY <3>5 DEF IsPack, BoundTree, PackCommands, Binding, Holding
    <3>6. QED  BY <1>3, <3>2, <3>3, <3>4, <3>5
  <2>3. QED  BY <1>1, <1>2, <1>3, <1>4, <2>1, <2>2, BoundStarted
<1>10. SlotsInv'
  <2>1. f.cmd = "install" => f.held = Nothing /\ f.seen = Nothing
    BY <1>3 DEF IsBuild, IsMigrate, IsUninstall, IsPack, PackCommands
  <2>2. Verified(Nothing)
    BY <1>5 DEF Verified
  <2>3. ~Frame(p)
    BY <1>3 DEF Frame, StartFrame, Running
  <2>4. QED  BY <1>1, <1>2, <1>3, <2>1, <2>2, <2>3, SlotsKept
<1>11. PacksInv'
  <2>1. CASE PublishBegin(p) \/ RollBackBegin(p)
    BY <1>1, <2>1, PackStarts
  <2>2. CASE ~(PublishBegin(p) \/ RollBackBegin(p))
    <3>1. IsBuild(f) \/ IsMigrate(f) \/ IsInstall(f) \/ IsUninstall(f)
      BY <1>1, <1>2, <2>2, DraftsBegin, SlotsBegin DEF Starting
    <3>2. f.cmd \notin PackCommands
      BY <3>1 DEF IsBuild, IsMigrate, IsInstall, IsUninstall, PackCommands
    <3>3. QED  BY <1>1, <1>2, <1>3, <2>2, <3>2, PacksApart
  <2>3. QED  BY <2>1, <2>2
<1>12. QED  BY <1>6, <1>7, <1>8, <1>9, <1>10, <1>11 DEF Inv

\* What the commands find satisfies the invariant.
LEMMA InitInv == Init => Inv
<1> SUFFICES ASSUME Init  PROVE Inv
  OBVIOUS
<1>1. PICK start \in Starts :
        /\ disk = start.disk /\ owed = start.disk
        /\ pointer = start.pointer
        /\ releases = [v \in 1..MaxVersion |->
                         IF start.pointer # Nothing /\ start.pointer.version = v
                         THEN start.pointer ELSE Nothing]
        /\ kept = IF start.pointer = Nothing THEN {} ELSE {start.pointer}
        /\ proc = [p \in Procs |-> Idle]
        /\ saved = {} /\ contested = {} /\ died = {} /\ adrift = {} /\ mixed = {}
        /\ lost = {} /\ overwritten = {} /\ moves = 0 /\ unbound = Nothing
  BY DEF Init
<1>2. /\ PackSkill \in Skills
      /\ pointer # Nothing => pointer.version \in 1..MaxVersion
      /\ disk = [place \in Places |-> disk[place]] /\ owed = disk
      /\ \A place \in Places : IsContent(disk[place])
      /\ \A s \in Skills :
           /\ IsDirectory(disk[Draft(s)]) =>
                /\ disk[Draft(s)].skill < 1
                /\ disk[Draft(s)].closure = Nothing => disk[Draft(s)].pack = Nothing
           /\ Verified(disk[Slot(s)])
      /\ IsDirectory(disk[PackDraft]) /\ Opens(disk[PackDraft])
           /\ disk[PackDraft].closure.pack # Nothing => disk[PackDraft].closure.pack = pointer
  <2>1. PICK d, a : d = start.disk /\ a = start.pointer
    OBVIOUS
  <2>2. d = disk /\ a = pointer /\ owed = disk
    BY <1>1, <2>1
  <2>3. /\ PackSkill \in Skills
        /\ a # Nothing => a.version \in 1..MaxVersion
        /\ d = [place \in Places |-> d[place]]
        /\ \A place \in Places : IsContent(d[place])
        /\ \A s \in Skills :
             /\ IsDirectory(d[Draft(s)]) =>
                  /\ d[Draft(s)].skill < 1
                  /\ d[Draft(s)].closure = Nothing => d[Draft(s)].pack = Nothing
             /\ Verified(d[Slot(s)])
        /\ IsDirectory(d[PackDraft]) /\ Opens(d[PackDraft])
             /\ d[PackDraft].closure.pack # Nothing => d[PackDraft].closure.pack = a
    BY <2>1, StartsAssumption DEF Verified, PackDraft
  <2>4. QED  BY <2>2, <2>3
<1>3. \A p \in Procs : /\ proc[p] = Idle /\ ~Running(p) /\ On(p) = {}
                       /\ proc[p].cmd \notin PackCommands /\ proc[p].cmd # "install"
  BY <1>1, Distinct DEF Running, On, PackCommands
<1>4. Shape /\ Exclusive
  BY <1>1, <1>2, <1>3 DEF Shape, Exclusive, IsCommand
<1>5. TreesInv
  BY <1>2, <1>3 DEF TreesInv
<1>6. SkillsInv
  <2>1. \A place \in DraftPlaces : \E s \in Skills : place = Draft(s)
    BY DEF DraftPlaces, Draft
  <2>2. QED  BY <1>2, <1>3, <2>1 DEF SkillsInv, KnownIn
<1>7. BoundInv
  <2>1. Good(disk[PackDraft], unbound, pointer)
    BY <1>2 DEF Good, PackDraft
  <2>2. QED  BY <1>1, <1>3, <2>1 DEF BoundInv
<1>8. SlotsInv
  <2>1. \A place \in SlotPlaces : \E s \in Skills : place = Slot(s)
    BY DEF SlotPlaces, Slot
  <2>2. QED  BY <1>2, <1>3, <2>1 DEF SlotsInv
<1>9. PacksInv
  <2>1. PICK a : a = pointer
    OBVIOUS
  <2>2. /\ releases = [v \in 1..MaxVersion |-> IF a # Nothing /\ a.version = v THEN a ELSE Nothing]
        /\ kept = (IF a = Nothing THEN {} ELSE {a}) /\ lost = {} /\ moves = 0
        /\ a # Nothing => a.version \in 1..MaxVersion
    BY <1>1, <1>2, <2>1
  <2>3. \A r \in kept \ lost : Covers(a, r)
    BY <2>2, CoversAll
  <2>4. a # Nothing => releases[a.version] = a
    BY <2>2
  <2>5. /\ releases = [v \in 1..MaxVersion |-> releases[v]]
        /\ \A v \in 1..MaxVersion : releases[v] # Nothing => releases[v].version = v
    BY <2>2
  <2>6. QED  BY <1>3, <2>1, <2>2, <2>3, <2>4, <2>5 DEF PacksInv, StoredAs
<1>10. QED  BY <1>4, <1>5, <1>6, <1>7, <1>8, <1>9 DEF Inv

\* Every step of the system keeps the invariant.
LEMMA NextKeeps == Inv /\ [Next]_vars => Inv'
<1> SUFFICES ASSUME Inv, [Next]_vars  PROVE Inv'
  OBVIOUS
<1>1. PackSkill \in Skills /\ Seed # Nothing
  BY StartsAssumption
<1>2. ASSUME NEW p \in Procs, BuildStep(p) \/ MigrateStep(p), UNCHANGED <<mixed, packVars>>
      PROVE  Inv'
  <2>1. \/ Starting(p) \/ BuildActs(p) \/ MigrateActs(p)
    BY <1>2 DEF BuildStep, MigrateStep, Starting, BuildActs, MigrateActs
  <2>2. QED  BY <1>1, <1>2, <2>1, StartsKeep, BuildKeeps, MigrateKeeps
<1>3. ASSUME NEW p \in Procs, InstallStep(p), UNCHANGED packVars
      PROVE  Inv'
  <2>1. \/ Starting(p) /\ UNCHANGED mixed
        \/ InstallActs(p) \/ RemoveSlot(p)
    BY <1>3 DEF InstallStep, Starting, InstallActs, InstallBegin, UninstallBegin
  <2>2. QED  BY <1>1, <1>3, <2>1, StartsKeep, SlotStepsKeep
<1>4. ASSUME NEW p \in Procs, PackStep(p), UNCHANGED mixed
      PROVE  Inv'
  <2>1. PublishBegin(p) \/ RollBackBegin(p) \/ PackActs(p)
    BY <1>4 DEF PackStep, PackActs
  <2>2. PublishBegin(p) \/ RollBackBegin(p) => Starting(p)
    BY DEF Starting
  <2>3. QED  BY <1>1, <1>4, <2>1, <2>2, StartsKeep, PackKeeps
<1>5. ASSUME NEW p \in Procs, Crash(p), UNCHANGED <<mixed, packVars>>
      PROVE  Inv'
  BY <1>1, <1>5, CrashKeeps
<1>6. CASE UNCHANGED vars
  <2>1. UNCHANGED <<disk, saved, proc, owed, contested, died, adrift, mixed, releases, pointer,
                    kept, lost, overwritten, moves, unbound>>
    BY <1>6 DEF vars, rootVars, packVars
  <2>2. Shape' /\ Exclusive'
    BY <2>1 DEF Inv, Shape, Exclusive, On, Running
  <2>3. TreesInv' /\ SkillsInv'
    BY <2>1 DEF Inv, TreesInv, SkillsInv, On, Running
  <2>4. BoundInv' /\ SlotsInv'
    BY <2>1 DEF Inv, BoundInv, SlotsInv, On, Running
  <2>5. PacksInv'
    BY <2>1 DEF Inv, PacksInv, PackKnows, StoredAs
  <2>6. QED  BY <2>2, <2>3, <2>4, <2>5 DEF Inv
<1>7. QED  BY <1>2, <1>3, <1>4, <1>5, <1>6 DEF Next

-----------------------------------------------------------------------------
(* The theorems.                                                               *)

\* Whatever commands run together, fail or die, the state is one the invariant
\* describes: what each command notes, what its places hold, and what the store,
\* the pointer and the Closure say of one another.
THEOREM InvHolds == Spec => []Inv
<1>1. QED  BY InitInv, NextKeeps, PTL DEF Spec

\* A place no command works at holds what the last command there has promised, for
\* any number of commands, faults and crashes (build.py, migration.py, hosts/base.py,
\* pack_incremental.py).
THEOREM TreesSettledHolds == Spec => []TreesSettled
<1>1. Inv => TreesSettled
  <2> SUFFICES ASSUME Inv, NEW place \in Places, Settled(place)
               PROVE  /\ disk[place] = owed[place]
                      /\ place[1] = "draft" /\ IsDirectory(disk[place])
                           => disk[place].skill < 1 \/ disk[place].skill \in saved \cup died
    BY DEF TreesSettled
  <2>1. \A p \in Procs : place \notin On(p)
    BY DEF Settled, Writers, On
  <2>2. disk[place] = owed[place]
    BY <2>1 DEF Inv, TreesInv, Settled
  <2>3. ASSUME place[1] = "draft"  PROVE place \in DraftPlaces
    BY <2>3 DEF Places, DraftPlaces
  <2>4. place[1] = "draft" => KnownIn(disk[place], saved \cup died)
    BY <2>1, <2>3 DEF Inv, SkillsInv, Settled
  <2>5. QED  BY <2>2, <2>4 DEF KnownIn
<1>2. QED  BY <1>1, InvHolds, PTL

\* A Skill in a host has passed the gate as it is (hosts/base.py).
THEOREM InstalledVerifiedHolds == Spec => []InstalledVerified
<1>1. Inv => InstalledVerified
  <2>1. \A s \in Skills : Slot(s) \in SlotPlaces
    BY DEF Slot, SlotPlaces
  <2>2. QED  BY <2>1 DEF Inv, SlotsInv, Verified, InstalledVerified
<1>2. QED  BY <1>1, InvHolds, PTL

\* The Pack that a production Closure pins is the active one (pack_incremental.py,
\* pack_closure.py).
THEOREM BoundTogetherHolds == Spec => []BoundTogether
<1>1. Inv => BoundTogether
  BY DEF Inv, BoundInv, Good, BoundTogether
<1>2. QED  BY <1>1, InvHolds, PTL

\* The active release is stored as the pointer names it, and has everything of each
\* release that was made active and not rolled back (pack_store.py).
THEOREM PacksKeptHolds == Spec => []PacksKept
<1>1. Inv => PacksKept
  BY DEF Inv, PacksInv, StoredAs, PacksKept, ActiveLoads
<1>2. QED  BY <1>1, InvHolds, PTL
=============================================================================
