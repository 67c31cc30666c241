----------------------------- MODULE SkillRoots -----------------------------
(* What the commands that write Skill directories share: the directories, the *)
(* processes that run one command at a time, and the failures that may befall *)
(* them.  Each Skill has a draft directory (output/skills/<name>) and a slot  *)
(* in a host.  No lock guards either.                                         *)
EXTENDS RuntimeProducts

CONSTANTS Skills,        \* the Skills, by name
          Procs,         \* processes of the command line or of the API
          MaxCommands,   \* bound: commands started
          MaxFaults,     \* bound: file operations that fail
          MaxCrashes     \* bound: processes that die in the middle

ASSUME RootsAssumption ==
  MaxCommands \in Nat /\ MaxFaults \in Nat /\ MaxCrashes \in Nat

VARIABLES
  disk,      \* what each place holds: a directory, Nothing, Torn or Empty
  saved,     \* builds whose units are in the Schema layer
  proc,      \* the command each process runs, and where it is in it
  left, faults, crashes,   \* what remains of the bounds
  owed,      \* history: what the last command at a place has promised of it
  contested, \* history: places that had two writers at once
  died,      \* history: builds whose process died, by their content
  adrift     \* history: places a command died or gave up on (see Exposed)

rootVars == <<disk, saved, proc, left, faults, crashes, owed, contested, died, adrift>>

Draft(s) == <<"draft", s>>
Slot(s) == <<"slot", s>>
Places == {"draft", "slot"} \X Skills

\* A directory without files, made by copying a source that is gone.
Empty == [empty |-> TRUE]
IsDirectory(d) == d \notin {Nothing, Torn, Empty}
IsContent(d) ==
  IsDirectory(d) => /\ Fields(d, {"skill", "ledger", "pack", "closure", "product"})
                    /\ IsClosure(d.closure) /\ IsProduct(d.product)

Idle == [cmd |-> "idle"]
Running(p) == proc[p] # Idle
At(p, cmd, pc) == proc[p].cmd = cmd /\ proc[p].pc = pc
Writers(place) == {p \in Procs : Running(p) /\ place \in proc[p].on}

PackCommands == {"publish", "rollback"}

\* The steps between which a process that dies leaves its place neither as it
\* was found nor as the command leaves it: nothing on disk says so.
Exposed(p) ==
  \/ proc[p].pc \in {"in", "back", "save", "unsave", "replace", "bundle", "copy",
                     "undo", "next", "revert", "return", "manifest", "product"}
  \/ /\ proc[p].cmd \in PackCommands
     /\ proc[p].phase = "undo" \/ (proc[p].phase = "forward" /\ proc[p].pc = "bind")

Expose(places) == adrift' = adrift \cup places

\* A command starts, and takes what it finds as given.  Where another command
\* is under way no lock stops it.
Begin(p, command) ==
  LET alone == {place \in command.on : Writers(place) = {}}
  IN /\ proc[p] = Idle /\ left > 0
     /\ left' = left - 1
     /\ proc' = [proc EXCEPT ![p] = command]
     /\ owed' = [place \in Places |->
                   IF place \in alone THEN disk[place] ELSE owed[place]]
     /\ adrift' = adrift \ alone
     /\ contested' = contested \cup (command.on \ alone)
     /\ UNCHANGED <<disk, saved, faults, died, crashes>>

Continue(p, pc) == proc' = [proc EXCEPT ![p].pc = pc]

\* The command ends and reports success, having left `result' at its places.
Succeeds(p, result) ==
  /\ proc' = [proc EXCEPT ![p] = Idle]
  /\ owed' = [place \in Places |->
                IF place \in proc[p].on THEN result[place] ELSE owed[place]]
  /\ UNCHANGED <<left, contested, died, crashes, adrift>>

\* The command ends with an error that says everything is as it was.
Fails(p) ==
  /\ proc' = [proc EXCEPT ![p] = Idle]
  /\ UNCHANGED <<left, contested, died, crashes, owed>>

\* A file operation works, or does not.
Works == UNCHANGED faults
Breaks == faults > 0 /\ faults' = faults - 1
FailsIf(condition) == (condition /\ Works) \/ Breaks

Put(place, d) == disk' = [disk EXCEPT ![place] = d]
Stay == UNCHANGED <<left, contested, died, crashes, owed, adrift>>

\* The process dies.
Crash(p) ==
  /\ Running(p) /\ crashes > 0
  /\ crashes' = crashes - 1
  /\ proc' = [proc EXCEPT ![p] = Idle]
  /\ Expose(IF Exposed(p) THEN proc[p].on ELSE {})
  /\ died' = died \cup (IF proc[p].cmd = "build" THEN {proc[p].dir.skill} ELSE {})
  /\ UNCHANGED <<disk, saved, left, contested, faults, owed>>
=============================================================================
