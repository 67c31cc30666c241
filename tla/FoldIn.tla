------------------------------- MODULE FoldIn -------------------------------
(***************************************************************************)
(* The updates of one Skill over time: `book2skill update --confirm` with  *)
(* one analysis after another, adding to the sources or replacing them,    *)
(* while a human edits fields of units and withdraws the edits.            *)
(*                                                                         *)
(* An update is one step: what may fail inside it is SkillUpdate's.  The   *)
(* Schema file, the override log and the published units are the state;    *)
(* the rest records what the properties speak about.                       *)
(***************************************************************************)
EXTENDS UnitMerge

CONSTANTS Built,        \* the units of the build, as an analysis offers them
          Analyses,     \* what an update may find: sets of candidates
          Edits,        \* what a human may write: records [unit, patch]
          MaxUpdates,   \* bound: confirmed updates that publish
          MaxEdits      \* bound: lines of the override log

IsUnit(u) ==
  /\ u = [id |-> u.id, version |-> u.version, supersedes |-> u.supersedes, f |-> u.f]
  /\ u.f = [k \in Fields |-> u.f[k]]
  /\ u.version \in Nat

\* What an analysis offers is finite, and each unit of it has an id of its own.
IsAnalysis(units) ==
  /\ IsFiniteSet(units) /\ \A u \in units : IsUnit(u)
  /\ \A u, v \in units : u.id = v.id => u = v

\* An edit writes a field.
ASSUME FoldInAssumption ==
  /\ IsAnalysis(Built) /\ Built # {}
  /\ \A bundle \in Analyses : IsAnalysis(bundle)
  /\ \A e \in Edits : DOMAIN e.patch # {}
  /\ MaxUpdates \in Nat /\ MaxEdits \in Nat

VARIABLES
  records,   \* schema/<collection>/units.jsonl
  log,       \* schema/<collection>/overrides.jsonl
  skill,     \* the units the published Skill was compiled from
  last,      \* the last confirmed update, until the log changes: {[bundle, removals]}
  updates,   \* how many updates have published
  applied,   \* the edits that the last published update reported as applied
  absorbed,  \* of these the ones it found in the record it merged into
  revived    \* units that came back after an update had deprecated them

vars == <<records, log, skill, last, updates, applied, absorbed, revived>>

FromBuild(c) == [FromCandidate(c) EXCEPT !.f.status = "approved"]

Init ==
  /\ skill = {FromBuild(c) : c \in Built}
  /\ records = SetToSeq(skill)
  /\ log = <<>>
  /\ last = {}
  /\ updates = 0
  /\ applied = {} /\ absorbed = {} /\ revived = {}

-----------------------------------------------------------------------------
(* The override log.                                                       *)

\* OverrideStorage.save_override: only a value of the right type is appended.
SaveOverride(e) ==
  /\ Len(log) < MaxEdits
  /\ ValidPatch(e.patch)
  /\ log' = Append(log, [oid |-> Len(log) + 1, unit |-> e.unit, patch |-> e.patch,
                         at |-> Len(log) + 1, superseded |-> FALSE])
  /\ last' = {}
  /\ UNCHANGED <<records, skill, updates, applied, absorbed, revived>>

\* OverrideStorage.supersede_override appends the first record of that id again.
SupersedeOverride(oid) ==
  /\ Len(log) < MaxEdits
  /\ \E i \in DOMAIN log :
       /\ log[i].oid = oid /\ \A j \in 1..(i - 1) : log[j].oid # oid
       /\ log' = Append(log, [log[i] EXCEPT !.superseded = TRUE])
  /\ last' = {}
  /\ UNCHANGED <<records, skill, updates, applied, absorbed, revived>>

-----------------------------------------------------------------------------
(* UpdateUseCase.execute with confirm.                                     *)

ActiveLog == ActiveEdits(log)

Holds(u, o) == SameValue(FieldOf(o), u.f[FieldOf(o)], ValueOf(o))

\* The edits whose value is in the record already when the merge reads it.
Absorbed(plan) ==
  {o \in plan.merge.applied : \E u \in plan.old : u.id = o.unit /\ Holds(u, o)}

OidsOf(edits) == {o.oid : o \in edits}

Confirmed(bundle, removals, partial) ==
  LET plan == Plan(records, bundle, ActiveLog, removals)
      units == Approved(plan)
  IN  /\ MayPlan(records, bundle)
      /\ MayConfirm(plan, partial, {})
      /\ IF HasChanges(plan.diff)
         THEN /\ updates < MaxUpdates
              /\ EnsurePublishable(units, Unresolved(plan, {}))
              /\ skill' = units
              /\ records' = Appended(records, PendingRecords(plan, units))
              /\ updates' = updates + 1
              /\ applied' = OidsOf(plan.merge.applied)
              /\ absorbed' = OidsOf(Absorbed(plan))
              /\ revived' = revived \cup {u.id : u \in {u \in plan.diff.added :
                                            \E i \in DOMAIN records : records[i].id = u.id}}
         ELSE UNCHANGED <<skill, records, updates, applied, absorbed, revived>>
      /\ last' = {[bundle |-> bundle, removals |-> removals]}
      /\ UNCHANGED log

Next ==
  \/ \E e \in Edits : SaveOverride(e)
  \/ \E oid \in 1..MaxEdits : SupersedeOverride(oid)
  \/ \E bundle \in Analyses, removals, partial \in BOOLEAN :
       Confirmed(bundle, removals, partial)

Spec == Init /\ [][Next]_vars

-----------------------------------------------------------------------------
(* Properties.                                                             *)

\* A status that the confirmation of an update turns into "approved": the human has
\* confirmed the unit that the edit held back.
Provisional(o) == FieldOf(o) = "status" /\ ValueOf(o) \in {"candidate", "reviewed"}

\* diff.py:6-8: "preserving human edits while pulling in generator changes that do
\* not conflict".  An active edit that a published update reported as applied is
\* what the published unit holds.
HumanEditKept ==
  \A o \in ActiveLog : o.oid \in applied /\ ~Provisional(o)
    => \A u \in skill : u.id = o.unit => Holds(u, o)

\* So it is unless the update found the value of the edit in the record, where an
\* earlier one has put it: that record is the base of the merge, and the edit is
\* taken for no edit.
EditsKept ==
  \A o \in ActiveLog : o.oid \in applied \ absorbed /\ ~Provisional(o)
    => \A u \in skill : u.id = o.unit => Holds(u, o)

\* A published unit leaves the Skill only by an update that replaces the sources,
\* and never while a human's edit of it is active.  A unit that came back after it
\* was deprecated is no longer safe: its record is older than the deprecation.
UnitsKept ==
  [][\A id \in (IdsOf(skill) \ IdsOf(skill')) \ revived :
       /\ \A update \in last' : update.removals
       /\ \A o \in ActiveLog : o.unit # id]_vars

\* The same update over again finds no drift, as long as no edit is written in
\* between, no record holds the value of an edit, no deprecated unit came back, and
\* the analysis calls no unit reviewed: only "candidate" is taken for provisional.
RepeatChangesNothing ==
  \A update \in last :
    /\ revived = {}
    /\ \A c \in update.bundle : c.f.status # "reviewed"
    /\ \A o \in ActiveLog, u \in Active(records) : u.id = o.unit => ~Holds(u, o)
    => LET again == Plan(records, update.bundle, ActiveLog, update.removals).diff
       IN  again.added = {} /\ again.modified = {} /\ again.removed = {}
=============================================================================
