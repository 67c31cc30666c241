----------------------------- MODULE UnitMerge -----------------------------
(***************************************************************************)
(* Knowledge units and how an update folds a new analysis into them: the   *)
(* views of the append-only records, clusters and conflicts, the           *)
(* comparison of two collections and the three-way merge with the edits of *)
(* a human.                                                                *)
(*                                                                         *)
(* A unit is a record [id, version, supersedes, f], f its compared fields; *)
(* f.content is a set of words and a negation mark.  The Schema file is a  *)
(* sequence of units, a view a set with one unit of an id.  An edit is a   *)
(* record [oid, unit, patch, at, superseded], its patch a record of one    *)
(* field.                                                                  *)
(***************************************************************************)
EXTENDS Integers, FiniteSets, SequencesExt

Fields == {"kind", "content", "conditions", "status"}
TextLists == {"conditions"}             \* lists of strings, whose order says nothing
Editable == Fields \ {"kind"}
Inactive == {"superseded", "rejected"}
Statuses == Inactive \cup {"candidate", "reviewed", "approved"}

-----------------------------------------------------------------------------
(* The views of the records.                                               *)

\* The first record of the highest version of every unit.
Current(records) ==
  {records[i] : i \in {i \in DOMAIN records :
     \A j \in DOMAIN records : records[i].id = records[j].id =>
        records[j].version < records[i].version
        \/ (records[j].version = records[i].version /\ i <= j)}}

Active(records) == {r \in Current(records) : r.f.status \notin Inactive}

IdsOf(units) == {u.id : u \in units}
UnitOf(units, id) == CHOOSE u \in units : u.id = id

Supersession(old, new) ==
  [new EXCEPT !.id = old.id, !.version = old.version + 1, !.supersedes = {old.id}]

-----------------------------------------------------------------------------
(* Clusters and conflicts.                                                 *)

\* The share of words two contents have in common, at least a / b.
Overlap(a, b, x, y) ==
  /\ x \cup y # {}
  /\ b * Cardinality(x \cap y) >= a * Cardinality(x \cup y)

Words(u) == u.f.content.words
Negated(u) == u.f.content.negated

\* One pass over the units: a unit that no earlier leader takes leads a cluster.
Takes(u, v) == u.f.kind = v.f.kind /\ Overlap(1, 2, Words(u), Words(v))

Leads(units) ==
  LET leads[i \in 1..Len(units)] ==
        \A j \in 1..(i - 1) : leads[j] => ~Takes(units[j], units[i])
  IN  leads

ClusterUnits(units) ==
  LET first(i) == CHOOSE j \in 1..i :
                    /\ Leads(units)[j] /\ (j = i \/ Takes(units[j], units[i]))
                    /\ \A k \in 1..(j - 1) : ~(Leads(units)[k] /\ Takes(units[k], units[i]))
  IN  {{i \in 1..Len(units) : first(i) = j} : j \in {j \in 1..Len(units) : Leads(units)[j]}}

ConflictPair(u, v) ==
  \/ /\ {u.f.kind, v.f.kind} = {"principle", "anti_pattern"}
     /\ Overlap(34, 100, Words(u), Words(v))
  \/ /\ u.f.kind = "principle" /\ v.f.kind = "principle"
     /\ Words(u) # Words(v) /\ Words(u) \cap Words(v) # {}
     /\ Negated(u) \/ Negated(v)

\* The pairs that the inverted index of words offers.
Bucket(u) ==
  CASE u.f.kind = "anti_pattern" -> "anti"
    [] u.f.kind = "principle" -> IF Negated(u) THEN "negated" ELSE "principle"
    [] OTHER -> "none"

CandidatePair(u, v) ==
  /\ Words(u) \cap Words(v) # {}
  /\ \/ {Bucket(u), Bucket(v)} \in {{"anti", "principle"}, {"anti", "negated"}}
     \/ {Bucket(u), Bucket(v)} \in {{"negated"}, {"negated", "principle"}}

DetectConflicts(units) ==
  {pair \in SUBSET IdsOf(units) :
     \E u, v \in units : /\ u.id # v.id /\ pair = {u.id, v.id}
                         /\ CandidatePair(u, v) /\ ConflictPair(u, v)}

-----------------------------------------------------------------------------
(* What an analysis offers, and the comparison of two collections.         *)

\* Any status a bundle may carry that is not one of the model's is a candidate,
\* an unknown kind is a technique.
FromCandidate(c) ==
  [c EXCEPT !.f.kind = IF @ \in {"principle", "anti_pattern"} THEN @ ELSE "technique",
            !.f.status = IF @ \in Statuses THEN @ ELSE "candidate"]

\* Mutant: the status of the analysis is compared as it is.
SettledNot(units, old) == units

\* A provisional status is no drift of a unit that is known.
Settled(units, old) ==
  {IF u.f.status = "candidate" /\ u.id \in IdsOf(old)
   THEN [u EXCEPT !.f.status = UnitOf(old, u.id).f.status] ELSE u : u \in units}

ChangedFields(old, new) == {k \in Fields : old.f[k] # new.f[k]}

\* Of two views.  The conflicts are looked for among the old units and the added.
Diff(old, new, removals) ==
  LET both == IdsOf(old) \cap IdsOf(new)
      drifted == {id \in both : ChangedFields(UnitOf(old, id), UnitOf(new, id)) # {}}
      gone == {u \in old : u.id \notin IdsOf(new)}
  IN  [added |-> {u \in new : u.id \notin IdsOf(old)},
       modified |-> drifted,
       removed |-> IF removals THEN gone ELSE {},
       unchanged |-> {u \in new : u.id \in both \ drifted} \cup (IF removals THEN {} ELSE gone),
       conflicts |-> DetectConflicts(old \cup {u \in new : u.id \notin IdsOf(old)})]

HasChanges(diff) ==
  diff.added # {} \/ diff.modified # {} \/ diff.removed # {} \/ diff.conflicts # {}

\* A side of `book2skill diff`: a bundle file, or else a collection of a data home.
Resolvable(side) ==
  IF side.file # {} THEN \A bundle \in side.file : bundle # {}
  ELSE side.home /\ side.records # <<>>

SideUnits(side) ==
  IF side.file # {} THEN UNION {{FromCandidate(c) : c \in bundle} : bundle \in side.file}
  ELSE Current(side.records)

-----------------------------------------------------------------------------
(* The edits of a human.                                                   *)

FieldOf(o) == CHOOSE k \in DOMAIN o.patch : TRUE
ValueOf(o) == o.patch[FieldOf(o)]

ValidPatch(patch) ==
  /\ DOMAIN patch \subseteq Editable
  /\ "content" \in DOMAIN patch => patch.content.words # {}
  /\ "status" \in DOMAIN patch => patch.status \in Statuses

\* The last edit of each field that no record withdraws, of a log in time order.
Withdrawn(log) == {o.oid : o \in {e \in Range(log) : e.superseded}}
ActiveEdits(log) ==
  LET live == {i \in DOMAIN log : log[i].oid \notin Withdrawn(log)}
      same(i, j) == log[i].unit = log[j].unit /\ FieldOf(log[i]) = FieldOf(log[j])
  IN  {log[i] : i \in {i \in live : \A j \in live : 
                         same(i, j) => log[j].at < log[i].at
                                       \/ (log[j].at = log[i].at /\ i <= j)}}

-----------------------------------------------------------------------------
(* The three-way merge.                                                    *)

SameValue(field, a, b) == IF field \in TextLists THEN Range(a) = Range(b) ELSE a = b

\* Mutant: a field the analysis left as it was is skipped.
MergedFieldSkipsUnchanged(field, base, new, edits) ==
  IF edits = {} \/ new = base THEN new
  ELSE LET ours == ValueOf(CHOOSE o \in edits : TRUE)
       IN  IF SameValue(field, base, ours) THEN new ELSE ours

\* One field: the values of the record, the analysis and the edits (one or none).
MergedField(field, base, new, edits) ==
  IF edits = {} THEN new
  ELSE LET ours == ValueOf(CHOOSE o \in edits : TRUE)
       IN  IF SameValue(field, base, ours) THEN new ELSE ours

BothChanged(field, base, new, ours) ==
  /\ ~SameValue(field, base, ours)
  /\ ~SameValue(field, ours, new)
  /\ ~SameValue(field, base, new)

EditsOf(edits, id, field) == {o \in edits : o.unit = id /\ FieldOf(o) = field}

MergedUnit(base, new, edits) ==
  [base EXCEPT !.f = [k \in Fields |->
     MergedField(k, base.f[k], new.f[k], EditsOf(edits, base.id, k))]]

\* The edits whose value the generator contradicts.
Contradicted(base, new, edits) ==
  {o \in edits :
     /\ o.unit = base.id
     /\ BothChanged(FieldOf(o), base.f[FieldOf(o)], new.f[FieldOf(o)], ValueOf(o))}

MergeWithOverrides(base, new, edits, removals) ==
  LET both == IdsOf(base) \cap IdsOf(new)
      kept == both \cup (IF removals THEN {} ELSE IdsOf(base))
      theirs(id) == IF id \in both THEN UnitOf(new, id) ELSE UnitOf(base, id)
      added == {u \in new : u.id \notin IdsOf(base)}
      lone == IdsOf(added) \cup (IF removals THEN IdsOf(base) \ both ELSE {})
  IN  [merged |-> {MergedUnit(UnitOf(base, id), theirs(id), edits) : id \in kept} \cup added,
       applied |-> {o \in edits : o.unit \in kept},
       preserved |-> {o \in edits : o.unit \in lone},
       conflicts |-> UNION {Contradicted(UnitOf(base, id), theirs(id), edits) : id \in kept}]

-----------------------------------------------------------------------------
(* What an update makes of them.                                           *)

\* What the update suggests for the records of a collection, from a bundle.
Plan(records, bundle, edits, removals) ==
  LET old == Active(records)
      new == Settled({FromCandidate(c) : c \in bundle}, old)
  IN  [diff |-> Diff(old, new, removals), old |-> old,
       merge |-> MergeWithOverrides(old, new, edits, removals)]

MayPlan(records, bundle) == Active(records) # {} /\ bundle # {}

\* A confirmation approves what changed.
Approved(plan) ==
  {IF u.id \in IdsOf(plan.diff.added) \cup plan.diff.modified
      /\ u.f.status \in {"candidate", "reviewed"}
   THEN [u EXCEPT !.f.status = "approved"] ELSE u : u \in plan.merge.merged}

\* The records a confirmed update appends.
PendingRecords(plan, units) ==
  {u \in units : u.id \in IdsOf(plan.diff.added)}
  \cup {Supersession(UnitOf(plan.old, u.id), u) :
          u \in {v \in units : v.id \in plan.diff.modified}}
  \cup {Supersession(u, [u EXCEPT !.f.status = "superseded"]) : u \in plan.diff.removed}

\* What the publisher refuses.
EnsurePublishable(units, unresolved) ==
  /\ units # {}
  /\ \A u, v \in units : u.id = v.id => u = v
  /\ \A u \in units : u.f.status = "approved"
  /\ ~unresolved

\* Mutant: the edits of units that would go are not looked at.
MayConfirmAnyEdit(plan, partial, review) ==
  ~(partial /\ plan.diff.removed # {}) /\ review = {}

MayConfirm(plan, partial, review) ==
  /\ ~(partial /\ plan.diff.removed # {})
  /\ review = {}
  /\ plan.merge.preserved = {}

Unresolved(plan, open) ==
  open # {} \/ plan.diff.conflicts # {} \/ plan.merge.conflicts # {}

\* The batch goes to the end of the file as it is.
Appended(records, pending) == records \o SetToSeq(pending)
=============================================================================
