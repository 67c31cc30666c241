----------------------------- MODULE AssetPacks -----------------------------
(* The pure part of Asset Packs: a candidate batch of assets, its review, the *)
(* governance of several books against one Pack, the merge into a release     *)
(* (runtime/pack_update.py, runtime/multi_book.py) and the projection of an   *)
(* analysis into candidate assets (application/pack_incremental.py).          *)
(*                                                                            *)
(* An asset is a record [id, key, hash, scope, refs]; a release is            *)
(* [version, prev, kernel, assets] with assets a function from canonical key  *)
(* to [hash, scope, refs].  A release stands for its own hash: two releases   *)
(* have the same hash exactly when they are equal.                            *)
EXTENDS Integers, Sequences, FiniteSets, SequencesExt

Stages == {"candidate", "review", "approved", "rejected"}
Dispositions == {"add", "merge", "coexist_review", "conflict_review"}

CreateCandidate(base, assets) ==
  [base |-> base.version, kernel |-> base.kernel, assets |-> assets,
   stage |-> "candidate", approvals |-> {}]

AssetIds(assets) == {assets[i].id : i \in DOMAIN assets}

\* Every asset needs a decision of its own; approvals are the ids approved.
Reviewed(candidate, decided, approvals) ==
  IF decided # AssetIds(candidate.assets) THEN candidate
  ELSE [candidate EXCEPT !.stage = "review", !.approvals = approvals]

Approved(candidate) ==
  IF candidate.stage # "review" THEN candidate
  ELSE [candidate EXCEPT !.stage =
          IF AssetIds(candidate.assets) \subseteq candidate.approvals
          THEN "approved" ELSE "rejected"]

\* A candidate fits the release it was created from and no other.
Compatible(base, candidate) ==
  candidate.base = base.version /\ candidate.kernel = base.kernel

-----------------------------------------------------------------------------
(* Governance: each candidate asset against what is known of its key, earlier *)
(* candidates of the batch included.                                          *)

Observation(asset) == [hash |-> asset.hash, scope |-> asset.scope]

DispositionOf(seen, asset) ==
  CASE seen = << >> -> "add"
    [] \E i \in DOMAIN seen : seen[i].hash = asset.hash -> "merge"
    [] OTHER -> IF Head(seen).scope \cap asset.scope # {}
                THEN "conflict_review" ELSE "coexist_review"

\* A duplicate replaces all observations of its key by the one it matched.
Learned(seen, asset) ==
  IF DispositionOf(seen, asset) # "merge" THEN Append(seen, Observation(asset))
  ELSE LET same == CHOOSE i \in DOMAIN seen :
                     /\ seen[i].hash = asset.hash
                     /\ \A j \in 1..(i - 1) : seen[j].hash # asset.hash
       IN <<[seen[same] EXCEPT !.scope = @ \cup asset.scope]>>

KnownOf(base) ==
  [k \in DOMAIN base.assets |-> <<[hash |-> base.assets[k].hash,
                                   scope |-> base.assets[k].scope]>>]

Compared(plan, asset) ==
  LET seen == IF asset.key \in DOMAIN plan.known
              THEN plan.known[asset.key] ELSE << >>
  IN [known |-> [k \in DOMAIN plan.known \cup {asset.key} |->
                   IF k = asset.key THEN Learned(seen, asset)
                   ELSE plan.known[k]],
      found |-> Append(plan.found, DispositionOf(seen, asset))]

MergePlan(base, assets) ==
  FoldLeft(Compared, [known |-> KnownOf(base), found |-> << >>], assets).found

Publishable(base, candidate) ==
  LET plan == MergePlan(base, candidate.assets)
  IN /\ Compatible(base, candidate)
     /\ candidate.assets # << >>
     /\ \A i \in DOMAIN plan : plan[i] \in {"add", "merge"}

-----------------------------------------------------------------------------
(* Publication: approved assets enter the assets of the base.                 *)

Chosen(candidate) ==
  {i \in DOMAIN candidate.assets : candidate.assets[i].id \in candidate.approvals}

\* What there is under one key: the asset of the base and those approved.
Under(k, base, candidate) ==
  {base.assets[j] : j \in {k} \cap DOMAIN base.assets} \cup
  {candidate.assets[i] : i \in {c \in Chosen(candidate) : candidate.assets[c].key = k}}

MergedKeys(base, candidate) ==
  DOMAIN base.assets \cup {candidate.assets[i].key : i \in Chosen(candidate)}

\* Two assets of one key must have the same content ...
Conflicts(base, candidate) ==
  \E k \in MergedKeys(base, candidate) :
    \E a, b \in Under(k, base, candidate) : a.hash # b.hash

\* ... and become one asset, for all scopes and from all sources of both.
Merged(base, candidate) ==
  [k \in MergedKeys(base, candidate) |->
     LET assets == Under(k, base, candidate)
     IN [hash |-> (CHOOSE a \in assets : TRUE).hash,
         scope |-> UNION {a.scope : a \in assets},
         refs |-> UNION {a.refs : a \in assets}]]

MayPublish(base, candidate, version) ==
  /\ candidate.stage = "approved"
  /\ Compatible(base, candidate)
  /\ version > base.version
  /\ ~Conflicts(base, candidate)

NewRelease(base, candidate, version) ==
  [version |-> version, prev |-> base.version, kernel |-> base.kernel,
   assets |-> Merged(base, candidate)]

MayRollBack(current, target) == current.kernel = target.kernel

\* Everything an earlier release vouches for is in a later one, with the same
\* content and no source forgotten.
Covers(later, earlier) ==
  \A k \in DOMAIN earlier.assets :
    /\ k \in DOMAIN later.assets
    /\ later.assets[k].hash = earlier.assets[k].hash
    /\ earlier.assets[k].refs \subseteq later.assets[k].refs

-----------------------------------------------------------------------------
(* Candidate assets of an analysis: one per unit not rejected or superseded;  *)
(* a unit whose sources are not all covered by a manifest refuses the whole.  *)

Projected(units) ==
  SelectSeq(units, LAMBDA u : u.status \notin {"rejected", "superseded"})

Projectable(units, manifests) ==
  \A i \in DOMAIN Projected(units) :
    LET refs == Projected(units)[i].refs
    IN refs # {} /\ \A ref \in refs : ref \in manifests

AssetsFromAnalysis(units) ==
  LET Asset(u) == [id |-> u.id, key |-> u.key, hash |-> u.hash,
                   scope |-> {"general"}, refs |-> u.refs]
  IN [i \in DOMAIN Projected(units) |-> Asset(Projected(units)[i])]
=============================================================================
