--------------------------- MODULE RuntimeProducts ---------------------------
(* Skill directories and what makes one installable: the Runtime Closure that *)
(* pins its files, the product descriptor that pins the Closure, and the      *)
(* checks made on both (runtime/closure.py, emission.py, product_manifest.py, *)
(* profiles.py, pack_closure.py and the audit of migration.py).               *)
(*                                                                            *)
(* A directory is a record [skill, ledger, pack, closure, product]: skill     *)
(* stands for SKILL.md and everything built with it, ledger says whether      *)
(* provenance.yml and references/provenance.md name its sources, pack is the  *)
(* release in assets/pack-release.json.  A Closure stands for its own hash.   *)
EXTENDS AssetPacks

\* Nothing: no such file or directory.  Torn: a manifest cut off in the middle.
Nothing == [nothing |-> TRUE]
Torn == [torn |-> TRUE]

\* A record with these fields, whatever their values are; and the descriptors as
\* they are found on disk.
Fields(r, names) == DOMAIN r = names /\ r = [name \in names |-> r[name]]
IsClosure(c) == c \in {Nothing, Torn} \/ Fields(c, {"life", "skill", "pack", "caps"})
IsProduct(d) == d \in {Nothing, Torn} \/ Fields(d, {"needs", "closure"})

Requirements == [deps : SUBSET {"core"}, caps : SUBSET {"host"}]
NoRequirements == [deps |-> {}, caps |-> {}]

Directory(skill, ledger) ==
  [skill |-> skill, ledger |-> ledger, pack |-> Nothing,
   closure |-> Nothing, product |-> Nothing]

\* The emitter pins every file present, the Pack resource included, and writes
\* the product descriptor over the Closure it computed.
ClosureFor(dir, life, caps) ==
  [life |-> life, skill |-> dir.skill, pack |-> dir.pack, caps |-> caps]

MayEmit(dir) == dir.ledger

Emitted(dir, life, needs) ==
  LET closure == ClosureFor(dir, life, needs.caps)
  IN [dir EXCEPT !.closure = closure,
                 !.product = [needs |-> needs, closure |-> closure]]

-----------------------------------------------------------------------------
(* Opening a Closure: it must be whole, in production, and every pinned file  *)
(* must be there with the content it was pinned with.  The session passes no  *)
(* host capabilities, so a Closure that requires one does not open.           *)

IsWhole(closure) == closure # Nothing /\ closure # Torn

PinsHold(dir) ==
  /\ dir.closure.skill = dir.skill
  /\ dir.closure.pack # Nothing => dir.closure.pack = dir.pack

ValidClosure(dir, available) ==
  /\ dir.closure.life = "production"
  /\ PinsHold(dir)
  /\ dir.closure.caps \subseteq available

Opens(dir) == dir # Nothing /\ IsWhole(dir.closure) /\ ValidClosure(dir, {})

\* What the host must have before a product is looked at any further.
InstallableOn(product, host) ==
  product.needs.deps \subseteq host.deps /\ product.needs.caps \subseteq host.caps

\* The checks of install_runtime_product, in its order.
PassesGate(dir, host) ==
  /\ IsWhole(dir.product)
  /\ InstallableOn(dir.product, host)
  /\ Opens(dir)
  /\ dir.product.closure = dir.closure
  /\ dir.product.needs.caps = dir.closure.caps

\* Mutant: the descriptor alone is checked.
DescriptorIsEnough(dir, host) ==
  dir # Nothing /\ (dir.product # Nothing => InstallableOn(dir.product, host))

\* A directory without a descriptor is installed unchecked.
MayInstall(dir, host) ==
  dir # Nothing /\ (dir.product # Nothing => PassesGate(dir, host))

-----------------------------------------------------------------------------
(* Binding a release to a Closure.                                            *)

HasProvenance(release) == \E k \in DOMAIN release.assets : release.assets[k].refs # {}

\* The pinned file may belong to another version, never to this one with other
\* content.
PackFileAgrees(dir, release) ==
  \/ dir.pack = Nothing
  \/ dir.pack.version # release.version
  \/ dir.pack = release

MayBind(dir, release) ==
  /\ HasProvenance(release)
  /\ Opens(dir)
  /\ IsWhole(dir.product)
  /\ PackFileAgrees(dir, release)

Rebound(closure, release) == [closure EXCEPT !.pack = release]

-----------------------------------------------------------------------------
(* The audit of a directory before migration.                                 *)

Disposition(dir) ==
  CASE dir.closure = Nothing -> "legacy-unclosed"
    [] dir.closure # Nothing /\ Opens(dir) -> "closure-ready"
    [] OTHER -> "blocked"

\* A migrated directory: the same content, closed for production.
Migrated(dir) == Emitted(dir, "production", NoRequirements)
=============================================================================
