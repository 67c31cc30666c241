------------------------- MODULE ExtensionPackages -------------------------
(***************************************************************************)
(* What the extension lifecycle decides without touching the registry:     *)
(* the order of versions and their ranges (extensions/version.py), the     *)
(* order of an installation (resolver.py), what a package holds and        *)
(* whether it is intact (package.py), and which contributions an extension *)
(* may register (sdk/registrar.py).                                        *)
(*                                                                         *)
(* A version is [nums, pre]: three numbers and the tokens of a prerelease, *)
(* <<"num", n>> or <<"txt", n>>, none for a release.  Build metadata does  *)
(* not count.                                                              *)
(* A path is a sequence of names, a package a sequence of members          *)
(* [path, kind, size, data].                                               *)
(***************************************************************************)
EXTENDS Integers, FiniteSets, SequencesExt, FiniteSetsExt

CONSTANTS
    Fold,        \* of a name: its NFC normal form in one case
    Portable,    \* the names that every supported system takes
    MaxFiles,    \* members of a package: 4096 in the code
    MaxBytes,    \* of one file
    MaxTotal     \* of all files

-----------------------------------------------------------------------------
(* Versions.                                                               *)

Release == << >>   \* no prerelease

\* Whether Python orders a against b: at the first place two prereleases differ
\* they must both be numbers or both texts.
FirstDifference(s, t) ==
    {i \in DOMAIN s \cap DOMAIN t : s[i] # t[i] /\ \A j \in 1..(i - 1) : s[j] = t[j]}

Comparable(a, b) ==
    \/ a.nums # b.nums
    \/ \A i \in FirstDifference(a.pre, b.pre) : a.pre[i][1] = b.pre[i][1]

TupleLess(s, t) ==
    IF FirstDifference(s, t) = {} THEN Len(s) < Len(t)
    ELSE \E i \in FirstDifference(s, t) : s[i] < t[i]

TokensLess(s, t) ==
    TupleLess([i \in DOMAIN s |-> s[i][2]], [i \in DOMAIN t |-> t[i][2]])

\* compare(a, b) < 0.
Less(a, b) ==
    CASE a.nums # b.nums -> TupleLess(a.nums, b.nums)
      [] a.pre = Release \/ b.pre = Release -> a.pre # Release
      [] OTHER -> TokensLess(a.pre, b.pre)

Same(a, b) == a.nums = b.nums /\ a.pre = b.pre

\* A constraint is [op, target], or ["wild", nums] for 1.x (one number) and 1.2.x
\* (two); an operator before a wildcard is dropped.  The answer may be "raises".
Wild(v, nums) ==
    /\ Len(nums) >= 1 => v.nums[1] = nums[1]
    /\ Len(nums) >= 2 => v.nums[2] = nums[2]

WithinMinor(v, t) ==
    \/ v.nums[1] < t.nums[1]
    \/ v.nums[1] = t.nums[1] /\ v.nums[2] < t.nums[2] + 1

Satisfies(v, c) ==
    IF c.op = "wild" THEN Wild(v, c.nums)
    ELSE LET t == c.target
         IN  CASE c.op = "==" -> Same(v, t)
               [] c.op = ">" -> Less(t, v)
               [] c.op = ">=" -> ~Less(v, t)
               [] c.op = "<" -> Less(v, t)
               [] c.op = "<=" -> ~Less(t, v)
               [] c.op = "~=" -> ~Less(v, t) /\ WithinMinor(v, t)

\* A range is a sequence of constraints, and is left at the first that fails.
Judge(v, c) ==
    CASE c.op = "wild" -> IF Satisfies(v, c) THEN "yes" ELSE "no"
      [] ~Comparable(v, c.target) -> "raises"
      [] OTHER -> IF Satisfies(v, c) THEN "yes" ELSE "no"

SatisfiesRange(v, range) ==
    FoldLeft(LAMBDA found, c : IF found = "yes" THEN Judge(v, c) ELSE found, "yes", range)

\* best_match takes the first of the candidates whose three numbers are greatest.
BestMatch(available, range) ==
    LET fits == SelectSeq(available, LAMBDA v : SatisfiesRange(v, range) = "yes")
        best == {i \in DOMAIN fits :
                   /\ \A j \in DOMAIN fits : ~TupleLess(fits[i].nums, fits[j].nums)
                   /\ \A j \in 1..(i - 1) : fits[j].nums # fits[i].nums}
    IN  {fits[i] : i \in best}

-----------------------------------------------------------------------------
(* Dependencies.  A manifest is [version, core, needs]: a range of the      *)
(* Core, and a sequence of [id, range].                                     *)

Unresolved(why) == [err |-> why, order |-> << >>, on |-> {}]

\* _check_dep_version and the check before it: what is being installed hides what is.
Provider(id, news, installed) ==
    IF id \in DOMAIN news THEN news[id].version ELSE installed[id]

Wanted(dep, news, installed) ==
    IF dep.id \notin DOMAIN news \cup DOMAIN installed THEN "not installed"
    ELSE CASE SatisfiesRange(Provider(dep.id, news, installed), dep.range) = "yes" -> ""
           [] SatisfiesRange(Provider(dep.id, news, installed), dep.range) = "no" -> "range"
           [] OTHER -> "raises"

RECURSIVE Visit(_, _, _, _)
Visit(s, id, news, installed) ==
    CASE s.err # "" \/ id \in ToSet(s.order) -> s
      [] id \in s.on -> Unresolved("circular")
      [] OTHER ->
           LET needs == IF id \in DOMAIN news THEN news[id].needs ELSE << >>
               after == FoldLeft(LAMBDA t, dep :
                            IF t.err # "" THEN t
                            ELSE IF Wanted(dep, news, installed) # ""
                            THEN Unresolved(Wanted(dep, news, installed))
                            ELSE Visit(t, dep.id, news, installed),
                          [s EXCEPT !.on = @ \cup {id}], needs)
           IN  IF after.err # "" THEN after
               ELSE [after EXCEPT !.on = @ \ {id}, !.order = Append(@, id)]

\* sorted(by_id): ids are numbers here.
OrderOf(news, installed) ==
    FoldLeft(LAMBDA s, id : Visit(s, id, news, installed), Unresolved(""),
             SetToSortSeq(DOMAIN news, <))

\* install and upgrade resolve the one manifest they are given.
Accepts(core, id, manifest, installed) ==
    /\ SatisfiesRange(core, manifest.core) = "yes"
    /\ OrderOf([i \in {id} |-> manifest], installed).err = ""

MayInstall(core, id, manifest, installed) ==
    id \notin DOMAIN installed /\ Accepts(core, id, manifest, installed)

MayUpgrade(core, id, manifest, installed, force) ==
    /\ id \in DOMAIN installed
    /\ force \/ installed[id] # manifest.version
    /\ Accepts(core, id, manifest, installed)

\* rollback goes to the greatest version other than the active one.
RollbackTarget(versions, active) ==
    {v \in versions \ {active} : \A w \in versions \ {active} : ~Less(v, w)}

\* uninstall asks the active manifests of the others.
MayUninstall(id, manifests) ==
    /\ id \in DOMAIN manifests
    /\ \A other \in DOMAIN manifests \ {id} :
         \A i \in DOMAIN manifests[other].needs : manifests[other].needs[i].id # id

-----------------------------------------------------------------------------
(* Packages.                                                               *)

Manifest == "extension-manifest.json"
Checksums == "checksums.sha256"

\* _normalize_member_path lets relative paths of portable names through.
Normal(path) == path # << >> /\ ToSet(path) \subseteq Portable
PathKey(path) == [i \in DOMAIN path |-> Fold[path[i]]]

Total(members) == MapThenSumSet(LAMBDA i : members[i].size, DOMAIN members)
Files(members) == SelectSeq(members, LAMBDA m : m.kind # "dir")

WithinBudget(members) ==
    /\ Len(members) <= MaxFiles
    /\ \A i \in DOMAIN Files(members) : Files(members)[i].size \in 0..MaxBytes
    /\ Total(Files(members)) <= MaxTotal

\* Members that may be read at all, from a ZIP as from a directory.
Readable(members) ==
    /\ WithinBudget(members)
    /\ \A i \in DOMAIN members :
         /\ Normal(members[i].path)
         /\ members[i].kind # "link"
         /\ members[i].kind = "dir" => members[i].size = 0
         /\ \A j \in 1..(i - 1) : PathKey(members[i].path) # PathKey(members[j].path)

\* The entries: the data of each file by its path.
EntriesOf(files) ==
    [p \in {files[i].path : i \in DOMAIN files} |->
       files[CHOOSE i \in DOMAIN files : files[i].path = p].data]

\* A ZIP may hold everything in one directory, which is taken away.
PathsOf(members) == {members[i].path : i \in DOMAIN members}
ManifestPaths(members) ==
    {p \in PathsOf(Files(members)) : Last(p) = Manifest /\ Len(p) <= 2}
RootOf(members) == Front(CHOOSE p \in ManifestPaths(members) : TRUE)

Inside(m, root) ==
    root = << >> \/ (m.path = root /\ m.kind = "dir") \/ IsStrictPrefix(root, m.path)

\* The entries as a set: none when the package is refused.
ReadZip(members) ==
    IF ~Readable(members) \/ Cardinality(ManifestPaths(members)) # 1 THEN {}
    ELSE LET root == RootOf(members)
             cut(m) == [m EXCEPT !.path = SubSeq(@, 1 + Len(root), Len(@))]
             files == Files(members)
         IN  IF \A i \in DOMAIN members : Inside(members[i], root)
             THEN {EntriesOf([i \in DOMAIN files |-> cut(files[i])])} ELSE {}

ReadDirectory(members) ==
    IF Readable(members) THEN {EntriesOf(Files(members))} ELSE {}

\* checksums.sha256 is a sequence of records [path, digest]; a digest is the data.
Listed(records) == {records[i].path : i \in DOMAIN records}
VerifyChecksums(records, entries) ==
    /\ \A i \in DOMAIN records :
         /\ Normal(records[i].path)
         /\ \A j \in 1..(i - 1) : PathKey(records[i].path) # PathKey(records[j].path)
    /\ Listed(records) = DOMAIN entries \ {<<Checksums>>}
    /\ \A i \in DOMAIN records : records[i].digest = entries[records[i].path]

\* inspect_package: the entries of an intact package.
Intact(entries) ==
    /\ {<<Manifest>>, <<Checksums>>} \subseteq DOMAIN entries
    /\ VerifyChecksums(entries[<<Checksums>>], entries)

InspectZip(members) == {e \in ReadZip(members) : Intact(e)}
InspectDirectory(members) == {e \in ReadDirectory(members) : Intact(e)}

\* build_checksums_text for the files of a package, in the order of their names.
BuildChecksums(files, names) ==
    LET listed == SelectSeq(names, LAMBDA p : p # <<Checksums>>)
    IN  [i \in DOMAIN listed |-> [path |-> listed[i], digest |-> files[listed[i]]]]

\* extract_payload writes each entry below a fresh directory; on a file system that
\* keeps the case of names two parents may differ in case, but not a file be a parent.
Parents(entries) ==
    UNION {{SubSeq(p, 1, n) : n \in 1..(Len(p) - 1)} : p \in DOMAIN entries}

Extractable(entries) == DOMAIN entries \cap Parents(entries) = {}

\* The staging tree the second inspection reads: the files and their directories.
Tree(entries, sizes) ==
    LET order == SetToSeq(DOMAIN entries \cup Parents(entries))
        member(p) == IF p \in DOMAIN entries
                     THEN [path |-> p, kind |-> "file", size |-> sizes[p], data |-> entries[p]]
                     ELSE [path |-> p, kind |-> "dir", size |-> 0, data |-> << >>]
    IN  [i \in DOMAIN order |-> member(order[i])]

-----------------------------------------------------------------------------
(* Contributions.  A registrar is [id, permissions, declared, names]; the   *)
(* registry maps a <<kind, name>> to the extension that owns it.            *)

PermissionFor == [commands |-> "register_commands", extractors |-> "register_extractors",
                  validators |-> "register_validators"]

Authorized(r, c) == PermissionFor[c[1]] \in r.permissions /\ c \in r.declared

WithoutOwner(owners, id) == {c \in DOMAIN owners : owners[c] # id}

\* register_* and commit: nothing is replaced unless all of it can be.
Committed(owners, r) ==
    IF ~(\A c \in r.names : Authorized(r, c)) \/ WithoutOwner(owners, r.id) \cap r.names # {}
    THEN owners
    ELSE [c \in WithoutOwner(owners, r.id) \cup r.names |->
            IF c \in r.names THEN r.id ELSE owners[c]]
=============================================================================
