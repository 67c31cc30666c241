--------------------------- MODULE ExtensionCases ---------------------------
(***************************************************************************)
(* Versions, dependencies, packages and contributions of extensions over   *)
(* all the small ones.                                                     *)
(***************************************************************************)
LOCAL INSTANCE Integers
LOCAL INSTANCE Sequences
LOCAL INSTANCE FiniteSets
LOCAL INSTANCE SequencesExt

\* "x" and "X" are one name to some systems; "nul" is none to others.
PackageNames == {"x", "X", "y", "nul", "extension-manifest.json", "checksums.sha256"}
P == INSTANCE ExtensionPackages WITH
       Fold <- [n \in PackageNames |-> IF n = "X" THEN "x" ELSE n],
       Portable <- PackageNames \ {"nul"},
       MaxFiles <- 4, MaxBytes <- 2, MaxTotal <- 4

Tokens == {<<"num", 1>>, <<"num", 2>>, <<"txt", 1>>, <<"txt", 2>>}
Prereleases == {P!Release} \cup {<<t>> : t \in Tokens} \cup {<<t, u>> : t, u \in Tokens}
SmallVersions ==
  {[nums |-> n, pre |-> p] : n \in {<<1, 0, 0>>, <<1, 1, 0>>, <<2, 0, 0>>}, p \in Prereleases}
Final(n) == [nums |-> n, pre |-> P!Release]
One == Final(<<1, 0, 0>>)
Two == Final(<<2, 0, 0>>)

-----------------------------------------------------------------------------
\* version.py:87-106: versions that can be compared are in one line, and a release is
\* above all its prereleases.
ASSUME VersionsInLine ==
  \A a, b \in SmallVersions :
    P!Comparable(a, b) =>
      /\ Cardinality({r \in {"less", "same", "more"} :
                        CASE r = "less" -> P!Less(a, b)
                          [] r = "same" -> P!Same(a, b)
                          [] r = "more" -> P!Less(b, a)}) = 1
      /\ \A c \in {x \in SmallVersions : P!Comparable(a, x) /\ P!Comparable(b, x)} :
           P!Less(a, b) /\ P!Less(b, c) => P!Less(a, c)
      /\ a.nums = b.nums /\ b.pre = P!Release => P!Less(a, b) \/ a = b

\* version.py:94 ("numeric < alphanumeric"): a number and a text are not compared at all,
\* so a range over 1.0.0-1 and 1.0.0-a ends in an exception rather than an answer.
ASSUME NumbersAndTextsRaise ==
  \A op \in {"==", ">", ">=", "<", "<=", "~="} :
    P!SatisfiesRange([One EXCEPT !.pre = <<<<"num", 1>>>>],
                     <<[op |-> op, target |-> [One EXCEPT !.pre = <<<<"txt", 1>>>>]]>>) = "raises"

\* version.py:109-167: a version is in >=t,<u exactly when it lies between, and ~= is
\* 1.2.x from its target on.
ASSUME RangesBetween ==
  \A v, t, u \in {x \in SmallVersions : \A i \in DOMAIN x.pre : x.pre[i][1] = "num"} :
    /\ P!SatisfiesRange(v, <<[op |-> ">=", target |-> t], [op |-> "<", target |-> u]>>) = "yes"
       <=> ~P!Less(v, t) /\ P!Less(v, u)
    /\ P!Judge(v, [op |-> "~=", target |-> t]) = "yes"
       <=> /\ P!Judge(v, [op |-> "wild", nums |-> <<t.nums[1], t.nums[2]>>]) = "yes"
           /\ ~P!Less(v, t)

\* version.py:170-180 ("the newest available version"): the newest by its three numbers;
\* a prerelease listed before its release is taken for it.
ASSUME BestMatchForgetsPrerelease ==
  LET early == [One EXCEPT !.pre = <<<<"txt", 1>>>>]
  IN  /\ P!BestMatch(<<early, One>>, << >>) = {early}
      /\ P!BestMatch(<<One, early, Two>>, << >>) = {Two}
      /\ \A v, w \in SmallVersions :
           \A b \in P!BestMatch(<<v, w>>, << >>) : ~P!TupleLess(b.nums, v.nums)

-----------------------------------------------------------------------------
\* resolver.py:34-107 on every graph of three extensions, each new, installed or unknown:
\* there is an order exactly when every extension needed is there in a version that fits
\* and nothing needs itself, and in it each comes once and after what it needs.
Ids == 1..3
Ranges == {<<[op |-> ">=", target |-> Two]>>}
Needs(ids, range) == [i \in 1..Cardinality(ids) |->
                        [id |-> SetToSortSeq(ids, <)[i], range |-> range]]
News == {[version |-> v, core |-> << >>, needs |-> Needs(ids, r)] :
           v \in {One, Two}, ids \in SUBSET Ids, r \in {<< >>} \cup Ranges}
Present == {One, Two}
Worlds ==
  {<<new, here>> \in (SUBSET Ids) \X (SUBSET Ids) : new # {} /\ new \cap here = {}}

Edge(news, i, j) == \E k \in DOMAIN news[i].needs : news[i].needs[k].id = j
\* What i needs in n steps or fewer.
Reach(news, i) ==
  LET up[n \in 0..Cardinality(Ids)] ==
        IF n = 0 THEN {i}
        ELSE up[n - 1] \cup {j \in Ids : \E k \in up[n - 1] \cap DOMAIN news : Edge(news, k, j)}
  IN  up[Cardinality(Ids)]
Circular(news) ==
  \E i \in DOMAIN news : \E j \in DOMAIN news : Edge(news, i, j) /\ i \in Reach(news, j)
Provided(news, installed) ==
  \A i \in DOMAIN news : \A k \in DOMAIN news[i].needs :
    P!Wanted(news[i].needs[k], news, installed) = ""

ASSUME OrderRespectsNeeds ==
  \A w \in Worlds : \A installed \in [w[2] -> Present] :
  \A news \in [w[1] -> {m \in News : Cardinality(w[1]) = 3 => m.version = Two}] :
    LET found == P!OrderOf(news, installed)
        at(i) == CHOOSE n \in DOMAIN found.order : found.order[n] = i
    IN  /\ found.err = "" <=> Provided(news, installed) /\ ~Circular(news)
        /\ found.err = "" =>
             /\ IsInjective(found.order)
             /\ ToSet(found.order) = UNION {Reach(news, i) : i \in DOMAIN news}
             /\ \A i \in DOMAIN news : \A j \in Ids : Edge(news, i, j) => at(j) < at(i)

\* installer.py:194-235, 273-282: install and uninstall leave every extension with what it
\* needs.  An upgrade asks what the new version needs and not who needs it, nor does a
\* rollback, although resolver.py:4-5 promises to refuse what "would violate declared
\* compatibility ranges": both may leave a dependant out of its range.
Sound(manifests) ==
  \A i \in DOMAIN manifests :
    Provided([j \in {i} |-> manifests[i]], [j \in DOMAIN manifests |-> manifests[j].version])
Homes == {m \in UNION {[S -> News] : S \in SUBSET {1, 2}} : Sound(m) /\ ~Circular(m)}
VersionsAt(m) == [i \in DOMAIN m |-> m[i].version]
With(m, i, new) == [j \in DOMAIN m \cup {i} |-> IF j = i THEN new ELSE m[j]]

ASSUME InstallKeepsSound ==
  \A m \in Homes : \A i \in {1, 2} :
    /\ \A new \in News :
         P!MayInstall(One, i, new, VersionsAt(m)) => Sound(With(m, i, new))
    /\ P!MayUninstall(i, m) => Sound([j \in DOMAIN m \ {i} |-> m[j]])

ASSUME UpgradeForgetsDependants ==
  /\ \E m \in Homes : \E new \in News : \E i \in {1, 2} :
       P!MayUpgrade(One, i, new, VersionsAt(m), FALSE) /\ ~Sound(With(m, i, new))
  /\ \A m \in Homes : \A new \in News : \A i \in {1, 2} :
       P!MayUpgrade(One, i, new, VersionsAt(m), FALSE) /\ ~Sound(With(m, i, new))
       => \E j \in DOMAIN m \ {i} : Edge(m, j, i)

\* installer.py:237-243: a rollback goes back and forth between the two greatest versions,
\* whatever was active before; the third is out of its reach.
ASSUME RollbackTwiceReturns ==
  LET versions == {One, Two, Final(<<1, 1, 0>>)}
      back(v) == CHOOSE t \in P!RollbackTarget(versions, v) : TRUE
  IN  \A v \in versions : Cardinality(P!RollbackTarget(versions, v)) = 1
                          /\ back(back(back(v))) = back(v) /\ back(v) # One

-----------------------------------------------------------------------------
\* package.py:264-333, 373-396: what is packed with the text build_checksums_text renders is
\* accepted, and no change of a file, a digest or the inventory is.
Layout == <<<<"extension-manifest.json">>, <<"x">>, <<"x", "y">>, <<"y", "x">>>>
Bare == {[p \in {<<"extension-manifest.json">>} \cup S |-> "data"] :
           S \in SUBSET {<<"x">>, <<"x", "y">>, <<"y", "x">>}}
Packed(files) ==
  LET names == SelectSeq(Layout, LAMBDA p : p \in DOMAIN files)
  IN  [p \in DOMAIN files \cup {<<"checksums.sha256">>} |->
         IF p = <<"checksums.sha256">> THEN P!BuildChecksums(files, names) ELSE files[p]]
Without(entries, p) == [q \in DOMAIN entries \ {p} |-> entries[q]]

ASSUME OnlyIntactAccepted ==
  \A files \in Bare :
    LET e == Packed(files)
        listing == <<"checksums.sha256">>
    IN  /\ P!Intact(e)
        /\ \A p \in DOMAIN e : ~P!Intact(Without(e, p))
        /\ \A p \in DOMAIN files : ~P!Intact([e EXCEPT ![p] = "other"])
        /\ \A p \in {<<"x">>, <<"x", "y">>, <<"y", "x">>} \ DOMAIN files :
             ~P!Intact([q \in DOMAIN e \cup {p} |-> IF q = p THEN "data" ELSE e[q]])
        /\ \A i \in DOMAIN e[listing] : ~P!Intact([e EXCEPT ![listing] = Append(@, @[i])])

\* package.py:134-214: a package is the same whether its ZIP holds it in a directory of
\* its own or not, and is refused with anything beside that directory.
Member(p, data) == [path |-> p, kind |-> "file", size |-> 1, data |-> data]
Archive(root, entries) ==
  LET order == SetToSeq(DOMAIN entries)
  IN  [i \in DOMAIN order |-> Member(root \o order[i], entries[order[i]])]
Dir(path) == [path |-> path, kind |-> "dir", size |-> 0, data |-> << >>]

ASSUME RootTakenAway ==
  \A files \in {f \in Bare : Cardinality(DOMAIN f) <= 2} :
    LET plain == P!InspectZip(Archive(<< >>, Packed(files)))
        nested == Archive(<<"y">>, Packed(files))
    IN  /\ plain = {Packed(files)}
        /\ P!InspectZip(nested) = plain
        /\ Len(nested) < 4 => P!InspectZip(Append(nested, Dir(<<"y">>))) = plain
        /\ P!InspectZip(Append(nested, Member(<<"x">>, "data"))) = {}

\* installer.py:319-325 inspects the extracted tree again.  It refuses what the first
\* inspection took in three cases only: the directories a ZIP leaves out make too many
\* members, two of them differ in case, or a file is a directory of another.
Archives ==
  {Archive(<< >>, Packed([p \in {<<"extension-manifest.json">>} \cup S |-> "data"])) :
     S \in {T \in SUBSET {<<"x">>, <<"x", "y">>, <<"X", "x">>, <<"y", "x">>, <<"y", "y">>} :
              Cardinality(T) <= 2 /\ T \subseteq ToSet(Layout)}}
  \cup {LET e == [p \in {<<"extension-manifest.json">>, <<"x", "y">>, <<"X", "x">>} |-> "data"]
            names == <<<<"X", "x">>, <<"extension-manifest.json">>, <<"x", "y">>>>
        IN  Archive(<< >>, [p \in DOMAIN e \cup {<<"checksums.sha256">>} |->
                          IF p = <<"checksums.sha256">> THEN P!BuildChecksums(e, names) ELSE e[p]])}
Staged(e) == P!InspectDirectory(P!Tree(e, [p \in DOMAIN e |-> 1]))
Crowded(e) == Cardinality(DOMAIN e \cup P!Parents(e)) > 4
Clashing(e) == \E p, q \in DOMAIN e \cup P!Parents(e) : p # q /\ P!PathKey(p) = P!PathKey(q)

ASSUME StagedTreeVerifies ==
  /\ \A zip \in Archives : \A e \in P!InspectZip(zip) :
       (P!Extractable(e) /\ Staged(e) = {e})
       <=> (P!Extractable(e) /\ ~Crowded(e) /\ ~Clashing(e))
  /\ \E zip \in Archives : \E e \in P!InspectZip(zip) : Crowded(e)
  /\ \E zip \in Archives : \E e \in P!InspectZip(zip) : ~P!Extractable(e)
  /\ \E zip \in Archives : \E e \in P!InspectZip(zip) : Clashing(e)

-----------------------------------------------------------------------------
\* registrar.py:31-121: an activation takes over its own contributions and nobody else's,
\* in full or not at all, and only what its manifest declares and is permitted.
Contributions == {<<"commands", 1>>, <<"commands", 2>>, <<"validators", 1>>}
Owners == UNION {[S -> {"a", "b"}] : S \in SUBSET Contributions}
ASSUME ContributionsOwned ==
  \A owners \in Owners : \A names, declared \in SUBSET Contributions :
  \A permissions \in SUBSET {"register_commands", "register_validators"} :
    LET now == P!Committed(owners, [id |-> "a", permissions |-> permissions,
                                    declared |-> declared, names |-> names])
        of(o, id) == {c \in DOMAIN o : o[c] = id}
    IN  /\ of(now, "b") = of(owners, "b")
        /\ now = owners \/ of(now, "a") = names
        /\ of(now, "a") # of(owners, "a") =>
             names \subseteq declared /\ \A c \in names : P!PermissionFor[c[1]] \in permissions
=============================================================================
