--------------------------- MODULE CompilerCases ---------------------------
(***************************************************************************)
(* The compiler and the gate over all the collections of a few units: what *)
(* is compiled is complete, what is changed afterwards is seen, and what   *)
(* must not be published is not.                                           *)
(***************************************************************************)
LOCAL INSTANCE Integers
LOCAL INSTANCE FiniteSets
LOCAL INSTANCE SequencesExt

PlainTexts == {"one", "two", "three", "", "markup", "what it does", "ask",
               "Apply knowledge from references", "Consult detailed references", "skill"}
CaseTraits ==
  [t \in PlainTexts |-> IF t = "" THEN {"empty"} ELSE {}] @@
  [x \in {"phrase", "hidden", "slash", "claim", "time", "habit", "many"} |-> {x}]
CaseSize == [t \in DOMAIN CaseTraits |-> [cjk |-> 0, other |-> IF t = "" THEN 0 ELSE 12]]
CaseWords == [t \in DOMAIN CaseTraits |-> {t}]

C == INSTANCE PublicationGate WITH
       Traits <- CaseTraits, Size <- CaseSize, Words <- CaseWords,
       TargetMin <- 1, HardMax <- 60, MaxQuote <- 2, HardQuote <- 4, Alike <- {},
       BlockNumber <- [b \in {"b1", "b2", "b3", ""} |->
                         CASE b = "b1" -> 1 [] b = "b2" -> 2 [] b = "b3" -> 3 [] b = "" -> 0],
       SlugNames <- {"skill"}, MinDescription <- 10

CaseUnit(id, kind, content) ==
  [id |-> id, kind |-> kind, content |-> content, conditions |-> <<>>, exceptions |-> <<>>,
   refs |-> <<[source |-> "s", block |-> "b1", quote |-> C!NoQuote]>>,
   status |-> "candidate", level |-> "primary", version |-> 1]

CaseSpec == [name |-> "skill", description |-> "what it does", useWhen |-> <<"ask">>,
             notWhen |-> <<>>, inputs |-> <<"ask">>, outputs |-> <<"ask">>]
CaseManifests == <<[source |-> "s", sha |-> "hash"]>>

\* The trees that are compiled from units, one or none; and the one that is.
TreesOf(units) == C!Compile("c", units, CaseSpec, CaseManifests)
TreeOf(units) == CHOOSE tree \in TreesOf(units) : TRUE
Blocked(tree, units) == C!ContentBlocked(tree, units, CaseManifests)
Passes(tree) == C!ValidateStaging(tree).ok

Lines(texts) == [i \in DOMAIN texts |-> C!Text(texts[i])]
CaseKinds == {"technique", "principle", "case", "term"}
PlainContents == {Lines(<<"one">>), Lines(<<"", "one", "two", "">>)}
PlainUnits(id) ==
  {[CaseUnit(id, kind, content) EXCEPT !.conditions = cs, !.status = status] :
     kind \in CaseKinds, content \in PlainContents, cs \in {<<>>, <<"two">>},
     status \in {"candidate", "rejected"}}
PlainPairs == {<<u, v>> : u \in PlainUnits("u"), v \in PlainUnits("v")}

-----------------------------------------------------------------------------
\* build.py:477-496, publisher.py:642-716: units without anything to object to compile,
\* to a tree that is complete and passes the gate, unless a human rejected them all.
ASSUME PlainUnitsPass ==
  \A units \in PlainPairs :
    IF \A i \in 1..2 : units[i].status = "rejected" THEN TreesOf(units) = {}
    ELSE /\ TreesOf(units) # {}
         /\ \A tree \in TreesOf(units) : ~Blocked(tree, units) /\ Passes(tree)

\* build.py:355-496: a draft is kept although it may not be published, and says so.
Drafts(units) ==
  C!CompileDraft([collection |-> "c", sources |-> <<"s">>, units |-> units], CaseSpec, CaseManifests)
ASSUME DraftsTell ==
  \A t \in {"one", "phrase"} :
    LET units == <<CaseUnit("u", "case", <<C!Line("fence"), C!Text(t), C!Line("fence")>>),
                   CaseUnit("v", "technique", Lines(<<"two">>))>>
    IN  /\ Cardinality(Drafts(units)) = 1
        /\ \A d \in Drafts(units) : d.publishable = (t = "one")

\* ir_builder.py:414-433, skill_writer.py:232-238: SKILL.md points at pages that exist.
ASSUME RoutesExist ==
  \A units \in PlainPairs : \A tree \in TreesOf(units) : \A l \in ToSet(tree.skill) :
    l[1] = "routes" => ToSet(l[2]) \subseteq DOMAIN tree.references

\* content_integrity.py:66-72: "The check deliberately fails closed on ... any missing or
\* changed content": a line that is dropped from a page, or said again, is seen, except
\* for titles, the blanks around a content and what is told of conditions.
Without(lines, i) == SubSeq(lines, 1, i - 1) \o SubSeq(lines, i + 1, Len(lines))
Doubled(lines, i) == SubSeq(lines, 1, i) \o SubSeq(lines, i, Len(lines))
Silent(line) == line[1] \in {"title", "blank", "item"} \/ line = <<"marker", "Conditions">>
                \/ C!IsBlank(line)
ASSUME ContentChangesSeen ==
  \A units \in {p \in PlainPairs : p[1].status = "candidate" /\ p[1].kind = "case"} :
    \A f \in DOMAIN TreeOf(units).references \ {"provenance"} :
      LET page == TreeOf(units).references[f]
          blocks(lines) == Blocked([TreeOf(units) EXCEPT !.references[f] = lines], units)
      IN  \A i \in DOMAIN page :
            /\ ~Silent(page[i]) => blocks(Without(page, i))
            /\ page[i][1] \in {"text", "cite", "start"} /\ ~C!IsBlank(page[i])
               => blocks(Doubled(page, i))

\* content_integrity.py:87-145: a content that holds a line of the page's own structure is
\* never taken for a shorter content or for another unit: the tree is blocked.
Structure == {<<"start", "v">>, <<"end", "u">>, <<"start", "u">>,
              <<"marker", "Conditions">>, <<"marker", "Sources">>}
ASSUME StructureInContentBlocked ==
  \A line \in Structure :
    LET units == <<CaseUnit("u", "technique", <<C!Text("one"), line, C!Text("two")>>),
                   CaseUnit("v", "technique", Lines(<<"three">>))>>
    IN  Blocked(TreeOf(units), units)

\* content_integrity.py:190-236: the ledger is that of the manifests, hash and all.
ASSUME LedgerChangesSeen ==
  LET units == <<CaseUnit("u", "term", Lines(<<"one">>))>>
  IN  \A ledger \in {<<>>, CaseManifests \o CaseManifests,
                     <<[source |-> "s", sha |-> "other"]>>, <<[source |-> "z", sha |-> "hash"]>>} :
        Blocked([TreeOf(units) EXCEPT !.ledger = ledger], units)

-----------------------------------------------------------------------------
\* injection_check.py:265-347: wherever a unit that is rendered, or the description, says
\* what a Skill must not say, the tree is not published.
Quote(words, says) == [words |-> words, cjk |-> <<>>, says |-> says]
Said(t) ==
  LET u == CaseUnit("u", "technique", Lines(<<"one">>))
  IN  {[u EXCEPT !.content = Lines(<<"one", t>>)], [u EXCEPT !.conditions = <<t>>],
       [u EXCEPT !.exceptions = <<t>>], [u EXCEPT !.refs[1].quote = Quote(<<"a">>, {t})]}
ASSUME HostileTextNotPublished ==
  \A t \in {"phrase", "hidden"} :
    /\ \A u \in Said(t) : ~Passes(TreeOf(<<u>>))
    /\ \A tree \in C!Compile("c", <<CaseUnit("u", "term", Lines(<<"one">>))>>,
                             [CaseSpec EXCEPT !.useWhen = <<t>>], CaseManifests) : ~Passes(tree)

\* injection_check.py:128-235: links that leave the Skill, or run something, neither.
Target(scheme, absolute, segments) ==
  [scheme |-> scheme, internal |-> FALSE, absolute |-> absolute, segments |-> segments]
ASSUME HostileLinksNotPublished ==
  \A t \in {Target("javascript", FALSE, <<>>), Target("", TRUE, <<"etc">>),
            Target("", FALSE, <<"pages", "..", "..">>)} :
    ~Passes(TreeOf(<<CaseUnit("u", "term", <<C!Text("one"), <<"link", t>>>>)>>))

\* publication_gate.py:19-44: whatever checks ran, nothing is published that failed one,
\* or that lacks one of the five.
Ids == C!Required \cup {"claims"}
ASSUME GateFailsClosed ==
  \A statuses \in [Ids -> {"pass", "warn", "fail", "not_run", "absent"}] :
    LET ran == {c \in Ids : statuses[c] # "absent"}
    IN  C!Publishable(C!Report([c \in ran |-> statuses[c]]))
        = /\ \A c \in C!Required : statuses[c] \in {"pass", "warn"}
          /\ statuses["claims"] # "fail"

\* compatibility.py:379-393: a release passes only with the blocking tools at their
\* pinned versions and without an objection of theirs.
ASSUME ReleaseNeedsTools ==
  \A a, b \in C!Outcomes, p, q, external \in BOOLEAN, internal \in {"pass", "warn", "fail"} :
    LET tools == [reference |-> [blocking |-> FALSE, outcome |-> a, pinned |-> p],
                  validator |-> [blocking |-> TRUE, outcome |-> b, pinned |-> q]]
    IN  C!Compatibility(internal, TRUE, external, tools) # "fail"
        => external /\ q /\ b \in {"exit 0", "exit warning"} /\ internal # "fail"

-----------------------------------------------------------------------------
\* copyright_check.py:43-47 caps an excerpt at HardQuote words.  The compiler renders an
\* excerpt twice, so the check of duplicates refuses all above half of that ...
Quoting(id, block, words) ==
  [CaseUnit(id, "technique", Lines(<<"one">>)) EXCEPT
     !.refs[1].block = block, !.refs[1].quote = Quote(words, {})]
ASSUME ExcerptCapIsHalved ==
  \A n \in 1..4 : Passes(TreeOf(<<Quoting("u", "b1", [i \in 1..n |-> "a"])>>)) = (n <= 2)

\* ... and a run of blocks never spans more than two of them (190-201): three excerpts in
\* a row, together above the cap, are published.
ASSUME LongRunsPass ==
  Passes(TreeOf(<<Quoting("u", "b1", <<"a", "b">>), Quoting("v", "b2", <<"c", "d">>),
                  Quoting("w", "b3", <<"e", "f">>)>>))

\* source_check.py:39-41 ("so incidental slashes in prose do not trigger false matches"): a
\* condition with a slash after its first word is taken for a citation.
ASSUME SlashTakenForCitation ==
  LET units == <<[CaseUnit("u", "term", Lines(<<"one">>)) EXCEPT !.conditions = <<"slash">>]>>
  IN  ~Blocked(TreeOf(units), units) /\ C!Checks(TreeOf(units)).source = "fail"

\* normalized_bundle.py:108-127: the identity of stored units does not tell their order.
ASSUME OrderNotTold ==
  \A units \in PlainPairs :
    C!NormalizeUnits("c", <<"s">>, units) = C!NormalizeUnits("c", <<"s">>, Reverse(units))

\* wiki_generator.py:43-66, build.py:369: the wiki of a draft tells what was rejected.
ASSUME WikiTellsRejected ==
  LET units == <<CaseUnit("u", "term", Lines(<<"one">>)),
                 [CaseUnit("v", "term", Lines(<<"two">>)) EXCEPT !.status = "rejected"]>>
      tree == TreeOf(units)
  IN  /\ C!Text("two") \in ToSet(tree.wiki["glossary"])
      /\ \A f \in DOMAIN tree.references : C!Text("two") \notin ToSet(tree.references[f])

\* bundle_trace.py:212-305: a bundle that is verified is traced as its units will be.
RawVersion(blocks, complete) ==
  [source |-> "s", version |-> 1, complete |-> complete, of |-> "s",
   blocks |-> [i \in DOMAIN blocks |-> [source |-> "s", block |-> blocks[i]]]]
ASSUME VerifiedTwice ==
  \A blocks \in {<<"b1">>, <<"b2">>, <<"b1", "b1">>, <<"b2", "b1">>}, complete \in BOOLEAN,
     sources \in {<<>>, <<"s">>, <<"s", "s">>, <<"s", "z">>} :
    LET units == <<CaseUnit("u", "term", Lines(<<"one">>))>>
        bundle == [collection |-> "c", sources |-> sources, units |-> units]
        raw == {RawVersion(blocks, complete)}
    IN  /\ C!VerifyBundle(bundle, raw, 1) => C!VerifyUnits(units, raw, 1)
        /\ C!VerifyUnits(units, raw, 1) = (complete /\ blocks \in {<<"b1">>, <<"b2", "b1">>})

\* skill_design.py:227-328, 394-401: three prompts of each sort, however few are given.
ASSUME ThreeFixtures ==
  \A when, not \in {<<>>, <<"ask">>, <<"", "ask">>, <<"ask", "one", "two", "three">>} :
    LET spec == [CaseSpec EXCEPT !.useWhen = when, !.notWhen = not]
        f == C!Fixtures({}, spec, <<"one", "two", "three">>, <<"ask", "two", "three">>)
    IN  Len(f.triggers) = 3 /\ Len(f.boundaries) = 3

\* skill_design.py:113-224: the review of a build tells of two suggestions alike, and of
\* methods nobody but the model supports; a publication's tells of neither.
ASSUME DesignReviewed ==
  LET units == <<[CaseUnit("u", "technique", Lines(<<"one">>)) EXCEPT !.level = "inferred"]>>
      offer == [description |-> "what it does", positive |-> <<"ask">>, negative |-> <<>>]
      bundle == [units |-> units, suggested |-> <<offer, offer>>]
      found(b) == C!DesignFindings(b, CaseSpec, C!BuildIR(units, CaseSpec))
  IN  found({bundle}) = {"overlap", "inferred only"} /\ found({}) = {}
      /\ C!DesignScores(found({}), CaseSpec, C!BuildIR(units, CaseSpec)).focus = 5
      /\ C!Contract(CaseSpec, C!BuildIR(units, CaseSpec)).inputs = CaseSpec.inputs
=============================================================================
