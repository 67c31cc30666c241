--------------------------- MODULE SkillCompiler ---------------------------
(***************************************************************************)
(* From knowledge units to the files of a Skill: the traces of a bundle    *)
(* into Raw, the normalized snapshot, the intermediate representation, the *)
(* pages it is rendered to and the review of its design.                   *)
(*                                                                         *)
(* A unit is [id, kind, content, conditions, exceptions, refs, status,     *)
(* level, version]: its content a sequence of lines, a ref [source, block, *)
(* quote].  A line is a tuple that starts with what it looks like in       *)
(* Markdown:                                                               *)
(*   <<"text", t>>, <<"item", t>>, <<"step", t>>, <<"title", t>>,          *)
(*   <<"blank">>, <<"fence">>, <<"start", id>>, <<"head", id>>,            *)
(*   <<"end", id>>, <<"marker", m>>, <<"cite", source, block, quote>>,     *)
(*   <<"example", t, id>>, <<"routes", files>>, <<"link", target>>.        *)
(* What a text says is a set of traits; files are named by their kind.     *)
(***************************************************************************)
EXTENDS Integers, FiniteSets, SequencesExt, FiniteSetsExt

CONSTANTS
  Traits,        \* of a text: what it says that this code looks for
  Size,          \* of a text: [cjk, other] characters
  Words,         \* of a text: its words
  TargetMin,     \* tokens of SKILL.md, 2500 in the code
  HardMax        \* 5000

Line(tag) == <<tag>>
Text(t) == <<"text", t>>
Item(t) == <<"item", t>>
NoQuote == <<>>

TextsOf(line) ==
  IF line[1] \in {"text", "item", "step", "title", "example"} THEN {line[2]} ELSE {}
Says(line) == UNION {Traits[t] : t \in TextsOf(line)}
IsBlank(line) == line[1] = "blank" \/ (line[1] = "text" /\ "empty" \in Traits[line[2]])

Stripped(lines) ==
  LET said == {i \in DOMAIN lines : ~IsBlank(lines[i])}
  IN  IF said = {} THEN <<>> ELSE SubSeq(lines, Min(said), Max(said))

Pages(seq, Page(_)) == FlattenSeq([i \in DOMAIN seq |-> Page(seq[i])])
Items(seq) == [i \in DOMAIN seq |-> Item(seq[i])]

\* ceil(cjk / 1.5) + ceil(other / 4)
Tokens(size) == (2 * size.cjk + 2) \div 3 + (size.other + 3) \div 4
SizeOf(lines) ==
  LET of(f(_)) == MapThenSumSet(LAMBDA i : SumSet({f(t) : t \in TextsOf(lines[i])}),
                                DOMAIN lines)
  IN  [cjk |-> of(LAMBDA t : Size[t].cjk), other |-> of(LAMBDA t : Size[t].other)]

-----------------------------------------------------------------------------
(* The traces of a bundle.                                                 *)

\* Raw is a set of versions [source, version, complete, of, blocks], of the source
\* its manifest names, blocks a sequence of [source, block].
TraceOf(source, version, raw) ==
  {r \in raw : r.source = source /\ r.version = version /\ r.complete}

RefsOf(units) == UNION {ToSet(u.refs) : u \in ToSet(units)}

Traced(sources, refs, raw, version) ==
  \A s \in sources :
    \E r \in TraceOf(s, version, raw) :
      /\ r.of = s
      /\ \A i, j \in DOMAIN r.blocks :
           /\ r.blocks[i].source = s
           /\ r.blocks[i].block = r.blocks[j].block => i = j
      /\ \A ref \in refs :
           ref.source = s => \E b \in ToSet(r.blocks) : b.block = ref.block

\* Every source the bundle declares, once, and no reference to any other.
VerifyBundle(bundle, raw, version) ==
  /\ IsInjective(bundle.sources)
  /\ \A ref \in RefsOf(bundle.units) : ref.source \in ToSet(bundle.sources)
  /\ Traced(ToSet(bundle.sources), RefsOf(bundle.units), raw, version)

\* The sources of units that are stored are those they name.
VerifyUnits(units, raw, version) ==
  Traced({ref.source : ref \in RefsOf(units)}, RefsOf(units), raw, version)

-----------------------------------------------------------------------------
(* The normalized snapshot, whose identity is its content.                 *)

SourcesKnown(sources, units) ==
  \A ref \in RefsOf(units) : ref.source \in ToSet(sources) \ {"unknown"}

\* Sorted lists are sets here, and bags where the code keeps what is equal.
NormalizedUnit(u) ==
  [id |-> u.id, kind |-> u.kind, content |-> u.content, status |-> u.status,
   level |-> u.level, version |-> u.version,
   conditions |-> ToBag(u.conditions), exceptions |-> ToBag(u.exceptions),
   refs |-> ToBag(u.refs)]

Snapshot(collection, sources, units, input) ==
  LET content == [collection |-> collection, sources |-> ToSet(sources), input |-> input,
                  units |-> ToBag([i \in DOMAIN units |-> NormalizedUnit(units[i])])]
  IN  [bundle |-> content, identity |-> content]

NormalizeBundle(b) == Snapshot(b.collection, b.sources, b.units, b)
NormalizeUnits(collection, sources, units) ==
  Snapshot(collection, sources, units, ToBag(units))

VerifySnapshot(s) == s.identity = s.bundle

-----------------------------------------------------------------------------
(* The intermediate representation.                                        *)

Excluded == {"rejected", "superseded"}
WorkflowKinds == <<"framework", "technique", "decision_rule", "checklist", "principle">>
ReferenceKinds == <<"framework", "principle", "technique", "case", "term",
                    "anti_pattern", "checklist", "decision_rule">>

Usable(units) == SelectSeq(units, LAMBDA u : u.status \notin Excluded)
OfKind(units, kind) == SelectSeq(units, LAMBDA u : u.kind = kind)
ReferenceFiles(units) == SelectSeq(ReferenceKinds, LAMBDA k : OfKind(units, k) # <<>>)

UniqueItems(items) ==
  FoldLeft(LAMBDA kept, t : IF "empty" \in Traits[t] \/ t \in ToSet(kept)
                            THEN kept ELSE Append(kept, t), <<>>, items)

FirstLine(content) == SelectSeq(content, LAMBDA l : ~IsBlank(l))[1]
TextOf(line) == IF TextsOf(line) = {} THEN "markup" ELSE line[2]
Summary(u) == TextOf(FirstLine(u.content))

\* The first line of a unit of white space only raises: of the kinds with a step, and
\* of those on a page of the wiki, which is all but cases.
Summarizable(units) ==
  \A u \in ToSet(units) : u.kind # "case" => \E l \in ToSet(u.content) : ~IsBlank(l)

StepsOf(units) ==
  Pages(WorkflowKinds, LAMBDA k :
    LET us == OfKind(units, k)
    IN  [i \in DOMAIN us |-> [label |-> Summary(us[i]), description |-> us[i].content,
                              refs |-> {us[i].id}]])

\* The steps of the executable kinds and a last one that points at the files; where
\* there are none, the one that points.
Workflow(units) ==
  StepsOf(units) \o
    <<[label |-> IF StepsOf(units) = <<>> THEN "Apply knowledge from references"
                 ELSE "Consult detailed references",
       description |-> <<>>, refs |-> ToSet(ReferenceFiles(units))]>>

Examples(units) ==
  LET cases == OfKind(units, "case")
  IN  [i \in DOMAIN cases |-> [id |-> cases[i].id, scenario |-> cases[i].content]]

\* The code raises when no unit is left.
Buildable(units) == Usable(units) # <<>> /\ Summarizable(units)

BuildIR(units, spec) ==
  LET us == Usable(units)
  IN  [name |-> spec.name, description |-> spec.description,
       useWhen |-> spec.useWhen, notWhen |-> spec.notWhen,
       inputs |-> spec.inputs, outputs |-> spec.outputs,
       workflow |-> Workflow(us), examples |-> Examples(us),
       conditions |-> UniqueItems(Pages(us, LAMBDA u : u.conditions)),
       exceptions |-> UniqueItems(Pages(us, LAMBDA u : u.exceptions)),
       units |-> [i \in DOMAIN us |-> us[i].id],
       references |-> ReferenceFiles(us)]

-----------------------------------------------------------------------------
(* The pages.                                                              *)

Section(name, lines) ==
  IF lines = <<>> THEN <<>> ELSE <<Line("blank"), <<"marker", name>>>> \o lines

Citations(u) ==
  [i \in DOMAIN u.refs |-> <<"cite", u.refs[i].source, u.refs[i].block, u.refs[i].quote>>]

RenderUnit(u) ==
  <<<<"start", u.id>>, <<"head", u.id>>, Line("blank")>> \o u.content
  \o Section("Conditions", Items(u.conditions))
  \o Section("Exceptions", Items(u.exceptions))
  \o Section("Sources", Citations(u))
  \o <<Line("blank"), <<"end", u.id>>>>

RenderReference(units) == <<<<"title", "">>, Line("blank")>> \o Pages(units, RenderUnit)

RenderProvenance(units) ==
  <<<<"title", "">>, Line("blank")>>
  \o Pages(units, LAMBDA u : <<<<"head", u.id>>, <<"marker", "Sources">>>> \o Citations(u))

BuildReferences(units) ==
  LET us == Usable(units)
  IN  [f \in {"provenance"} \cup ToSet(ReferenceFiles(us)) |->
         IF f = "provenance" THEN RenderProvenance(us) ELSE RenderReference(OfKind(us, f))]

\* A step whose description starts with its label, of twenty characters at least, is
\* not said twice.
Repeats(step) ==
  /\ step.description # <<>>
  /\ Size[step.label].cjk + Size[step.label].other >= 20
  /\ step.label \in TextsOf(FirstLine(step.description))

RenderStep(step) ==
  <<<<"step", step.label>>>>
  \o IF step.description = <<>> \/ Repeats(step) THEN <<>>
     ELSE LET said == SelectSeq(step.description, LAMBDA l : ~IsBlank(l))
          IN  [i \in DOMAIN said |-> Item(TextOf(said[i]))]

RenderExamples(examples) ==
  Pages(examples, LAMBDA e :
    LET said == Stripped(e.scenario)
    IN  IF said = <<>> THEN <<>> ELSE <<<<"example", TextOf(said[1]), e.id>>>> \o Tail(said))

\* What the representation says picks the tables for timed methods or for habits.
IRTexts(ir) ==
  UNION {ToSet(ir.useWhen), ToSet(ir.notWhen), ToSet(ir.inputs), ToSet(ir.outputs),
         ToSet(ir.conditions), ToSet(ir.exceptions), {ir.name, ir.description},
         UNION {{s.label} \cup UNION {TextsOf(l) : l \in ToSet(s.description)} :
                s \in ToSet(ir.workflow)}}

Scaffolding(ir) ==
  LET said == UNION {Traits[t] : t \in IRTexts(ir)}
  IN  IF "time" \in said THEN "runtime" ELSE IF "habit" \in said THEN "habit" ELSE "none"

RenderSkill(ir) ==
  <<<<"title", ir.name>>>> \o Items(ir.useWhen) \o Items(ir.notWhen) \o Items(ir.inputs)
  \o Pages(ir.workflow, RenderStep)
  \o Items(ir.conditions) \o Items(ir.exceptions) \o Items(ir.outputs)
  \o (IF Scaffolding(ir) = "none" THEN <<>> ELSE <<<<"scaffold", Scaffolding(ir)>>>>)
  \o RenderExamples(ir.examples)
  \o <<<<"routes", <<"provenance">>>>, <<"routes", ir.references>>>>

\* The wiki is given every unit, those a human rejected too.
WikiFiles(units) ==
  LET of(kinds) == SelectSeq(units, LAMBDA u : u.kind \in kinds)
      pages == [chapters |-> of({"framework", "principle"}), glossary |-> of({"term"}),
                patterns |-> of({"principle", "anti_pattern"}),
                cheatsheet |-> of({"technique", "checklist", "decision_rule"})]
      page(f, u) ==
        CASE f = "chapters" -> <<<<"title", Summary(u)>>>> \o u.content
                               \o Section("Conditions", Items(u.conditions))
                               \o Section("Exceptions", Items(u.exceptions))
          [] f = "glossary" -> <<<<"title", Summary(u)>>>> \o u.content
          [] f = "patterns" -> <<Item(Summary(u))>>
          [] f = "cheatsheet" ->
               LET said == Stripped(u.content)
               IN  <<<<"title", Summary(u)>>>>
                   \o [i \in 1..Min({3, Len(said)}) |-> Text(TextOf(said[i]))]
  IN  [f \in {f \in DOMAIN pages : pages[f] # <<>>} |->
         Pages(pages[f], LAMBDA u : page(f, u))]

\* No file is written when SKILL.md is over the budget.
WithinBudget(lines) == Tokens(SizeOf(lines)) <= HardMax

\* A tree: its pages and its files, those that cannot be read malformed.
Tree(units, spec, manifests) ==
  LET ir == BuildIR(units, spec)
  IN  [front |-> [form |-> "mapping", name |-> ir.name, description |-> ir.description],
       skill |-> RenderSkill(ir), references |-> BuildReferences(units),
       wiki |-> WikiFiles(units), ledger |-> manifests, malformed |-> {},
       files |-> {"SKILL.md", "provenance.yml", "quality-report.md", "references", "assets"}]

Compilable(units, spec) == Buildable(units) /\ WithinBudget(RenderSkill(BuildIR(units, spec)))

\* The tree of the units with the snapshot of what it was built from, if there is one.
Compiled(snapshot, sources, units, spec, manifests) ==
  {[snapshot |-> {snapshot}] @@ tree :
     tree \in {Tree(units, spec, manifests) :
       x \in {x \in {1} : SourcesKnown(sources, units) /\ Compilable(units, spec)}}}

\* A publication's: without manifests the ledger is empty, and the check of the sources
\* says so.
Compile(collection, units, spec, manifests) ==
  LET sources == IF manifests # <<>> THEN [i \in DOMAIN manifests |-> manifests[i].source]
                 ELSE SetToSeq({ref.source : ref \in RefsOf(units)})
  IN  Compiled(NormalizeUnits(collection, sources, units), sources, units, spec, manifests)

-----------------------------------------------------------------------------
(* The review of a design, which changes nothing, and its fixtures.        *)

Actionable == {"framework", "technique", "decision_rule", "checklist"}
Overlapping(a, b) ==
  /\ Words[a] # {} /\ Words[b] # {}
  /\ 10 * Cardinality(Words[a] \cap Words[b]) >= 6 * Cardinality(Words[a] \cup Words[b])

\* bundle is the set of the bundle the build has; a publication has none.
DesignFindings(bundle, spec, ir) ==
  LET units == UNION {ToSet(b.units) : b \in bundle}
      kinds == {u.kind : u \in units}
      doing == {u \in units : u.kind \in Actionable}
      cond(f, holds) == IF holds THEN {f} ELSE {}
  IN  UNION {
        cond("broad", Len(ir.workflow) > 10 \/ "many" \in Traits[spec.description]),
        cond("overlap", \E b \in bundle : \E i, j \in DOMAIN b.suggested :
               i < j /\ Overlapping(b.suggested[i].description, b.suggested[j].description)),
        cond("abstract only", kinds # {} /\ kinds \cap Actionable = {}),
        cond("case unmapped", "case" \in kinds /\ ir.examples = <<>>),
        cond("inferred only",
             doing # {} /\ \A u \in doing : u.level \in {"inferred", "user_added"})}

One(b) == IF b THEN 1 ELSE 0
DesignScores(findings, spec, ir) ==
  [trigger    |-> 2 + One(spec.useWhen # <<>>) + 2 * One(spec.notWhen # <<>>),
   focus      |-> 5 - 2 * One("broad" \in findings),
   workflow   |-> 2 + One(ir.workflow # <<>>) + 2 * One(\A s \in ToSet(ir.workflow) : s.refs # {}),
   disclosure |-> 2 + 3 * One(ir.references # <<>>),
   tooling    |-> 2,                                   \* no builder fills the assets
   boundary   |-> 1 + 2 * One(spec.notWhen # <<>>) + 2 * One(ir.exceptions # <<>>),
   examples   |-> 1 + Min({4, Len(ir.examples)})]

AtLeastThree(values, fallbacks) ==
  LET given == SelectSeq(values, LAMBDA t : "empty" \notin Traits[t])
  IN  SubSeq(given \o SelectSeq(fallbacks, LAMBDA t : t \notin ToSet(given)), 1, 3)

\* Three prompts that should start the Skill, three that should not, and one of each
\* of the five ways an execution goes.
Fixtures(bundle, spec, positive, negative) ==
  LET offered(f(_)) == Pages(SetToSeq(bundle), LAMBDA b : Pages(b.suggested, f))
      given(f(_), own) == IF offered(f) = <<>> THEN own ELSE offered(f)
      pos == AtLeastThree(given(LAMBDA s : s.positive, spec.useWhen), positive)
      neg == AtLeastThree(given(LAMBDA s : s.negative, spec.notWhen), negative)
  IN  [triggers |-> pos, boundaries |-> neg,
       execution |-> [normal |-> pos[1], outOfScope |-> neg[1], missingInput |-> spec.name,
                      conflict |-> spec.name, outputFormat |-> spec.name]]

Contract(spec, ir) ==
  [inputs |-> IF ir.inputs = <<>> THEN spec.inputs ELSE ir.inputs,
   outputs |-> IF ir.outputs = <<>> THEN spec.outputs ELSE ir.outputs,
   preconditions |-> ToSet(ir.conditions),
   boundaries |-> ToSet(ir.exceptions) \cup ToSet(spec.notWhen)]

=============================================================================
