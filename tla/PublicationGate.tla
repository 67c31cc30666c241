-------------------------- MODULE PublicationGate --------------------------
(***************************************************************************)
(* What is demanded of a Skill tree: that it holds every unit it was built *)
(* from, the eight checks of its quality, the gate of a publication and    *)
(* the compatibility with the validators of other projects.  Trees, lines  *)
(* and texts are those of SkillCompiler.  A quote is [words, cjk, says],   *)
(* two sequences and a set of traits.                                      *)
(***************************************************************************)
EXTENDS SkillCompiler

CONSTANTS
  MaxQuote,      \* words of an excerpt before a warning, 25 in the code
  HardQuote,     \* words of an excerpt that fail a Skill, 40
  Alike,         \* sets of two quotes that difflib rates .92 or more
  BlockNumber,   \* of a block: the number its name ends with, 0 for none
  SlugNames,     \* the texts that are names of a Skill
  MinDescription \* characters of a description, 10

Cond(finding, holds) == IF holds THEN {finding} ELSE {}

-----------------------------------------------------------------------------
(* Content integrity.                                                      *)

At(lines, tag) == {i \in DOMAIN lines : lines[i][1] = tag}

\* The next unit's start, or the end of the file.
LimitOf(lines, s) == Min({i \in At(lines, "start") : i > s} \cup {Len(lines) + 1})

EndsOf(lines, s) ==
  {e \in At(lines, "end") :
     e > s + 1 /\ e < LimitOf(lines, s) /\ lines[e] = <<"end", lines[s][2]>>}

WellFormed(lines, s) ==
  /\ s + 1 \in DOMAIN lines /\ lines[s + 1] = <<"head", lines[s][2]>>
  /\ EndsOf(lines, s) # {}

\* Any item with a slash after its first word looks like a citation.
LooksCited(line) == line[1] = "cite" \/ (line[1] = "item" /\ "slash" \in Traits[line[2]])
CitedBy(line) == IF line[1] = "cite" THEN <<line[2], line[3]>> ELSE <<line[2], "">>

SectionAt(lines, s) ==
  LET body == SubSeq(lines, s + 2, Min(EndsOf(lines, s)) - 1)
      marks == At(body, "marker") \cup {Len(body) + 1}
      sources == {i \in DOMAIN body : body[i] = <<"marker", "Sources">>}
      cites == {i \in DOMAIN body : LooksCited(body[i]) /\ \E m \in sources : m < i}
  IN  [id |-> lines[s][2], content |-> Stripped(SubSeq(body, 1, Min(marks) - 1)),
       refs |-> [i \in cites |-> CitedBy(body[i])]]

\* <<file, line>> of every unit the tree holds, well formed or not.
StartsIn(tree) ==
  UNION {{<<f, s>> : s \in At(tree.references[f], "start")} :
         f \in DOMAIN tree.references \ ({"provenance"} \cup tree.malformed)}
HeldAt(tree) == {p \in StartsIn(tree) : WellFormed(tree.references[p[1]], p[2])}
Held(tree) == [p \in HeldAt(tree) |-> SectionAt(tree.references[p[1]], p[2])]

RefBag(units) == ToBag(Pages(units, LAMBDA u :
                   [i \in DOMAIN u.refs |-> <<u.refs[i].source, u.refs[i].block>>]))
HeldRefs(held) ==
  LET all == UNION {{<<p, i>> : i \in DOMAIN held[p].refs} : p \in DOMAIN held}
      ref(x) == held[x[1]].refs[x[2]]
  IN  [r \in {ref(x) : x \in all} |-> Cardinality({x \in all : ref(x) = r})]

LedgerRead(tree) ==
  IF "provenance.yml" \in tree.files \ tree.malformed THEN tree.ledger ELSE <<>>

ContentReasons(tree, units, manifests) ==
  LET us == Usable(units)
      held == Held(tree)
      ids == {us[i].id : i \in DOMAIN us}
      heldIds == {held[p].id : p \in DOMAIN held}
      twice(seq, f(_)) == \E i, j \in DOMAIN seq : i # j /\ f(seq[i]) = f(seq[j])
      ledger == LedgerRead(tree)
      listed == {ledger[i].source : i \in DOMAIN ledger}
      declared == {m.source : m \in ToSet(manifests)}
      \* the last unit, and the last line, of an id counts
      last(seq, P(_)) == seq[Max({i \in DOMAIN seq : P(seq[i])})]
      wrong(p) == /\ held[p].id \in ids
                  /\ Stripped(last(us, LAMBDA u : u.id = held[p].id).content) # held[p].content
  IN  UNION {
        Cond("missing units", ids \ heldIds # {}),
        Cond("extra units", heldIds \ ids # {}),
        Cond("duplicate units", \/ \E p, q \in DOMAIN held : p # q /\ held[p].id = held[q].id
                                \/ twice(us, LAMBDA u : u.id)),
        Cond("content mismatch", \E p \in DOMAIN held : wrong(p)),
        Cond("source refs", RefBag(us) # HeldRefs(held)),
        Cond("missing sources", declared \ listed # {}),
        Cond("extra sources", listed \ declared # {}),
        Cond("duplicate sources", twice(ledger, LAMBDA e : e.source)
                                  \/ twice(manifests, LAMBDA m : m.source)),
        Cond("source hashes", \E s \in declared \cap listed :
               last(ledger, LAMBDA e : e.source = s).sha
               # last(manifests, LAMBDA m : m.source = s).sha),
        Cond("missing files",
             ~({"SKILL.md", "provenance.yml", "quality-report.md"}
               \cup Cond("references", us # <<>>) \subseteq tree.files)),
        Cond("malformed files",
             \/ tree.malformed \cap (DOMAIN tree.references \cup {"provenance.yml"}) # {}
             \/ HeldAt(tree) # StartsIn(tree))}

ContentBlocked(tree, units, manifests) == ContentReasons(tree, units, manifests) # {}

-----------------------------------------------------------------------------
(* The excerpts.                                                           *)

\* The Markdown pages of a tree, in the order of their paths.
PageNames(tree) == <<"SKILL.md">> \o SetToSeq(DOMAIN tree.references)
                   \o SetToSeq({"chapters", "cheatsheet", "glossary", "patterns"}
                               \cap DOMAIN tree.wiki)
Page(tree, f) == CASE f = "SKILL.md" -> tree.skill
                   [] f \in DOMAIN tree.references -> tree.references[f]
                   [] OTHER -> tree.wiki[f]

Quotes(tree) ==
  Pages(PageNames(tree), LAMBDA f :
    SelectSeq(Page(tree, f), LAMBDA l : l[1] = "cite" /\ l[4] # NoQuote))

EffectiveWords(quote) == Len(quote.words) + (2 * Len(quote.cjk) + 2) \div 3
Excerpt(quote) == quote.words \o quote.cjk
Length(quotes) == MapThenSumSet(LAMBDA i : EffectiveWords(quotes[i][4]), DOMAIN quotes)

Verdict(words) ==
  IF words > HardQuote THEN {"fail"} ELSE IF words > MaxQuote THEN {"warn"} ELSE {}

SameExcerpt(a, b) == a[2] = b[2] /\ Excerpt(a[4]) = Excerpt(b[4])

\* Excerpts of blocks that follow one another, one number at a time: a run goes on
\* only while the next number is one more, so the same block again ends it.
Runs(quotes) ==
  LET numbered(s) == SelectSeq(quotes, LAMBDA q : q[2] = s /\ BlockNumber[q[3]] > 0)
      ordered(s) == LET q == numbered(s)
                    IN  [i \in DOMAIN q |-> q[SetToSortSeq(DOMAIN q, LAMBDA x, y :
                          \/ BlockNumber[q[x][3]] < BlockNumber[q[y][3]]
                          \/ BlockNumber[q[x][3]] = BlockNumber[q[y][3]] /\ x < y)[i]]]
      next(q, k) == BlockNumber[q[k + 1][3]] = BlockNumber[q[k][3]] + 1
      runs(q) == {SubSeq(q, r[1], r[2]) : r \in {r \in (1..Len(q)) \X (1..Len(q)) :
                    /\ r[1] < r[2] /\ \A k \in r[1]..(r[2] - 1) : next(q, k)
                    /\ r[1] > 1 => ~next(q, r[1] - 1)
                    /\ r[2] < Len(q) => ~next(q, r[2])}}
  IN  UNION {runs(ordered(s)) : s \in {q[2] : q \in ToSet(quotes)}}

Shingles(quote) ==
  LET x == Excerpt(quote) IN {SubSeq(x, i, i + 2) : i \in 1..(Len(x) - 2)}

Similar(a, b) ==
  /\ a[2] = b[2] /\ Excerpt(a[4]) # Excerpt(b[4])
  /\ \A q \in {a, b} : EffectiveWords(q[4]) >= Max({2, MaxQuote \div 2})
  /\ LET x == Shingles(a[4])
         y == Shingles(b[4])
     IN  \/ {a[4], b[4]} \in Alike
         \/ x \cap y # {} /\ 10 * Cardinality(x \cap y) >= 8 * Cardinality(x \cup y)

CopyrightFindings(tree) ==
  LET quotes == Quotes(tree)
  IN  UNION {Verdict(Length(q)) : q \in
        {<<q>> : q \in ToSet(quotes)} \cup Runs(quotes)
        \cup {g \in {SelectSeq(quotes, LAMBDA q : SameExcerpt(q, a)) : a \in ToSet(quotes)} :
                Len(g) > 1}
        \cup {<<p[1], p[2]>> : p \in {p \in ToSet(quotes) \X ToSet(quotes) : Similar(p[1], p[2])}}}

-----------------------------------------------------------------------------
(* The other checks.                                                       *)

\* SKILL.md and references/*.md
Scanned(tree) == {tree.skill} \cup {tree.references[f] : f \in DOMAIN tree.references}
ScannedLines(tree) == UNION {ToSet(p) : p \in Scanned(tree)}

QuoteSays(line) == IF line[1] = "cite" /\ line[4] # NoQuote THEN line[4].says ELSE {}

FrontFindings(tree) ==
  IF tree.front.form # "mapping" THEN {"fail"}
  ELSE UNION {Cond("fail", tree.front.name \notin SlugNames),
              LET size == Size[tree.front.description]
              IN  Cond("fail", size.cjk + size.other < MinDescription)}

Cited(tree) == {CitedBy(l)[1] : l \in {l \in ScannedLines(tree) : LooksCited(l)}}

Substantive(lines) ==
  \E l \in ToSet(lines) : ~IsBlank(l) /\ l[1] \notin {"title", "head", "start", "end"}

SourceFindings(tree) ==
  LET ledger == tree.ledger
      present == "provenance.yml" \in tree.files
      declared == IF present THEN {e.source : e \in ToSet(ledger)} ELSE {}
      bearing == Cited(tree) # {} \/ \E p \in Scanned(tree) : Substantive(p)
      routes == UNION {ToSet(l[2]) : l \in {l \in ToSet(tree.skill) : l[1] = "routes"}}
  IN  UNION {
        Cond(IF bearing THEN "fail" ELSE "warn", ~present),
        Cond("fail", present /\ declared = {} /\ bearing),
        Cond("fail", present /\ Cardinality(declared) < Len(ledger)),
        Cond("fail", Cited(tree) \ declared # {}),
        Cond("warn", declared \ Cited(tree) # {}),
        Cond("warn", routes \ DOMAIN tree.references # {})}

\* A target is [scheme, internal, absolute, segments]; scheme "" for a path.
UrlFinding(t) ==
  CASE t.scheme \in {"data", "javascript"} -> {"fail"}
    [] t.scheme \notin {"", "https"} \/ t.internal -> {"warn"}
    [] OTHER -> {}
PathFinding(t) == Cond("fail", t.absolute \/ ".." \in ToSet(t.segments))

LinkFinding(t) ==
  IF UrlFinding(t) # {} \/ t.scheme # "" THEN UrlFinding(t) ELSE PathFinding(t)

InjectionFindings(tree) ==
  Cond("fail", \E l \in ScannedLines(tree) :
                 (Says(l) \cup QuoteSays(l)) \cap {"phrase", "hidden"} # {})
  \cup Cond("fail", Traits[tree.front.description] \cap {"phrase", "hidden"} # {})
  \cup UNION {LinkFinding(l[2]) : l \in {l \in ScannedLines(tree) : l[1] = "link"}}

BudgetFindings(tree) ==
  LET tokens == Tokens(SizeOf(tree.skill))
  IN  Cond("fail", tokens > HardMax) \cup Cond("warn", tokens < TargetMin)

\* Outside of fences and of the excerpts, and not where the wording denies it.  The
\* table for habits warns of a "guaranteed" outcome itself.
ClaimFindings(tree) ==
  Cond("warn", \E p \in Scanned(tree) : \E i \in DOMAIN p :
    /\ Cardinality({j \in 1..(i - 1) : p[j] = Line("fence")}) % 2 = 0
    /\ \/ "claim" \in Says(p[i]) /\ "negated" \notin Says(p[i])
       \/ p[i] = <<"scaffold", "habit">>)

\* The page is asked about all it says, its examples too; the writer asked the rest.
ScaffoldFindings(tree) ==
  LET said == UNION {Says(l) : l \in ToSet(tree.skill)}
      lacks(form) == <<"scaffold", form>> \notin ToSet(tree.skill)
  IN  Cond("warn", ("time" \in said /\ lacks("runtime")) \/ ("habit" \in said /\ lacks("habit")))

EvidenceFindings(tree) ==
  UNION {IF ~VerifySnapshot(s) THEN {"fail"}
         ELSE LET doing == {u \in DOMAIN s.bundle.units : u.kind \in Actionable}
              IN  Cond("warn", doing # {} /\ \A u \in doing : u.level \notin {"primary", "secondary"})
         : s \in tree.snapshot}

-----------------------------------------------------------------------------
(* The report and the gate.                                                *)

Worst(findings) ==
  IF "fail" \in findings THEN "fail" ELSE IF "warn" \in findings THEN "warn" ELSE "pass"

\* The check of a tree whose pages cannot be read raises.
Readable(tree) ==
  tree.malformed \cap (DOMAIN tree.references \cup DOMAIN tree.wiki \cup {"SKILL.md"}) = {}
Validatable(tree) == "SKILL.md" \in tree.files /\ Readable(tree)

Checks(tree) ==
  [frontmatter |-> Worst(FrontFindings(tree)),
   source      |-> IF "provenance.yml" \in tree.malformed THEN "fail"
                   ELSE Worst(SourceFindings(tree)),
   copyright   |-> Worst(CopyrightFindings(tree)),
   injection   |-> Worst(InjectionFindings(tree)),
   budget      |-> Worst(BudgetFindings(tree)),
   claims      |-> Worst(ClaimFindings(tree)),
   scaffolding |-> Worst(ScaffoldFindings(tree)),
   evidence    |-> Worst(EvidenceFindings(tree))]

Report(checks) ==
  LET found == {checks[c] : c \in DOMAIN checks}
  IN  [checks |-> checks, published |-> FALSE, status |-> Worst(found)]

Required == {"frontmatter", "source", "copyright", "injection", "budget"}

Publishable(report) ==
  /\ report.status # "fail"
  /\ Required \subseteq DOMAIN report.checks
  /\ \A c \in Required : report.checks[c] # "not_run"

\* What a publication leaves of the report: marked published, or archived as failed.
ValidateStaging(tree) ==
  IF ~Validatable(tree) THEN [ok |-> FALSE, report |-> {}]
  ELSE LET r == Report(Checks(tree))
       IN  IF Publishable(r) THEN [ok |-> TRUE, report |-> {[r EXCEPT !.published = TRUE]}]
           ELSE [ok |-> FALSE, report |-> {[r EXCEPT !.status = "fail"]}]

\* A draft shows a failed report, it must only be complete.
CompileDraft(bundle, spec, manifests) ==
  {[tree |-> tree, publishable |-> Validatable(tree) /\ Publishable(Report(Checks(tree)))] :
     tree \in {t \in Compiled(NormalizeBundle(bundle), bundle.sources, bundle.units, spec, manifests) :
                 ~ContentBlocked(t, bundle.units, manifests)}}

-----------------------------------------------------------------------------
(* Compatibility: what validators of other projects say.                   *)

\* Of a tool: whether a release must pass it, what comes of running it and whether
\* it is the version that is pinned.
Outcomes == {"missing", "timeout", "no start", "exit 0", "exit warning", "exit other"}

ExternalStatus(outcome, pinned, blocking) ==
  CASE outcome = "missing" -> "not_run"
    [] outcome \in {"timeout", "no start"} -> IF blocking THEN "fail" ELSE "not_run"
    [] outcome \in {"exit 0", "exit warning", "exit other"} /\ ~pinned ->
         IF blocking THEN "fail" ELSE "warn"
    [] outcome = "exit 0" -> "pass"
    [] outcome = "exit warning" -> "warn"
    [] outcome = "exit other" -> "fail"

Compatibility(internal, release, external, tools) ==
  LET blocking(t) == release /\ tools[t].blocking
      status(t) == IF external THEN ExternalStatus(tools[t].outcome, tools[t].pinned, blocking(t))
                   ELSE "not_run"
      statuses == {status(t) : t \in DOMAIN tools}
  IN  IF internal = "fail"
         \/ \E t \in DOMAIN tools : blocking(t) /\ status(t) \in {"fail", "not_run"}
      THEN "fail"
      ELSE IF internal = "warn" \/ statuses \ {"pass"} # {} THEN "warn" ELSE "pass"

=============================================================================
