----------------------------- MODULE MCReleases -----------------------------
(* The instance of SkillReleases that TLC checks. *)
EXTENDS SkillReleases

CONSTANTS p1, p2, r1, r2

MCSymmetry == Permutations(Procs)

MCHosts == {[deps |-> {"core"}, caps |-> {}], [deps |-> {}, caps |-> {}]}

MCSeed ==
  [version |-> 1, prev |-> 0, kernel |-> "k1",
   assets |-> [k \in {"rule"} |->
                 [hash |-> "h1", scope |-> {"general"}, refs |-> {"book1"}]]]

Unit(id, key, hash, status, book) ==
  [id |-> id, key |-> key, hash |-> hash, status |-> status, refs |-> {book}]

\* A new asset, a second source for a known one, and a conflict with it.
MCAnalyses ==
  {<<Unit(1, "case", "h2", "draft", "book2"), Unit(2, "rule", "h3", "rejected", "book2")>>,
   <<Unit(3, "rule", "h1", "draft", "book3")>>,
   <<Unit(4, "rule", "h4", "draft", "book4")>>}
MCBatches == {AssetsFromAnalysis(units) :
                units \in {u \in MCAnalyses : Projectable(u, {"book2", "book3", "book4"})}}

Production(release) ==
  Emitted([Directory(-1, TRUE) EXCEPT !.pack = release], "production",
          [deps |-> {"core"}, caps |-> {}])
Legacy(k, ledger) == Directory(k, ledger)

Found(draft1, draft2, slot1, active) ==
  [disk |-> [place \in Places |->
               CASE place = Draft(r1) -> draft1
                 [] place = Draft(r2) -> draft2
                 [] place = Slot(r1) -> slot1
                 [] OTHER -> Nothing],
   pointer |-> active]

\* A Skill in production with its Pack, an older one in the host, and a legacy
\* draft; two legacy drafts; two of which one has no sources on record.
MCStarts ==
  {Found(Production(MCSeed), Legacy(-2, TRUE), Legacy(-3, TRUE), MCSeed),
   Found(Legacy(-1, TRUE), Legacy(-2, TRUE), Nothing, Nothing),
   Found(Legacy(-1, TRUE), Legacy(-2, FALSE), Nothing, Nothing)}
=============================================================================
