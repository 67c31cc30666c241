------------------------------ MODULE MCFoldIn ------------------------------
(* FoldIn for TLC: two units, what analyses may say of them, and edits.       *)
EXTENDS FoldIn

Text(words, negated) == [words |-> words, negated |-> negated]

Candidate(id, kind, content, conditions) ==
  [id |-> id, version |-> 1, supersedes |-> {},
   f |-> [kind |-> kind, content |-> content, conditions |-> conditions,
          status |-> "candidate"]]

Offered(c, status) == [c EXCEPT !.f.status = status]

One(words, conditions) == Candidate(1, "principle", Text(words, FALSE), conditions)
Two(kind, words) == Candidate(2, kind, Text(words, FALSE), <<>>)

MCBuilt == {One({"a"}, <<>>), Two("technique", {"b"})}

\* A unit left out; the other left out and a condition added; the condition listed
\* in another order with another content, of a unit that calls itself reviewed; a
\* view that contradicts.
MCAnalyses ==
  {{Two("technique", {"b"})},
   {One({"a"}, <<"x", "y">>)},
   {Offered(One({"c"}, <<"y", "x">>), "reviewed"), Two("technique", {"b"})},
   {Two("anti_pattern", {"a"})}}

\* Two edits of one field, so that one may hide the other; the edits of a status;
\* and a value no edit may have.
MCEdits ==
  {[unit |-> 1, patch |-> [conditions |-> <<"y", "x">>]],
   [unit |-> 1, patch |-> [conditions |-> <<"z">>]],
   [unit |-> 1, patch |-> [status |-> "reviewed"]],
   [unit |-> 1, patch |-> [content |-> Text({}, FALSE)]]}

-----------------------------------------------------------------------------
(* The views, compared over all the units of a few words.                     *)

Sample ==
  {[Candidate(id, kind, Text(words, negated), <<>>) EXCEPT !.version = version] :
     id \in {1, 2}, kind \in {"principle", "anti_pattern", "technique"},
     words \in SUBSET {"a", "b", "not"} \ {{}}, negated \in BOOLEAN, version \in {1, 2}}
Few == {u \in Sample : Words(u) \in {{"a"}, {"a", "b"}, {"b"}}
                      /\ u.f.kind # "technique" /\ ~u.f.content.negated}

\* knowledge.py:268-297: the inverted index offers every pair that conflicts.
ASSUME IndexFindsConflicts ==
  \A u, v \in Sample : ConflictPair(u, v) => CandidatePair(u, v)

\* knowledge.py:189-225: every unit is in one cluster, with units of its kind only.
ASSUME ClustersPartition ==
  \A units \in [1..3 -> Few] :
    LET clusters == ClusterUnits(units)
    IN  /\ UNION clusters = 1..3
        /\ \A c, d \in clusters : c = d \/ c \cap d = {}
        /\ \A c \in clusters, i, j \in 1..3 :
             i \in c /\ j \in c => units[i].f.kind = units[j].f.kind

\* knowledge.py:364-414: a view has one record of every unit, and the file compared
\* with itself has no drift.
ASSUME ViewIsLatest ==
  \A units \in [1..2 -> Few] :
    LET side == [file |-> {}, home |-> TRUE, records |-> units]
    IN  /\ Resolvable(side)
        /\ Cardinality(SideUnits(side)) = Cardinality(IdsOf(Range(units)))
        /\ Diff(SideUnits(side), SideUnits(side), TRUE).unchanged = SideUnits(side)
=============================================================================
