------------------------ MODULE BatchAnalysisProofs ------------------------
(***************************************************************************)
(* Theorems about BatchAnalysis, for any number of paths, contents and     *)
(* threads, any earlier state of raw/ and any number of commands and       *)
(* mishaps.                                                                *)
(*                                                                         *)
(* BackedInv is the inductive invariant of SuccessBacked: a thread vouches *)
(* for its files as the gate saw them, what is complete under raw/ is      *)
(* right, and a repair completes only what is right.  KeptInv is that of   *)
(* WorkKept: every path is with one thread, with those that wait, or done, *)
(* and what was analysed is lost, done, or named by the checkpoint.        *)
(*                                                                         *)
(* The actions of a thread are taken in two steps: what each does to raw/, *)
(* to its thread and to its command (Adds, Effect, Reports, Follows), and  *)
(* what that means for the invariants.                                     *)
(***************************************************************************)
EXTENDS BatchAnalysis, FiniteSetTheorems, WellFoundedInduction, TLAPS

-----------------------------------------------------------------------------
(* The inductive invariant. *)

Files    == [path : Paths, content : Contents]
Gots     == [path : Paths, content : Contents, read : Contents \cup {Nothing}]

\* What a thread is given.
Batches  == Seq(Files) \ {<< >>}
Statuses == {"none", "skipped", "resumed", "success", "failed"}

\* The memory of a command.
Runs == [phase : Phases, command : {"none", "analyze", "batch"}, resume : BOOLEAN,
         pool : BOOLEAN, failing : BOOLEAN, completed : SUBSET Paths,
         pending : Seq(Batches),
         outcomes : [Paths -> [status : Statuses, content : Contents \cup {Nothing},
                               bundle : BOOLEAN]]]

\* What a thread knows of its files.  What the model made of them is not looked at.
JobShape(w) ==
    /\ {"step", "files", "file", "read", "got"} \subseteq DOMAIN job[w]
    /\ job[w].step # "idle" =>
         /\ job[w].files \in Seq(Files) /\ job[w].file \in 1 .. Len(job[w].files)
         /\ job[w].got \in Seq(Gots)
    /\ job[w].step \notin {"idle", "extract"} => job[w].read \in Contents \cup {Nothing}
    /\ job[w].step \in {"persist", "stage", "repair", "repair manifest", "repair map"} =>
         job[w].read \in Contents

Shape ==
    /\ source \in [Paths -> Contents \cup {Missing}]
    /\ raw \in [Contents -> RawVersions]
    /\ checkpoint \subseteq Paths
    /\ run \in Runs
    /\ DOMAIN job = Workers
    /\ \A w \in Workers : JobShape(w)

\* Who works: threads of a command that is at work, one unless it has a pool.
Working ==
    /\ run.phase # "working" => AllIdle
    /\ \A w \in Workers : w \notin Active => At(w, "idle")
    /\ run.command # "batch" => ~run.pool

\* What is kept of content c is what was analysed, or its file changed.
Good(c) == raw[c] = Whole(c) \/ c \in changed

\* What is complete is right, and a map that waits for the rest is.
RawRight ==
    \A c \in Contents :
        /\ Complete(raw[c]) => Good(c)
        /\ Complete(raw[c]) \/ raw[c].map \in {Nothing, c}

\* A path still has what the gate saw, or it is known to be outdated.
AsSeen(p, c) == p \in outdated \/ source[p] = c

\* The file of a path that counts as done was analysed and kept, or it is outdated.
Vouched(p) == p \in outdated \/ (source[p] \in Contents /\ Good(source[p]))

\* What a repair relies on: the original is there, and right unless the file changed.
Repairs(w) ==
    LET c == File(w).content IN
    /\ raw[c].original # Nothing /\ raw[c].manifest \in {Nothing, c}
    /\ c \in changed \/ (raw[c].original = c /\ job[w].read = c)
    /\ At(w, "repair map") => raw[c].manifest = c

\* A thread about to complete a version completes it right, and the files it has
\* kept are there.
Sound(w) ==
    /\ job[w].step \in {"repair manifest", "repair map"} => Repairs(w)
    /\ ~At(w, "idle") =>
         /\ \A k \in DOMAIN job[w].files : AsSeen(job[w].files[k].path, job[w].files[k].content)
         /\ \A k \in DOMAIN job[w].got :
                /\ Good(job[w].got[k].content)
                /\ AsSeen(job[w].got[k].path, job[w].got[k].content)

\* What waits was seen by the gate, what counts as done is there.
SourcesSeen ==
    /\ run.phase = "working" =>
         /\ \A i \in DOMAIN run.pending : \A k \in DOMAIN run.pending[i] :
                AsSeen(run.pending[i][k].path, run.pending[i][k].content)
         /\ \A p \in run.completed : Vouched(p)
    /\ \A p \in checkpoint : Vouched(p)

\* What is reported analysed is there.
Reported ==
    \A p \in Paths : run.outcomes[p].status \in {"success", "resumed"} =>
        /\ run.outcomes[p].content \in Contents
        /\ Good(run.outcomes[p].content) \/ p \in outdated

\* The invariant of SuccessBacked.
BackedInv ==
    Shape /\ Working /\ RawRight /\ (\A w \in Workers : Sound(w)) /\ SourcesSeen /\ Reported

-----------------------------------------------------------------------------

\* A batch gives every path to one thread, once.
Single(fs) == Len(fs) = 1
Waiting(i) == run.pending[i][1].path
Path(w)    == job[w].files[1].path

Apart ==
    /\ \A i \in DOMAIN run.pending : Single(run.pending[i]) /\ Waiting(i) \notin run.completed
    /\ \A i, k \in DOMAIN run.pending : Waiting(i) = Waiting(k) => i = k
    /\ \A w \in Workers : ~At(w, "idle") =>
         /\ Single(job[w].files) /\ Path(w) \notin run.completed
         /\ \A i \in DOMAIN job[w].got : job[w].got[i].path = Path(w)
         /\ \A i \in DOMAIN run.pending : Waiting(i) # Path(w)
    /\ \A w, v \in Workers : ~At(w, "idle") /\ ~At(v, "idle") /\ Path(w) = Path(v) => v = w

OnceEach == run.phase = "working" /\ run.command = "batch" => Apart

\* An analysis that no checkpoint will name is lost, or its command is at work.
Remembered ==
    /\ run.phase \in {"gate", "working", "saving"} => run.command # "none"
    /\ run.command = "analyze" => ~run.resume /\ ~run.pool /\ analysed = {}
    /\ run.phase = "gate" /\ ~run.resume => analysed = {}
    /\ run.phase = "over" => analysed = {}
    /\ run.phase \in {"down", "gate", "raised"} =>
         \A a \in analysed : a \in lost \/ a[1] \in checkpoint
    /\ run.phase = "working" =>
         /\ \A a \in analysed : a \in lost \/ a[1] \in run.completed
         /\ run.command = "batch" /\ ~run.pool => checkpoint = run.completed

\* The invariant of WorkKept.
KeptInv == again \subseteq lost /\ OnceEach /\ Remembered

-----------------------------------------------------------------------------
(* The order of the gate. *)

\* The paths are finitely many numbers.
LEMMA PathsFinite ==
    /\ NumPaths \in Nat /\ Paths \subseteq Nat /\ IsFiniteSet(Paths)
    /\ \A ps \in SUBSET Paths : IsFiniteSet(ps) /\ Cardinality(ps) \in Nat
    /\ 1 \in Workers
  <1>1. NumPaths \in Nat /\ NumWorkers \in Nat \ {0}
    BY BatchAssumption, Zenon
  <1>2. Paths \subseteq Nat /\ IsFiniteSet(Paths) /\ 1 \in Workers
    BY <1>1, FS_Interval DEF Paths, Workers
  <1>3. \A ps \in SUBSET Paths : IsFiniteSet(ps)
    BY <1>2, FS_Subset
  <1>4. QED
    BY <1>1, <1>2, <1>3, FS_CardinalityType

\* Among finitely many paths there is one with any number below it.
LEMMA NthExists ==
    ASSUME NEW ps \in SUBSET Paths, NEW i \in 1 .. Cardinality(ps)
    PROVE  \E p \in ps : Cardinality({q \in ps : q < p}) = i - 1
  <1> DEFINE Below(k) == {q \in ps : q < k}
             B(k)     == Cardinality(Below(k))
             S        == {k \in Nat : B(k) >= i}
  <1>1. NumPaths \in Nat /\ ps \subseteq Nat /\ IsFiniteSet(ps) /\ Cardinality(ps) \in Nat
    BY PathsFinite
  <1>2. \A k \in Nat : IsFiniteSet(Below(k)) /\ B(k) \in Nat
    BY <1>1, FS_Subset, FS_CardinalityType
  <1>3. Below(NumPaths + 1) = ps
    <2>1. \A q \in ps : q < NumPaths + 1
      BY <1>1 DEF Paths
    <2>2. QED
      BY <2>1
  <1>4. B(0) = 0
    <2>1. \A q \in ps : ~(q < 0)
      BY <1>1
    <2>2. Below(0) = {}
      BY <2>1
    <2>3. QED
      BY <2>2, FS_EmptySet
  <1>5. i \in Nat /\ i >= 1 /\ B(NumPaths + 1) >= i /\ NumPaths + 1 \in Nat
    BY <1>1, <1>3
  <1>6. \A k \in Nat : k \in ps => Below(k + 1) = Below(k) \cup {k} /\ k \notin Below(k)
    <2>1. ASSUME NEW k \in Nat, k \in ps PROVE Below(k + 1) = Below(k) \cup {k} /\ k \notin Below(k)
      <3>1. \A q \in ps : q < k + 1 <=> q < k \/ q = k
        BY <1>1
      <3>2. ~(k < k)
        BY <2>1
      <3>3. QED
        BY <2>1, <3>1, <3>2
    <2>2. QED
      BY <2>1
  <1>7. \A k \in Nat : k \notin ps => Below(k + 1) = Below(k)
    <2>1. ASSUME NEW k \in Nat, k \notin ps PROVE Below(k + 1) = Below(k)
      <3>1. \A q \in ps : q < k + 1 <=> q < k
        BY <1>1, <2>1
      <3>2. QED
        BY <3>1
    <2>2. QED
      BY <2>1
  <1>8. \A k \in Nat : k \in ps => B(k + 1) = B(k) + 1
    <2>1. ASSUME NEW k \in Nat, k \in ps PROVE B(k + 1) = B(k) + 1
      <3>1. IsFiniteSet(Below(k)) /\ Below(k + 1) = Below(k) \cup {k} /\ k \notin Below(k)
        BY <1>2, <1>6, <2>1
      <3>2. Cardinality(Below(k) \cup {k}) = Cardinality(Below(k)) + 1
        BY <3>1, FS_AddElement
      <3>3. QED
        BY <3>1, <3>2
    <2>2. QED
      BY <2>1
  <1>9. \A k \in Nat : k \notin ps => B(k + 1) = B(k)
    BY <1>7
  <1> HIDE DEF B, Below
  <1>10. S \subseteq Nat /\ NumPaths + 1 \in S
    BY <1>5
  <1>11. PICK k \in S : \A m \in S : ~(m < k)
    <2>1. PICK k \in S : \A m \in S : <<m, k>> \notin OpToRel(<, Nat)
      BY <1>10, NatLessThanWellFounded, WFMin
    <2>2. \A m \in S : m \in Nat /\ k \in Nat
      BY <1>10
    <2>3. \A m \in S : ~(m < k)
      BY <2>1, <2>2 DEF OpToRel
    <2>4. QED
      BY <2>3
  <1>12. k \in Nat /\ k # 0 /\ B(k) >= i
    BY <1>4, <1>5, <1>11
  <1>13. k - 1 \in Nat /\ (k - 1) + 1 = k /\ k - 1 \notin S
    BY <1>11, <1>12
  <1>14. B(k - 1) \in Nat /\ B(k - 1) < i
    BY <1>2, <1>5, <1>13
  <1>15. k - 1 \in ps
    BY <1>5, <1>9, <1>12, <1>13, <1>14
  <1>16. B(k) = B(k - 1) + 1
    BY <1>8, <1>13, <1>15
  <1>17. B(k - 1) = i - 1
    BY <1>5, <1>12, <1>14, <1>16
  <1>18. QED
    BY <1>15, <1>17 DEF B, Below

\* The gate gives every path of a set once, with its content.
LEMMA InOrderFacts ==
    ASSUME NEW ps \in SUBSET Paths
    PROVE  /\ InOrder(ps) \in Seq([path : ps, content : {source[p] : p \in ps}])
           /\ Len(InOrder(ps)) = Cardinality(ps) /\ Cardinality(ps) \in Nat
           /\ \A i \in DOMAIN InOrder(ps) :
                /\ InOrder(ps)[i].path \in ps
                /\ InOrder(ps)[i].content = source[InOrder(ps)[i].path]
                /\ \A k \in DOMAIN InOrder(ps) :
                       InOrder(ps)[k].path = InOrder(ps)[i].path => k = i
  <1> DEFINE Nth(i)  == CHOOSE p \in ps : Cardinality({q \in ps : q < p}) = i - 1
             Seen(i) == [path |-> Nth(i), content |-> source[Nth(i)]]
             C       == Cardinality(ps)
  <1>1. C \in Nat
    BY PathsFinite
  <1>2. \A i \in 1 .. C : Nth(i) \in ps /\ Cardinality({q \in ps : q < Nth(i)}) = i - 1
    BY NthExists
  <1>3. InOrder(ps) = [i \in 1 .. C |-> Seen(i)]
    BY DEF InOrder
  <1>4. \A i, k \in 1 .. C : Nth(i) = Nth(k) => i = k
    <2>1. ASSUME NEW i \in 1 .. C, NEW k \in 1 .. C, Nth(i) = Nth(k) PROVE i = k
      <3>1. i - 1 = k - 1
        BY <1>2, <2>1
      <3>2. QED
        BY <1>1, <3>1
    <2>2. QED
      BY <2>1
  <1> HIDE DEF Nth, C
  <1>5. \A i \in 1 .. C : Seen(i) \in [path : ps, content : {source[p] : p \in ps}]
    BY <1>2
  <1>6. \A i \in 1 .. C : Seen(i).path = Nth(i) /\ Seen(i).content = source[Nth(i)]
    OBVIOUS
  <1> HIDE DEF Seen
  <1>7. InOrder(ps) \in Seq([path : ps, content : {source[p] : p \in ps}])
    <2>1. \A S : \A f \in [1 .. C -> S] : f \in Seq(S)
      BY <1>1
    <2>2. InOrder(ps) \in [1 .. C -> [path : ps, content : {source[p] : p \in ps}]]
      BY <1>3, <1>5
    <2>3. QED
      BY <2>1, <2>2
  <1>8. Len(InOrder(ps)) = C /\ DOMAIN InOrder(ps) = 1 .. C
    BY <1>1, <1>3
  <1>9. \A i \in 1 .. C : InOrder(ps)[i] = Seen(i)
    BY <1>3
  <1>10. \A i \in 1 .. C : InOrder(ps)[i].path = Nth(i) /\ InOrder(ps)[i].content = source[Nth(i)]
    BY <1>6, <1>9
  <1>11. ASSUME NEW i \in 1 .. C
         PROVE  /\ InOrder(ps)[i].path \in ps
                /\ InOrder(ps)[i].content = source[InOrder(ps)[i].path]
                /\ \A k \in 1 .. C : InOrder(ps)[k].path = InOrder(ps)[i].path => k = i
    <2>1. InOrder(ps)[i].path \in ps
      BY <1>2, <1>10, Zenon
    <2>2. InOrder(ps)[i].content = source[InOrder(ps)[i].path]
      BY <1>10, Zenon
    <2>3. \A k \in 1 .. C : InOrder(ps)[k].path = InOrder(ps)[i].path => k = i
      <3>1. InOrder(ps)[i].path = Nth(i) /\ \A k \in 1 .. C : InOrder(ps)[k].path = Nth(k)
        BY <1>10, Zenon
      <3>2. \A k \in 1 .. C : Nth(k) = Nth(i) => k = i
        BY <1>4
      <3>3. QED
        BY <3>1, <3>2, Zenon
    <2>4. QED
      BY <2>1, <2>2, <2>3
  <1>12. QED
    BY <1>1, <1>7, <1>8, <1>11 DEF C

-----------------------------------------------------------------------------
(* What an action does to a thread. *)

\* What is no content.
LEMMA NoContents == Missing \notin Contents /\ Nothing \notin Contents
  BY BatchAssumption, Zenon

\* The fields of a command.
LEMMA RunParts ==
    ASSUME NEW r \in Runs
    PROVE  /\ r.phase \in Phases /\ r.command \in {"none", "analyze", "batch"}
           /\ r.resume \in BOOLEAN /\ r.pool \in BOOLEAN /\ r.failing \in BOOLEAN
           /\ r.completed \subseteq Paths /\ r.pending \in Seq(Batches)
           /\ r.outcomes \in [Paths -> [status : Statuses, content : Contents \cup {Nothing},
                                        bundle : BOOLEAN]]
  BY DEF Runs

\* Only thread w moves.
Moved(w) ==
    /\ DOMAIN job' = Workers
    /\ \A v \in Workers \ {w} : job'[v] = job[v]
    /\ {"step", "files", "file", "read", "got"} \subseteq DOMAIN job'[w]

\* The thread ends its analysis, is still at its file, or is past it.
Stops(w) == Moved(w) /\ job'[w].step = "idle"

Carries(w) ==
    /\ Moved(w) /\ job'[w].step # "idle"
    /\ job'[w].files = job[w].files /\ job'[w].file = job[w].file /\ job'[w].got = job[w].got

Proceeds(w, got) ==
    /\ Moved(w) /\ job'[w].step \in {"extract", "map"}
    /\ job'[w].files = job[w].files /\ job'[w].got = got
    /\ job'[w].step = "extract" => job'[w].file \in 1 .. Len(job[w].files)
    /\ job'[w].step = "map" => job'[w].file = job[w].file /\ job'[w].read = Nothing

\* An idle thread has all fields.
LEMMA IdleFacts ==
    /\ {"step", "files", "file", "read", "got"} \subseteq DOMAIN Idle
    /\ Idle.step = "idle" /\ Idle.file = 1 /\ Idle.got = << >>
  BY DEF Idle

\* A thread that is made idle stops.
LEMMA MadeIdle ==
    ASSUME Shape, NEW w \in Workers, job' = [job EXCEPT ![w] = Idle]
    PROVE  Stops(w)
  BY IdleFacts DEF Shape, Stops, Moved

\* The files of a thread that works.
LEMMA JobParts ==
    ASSUME Shape, NEW w \in Workers
    PROVE  /\ DOMAIN job = Workers /\ {"step", "files", "file", "read", "got"} \subseteq DOMAIN job[w]
           /\ ~At(w, "idle") => /\ job[w].files \in Seq(Files) /\ job[w].got \in Seq(Gots)
                                /\ Len(job[w].files) \in Nat
                                /\ job[w].file \in 1 .. Len(job[w].files)
  <1>1. DOMAIN job = Workers /\ JobShape(w)
    BY DEF Shape
  <1>2. ~At(w, "idle") => /\ job[w].files \in Seq(Files) /\ job[w].got \in Seq(Gots)
                          /\ job[w].file \in 1 .. Len(job[w].files)
    BY <1>1, Zenon DEF JobShape, At
  <1>3. ~At(w, "idle") => Len(job[w].files) \in Nat
    BY <1>2
  <1>4. QED
    BY <1>1, <1>2, <1>3 DEF JobShape

\* A step of its own keeps the files of a thread.
LEMMA StepCarries ==
    ASSUME Shape, NEW w \in Workers, NEW s, s # "idle", Step(w, s)
    PROVE  Carries(w) /\ job'[w].step = s /\ job'[w].read = job[w].read
  BY DEF Shape, JobShape, Step, Carries, Moved

\* A thread goes on to its next file, to the model, or stops.
LEMMA OnwardProceeds ==
    ASSUME Shape, NEW w \in Workers, ~At(w, "idle"), NEW got,
           job' = [job EXCEPT ![w] = Onward(w, got)]
    PROVE  Stops(w) \/ Proceeds(w, got)
  <1>1. /\ DOMAIN job = Workers /\ {"step", "files", "file", "read", "got"} \subseteq DOMAIN job[w]
        /\ job[w].file \in 1 .. Len(job[w].files) /\ Len(job[w].files) \in Nat
    BY JobParts
  <1>2. Moved(w) /\ job'[w] = Onward(w, got)
    BY <1>1, IdleFacts DEF Moved, Onward
  <1>3. CASE job[w].file < Len(job[w].files)
    <2>1. /\ job'[w].step = "extract" /\ job'[w].files = job[w].files /\ job'[w].got = got
          /\ job'[w].file = job[w].file + 1
      BY <1>1, <1>2, <1>3 DEF Onward
    <2>2. job'[w].file \in 1 .. Len(job[w].files)
      BY <1>1, <1>3, <2>1
    <2>3. QED
      BY <1>2, <2>1, <2>2 DEF Proceeds
  <1>4. CASE ~(job[w].file < Len(job[w].files)) /\ got = << >>
    BY <1>2, <1>4, IdleFacts DEF Onward, Stops
  <1>5. CASE ~(job[w].file < Len(job[w].files)) /\ got # << >>
    BY <1>1, <1>2, <1>5 DEF Onward, Proceeds
  <1>6. QED
    BY <1>3, <1>4, <1>5

\* What Kept appends.
Fresh(w) == [path |-> File(w).path, content |-> File(w).content, read |-> job[w].read]

\* A thread that kept its file goes on with it.
LEMMA KeptProceeds ==
    ASSUME Shape, NEW w \in Workers, ~At(w, "idle"), Kept(w)
    PROVE  Stops(w) \/ Proceeds(w, Append(job[w].got, Fresh(w)))
  BY OnwardProceeds DEF Kept, Fresh

\* The file a thread is at is one of its own.
LEMMA FileFacts ==
    ASSUME Shape, NEW w \in Workers, ~At(w, "idle")
    PROVE  /\ job[w].file \in 1 .. Len(job[w].files) /\ job[w].file \in DOMAIN job[w].files
           /\ File(w) = job[w].files[job[w].file]
           /\ File(w) \in Files /\ File(w).path \in Paths /\ File(w).content \in Contents
  <1>1. job[w].files \in Seq(Files) /\ job[w].file \in 1 .. Len(job[w].files)
    BY JobParts
  <1>2. job[w].file \in DOMAIN job[w].files /\ job[w].files[job[w].file] \in Files
    BY <1>1
  <1>3. QED
    BY <1>1, <1>2 DEF File, Files

\* The requests to the model keep the files.
LEMMA ModelCarries ==
    ASSUME Shape, NEW w \in Workers,
           Map(w) \/ Reduce(w) \/ Book(w) \/ Skills(w) \/ Review(w)
    PROVE  /\ Carries(w) /\ job'[w].read = job[w].read /\ ~At(w, "idle")
           /\ job[w].step \in {"map", "reduce", "book", "skills", "review"}
           /\ job'[w].step \in {"map", "reduce", "book", "skills", "review", "finish"}
           /\ UNCHANGED <<source, raw, checkpoint, bundles, run, history, bounds>>
  <1> USE DEF At
  <1>1. DOMAIN job = Workers /\ {"step", "files", "file", "read", "got"} \subseteq DOMAIN job[w]
    BY DEF Shape, JobShape
  <1>2. CASE Map(w)
    <2> DEFINE i == Len(job[w].mapped) + 1
               blocks == BlocksOf[Got(w, i).read]
    <2>1. PICK m, r : job' = [job EXCEPT ![w].mapped = m,
                                ![w].step = IF i = Len(job[w].got) THEN "reduce" ELSE "map",
                                ![w].reduced = r]
      BY <1>2, Zenon DEF Map
    <2>2. QED
      BY <1>1, <1>2, <2>1 DEF Map, Carries, Moved
  <1>3. CASE Reduce(w)
    <2>1. PICK r, s : s \in {"book", "reduce"} /\ job' = [job EXCEPT ![w].reduced = r, ![w].step = s]
      BY <1>3 DEF Reduce
    <2>2. QED
      BY <1>1, <1>3, <2>1 DEF Reduce, Carries, Moved
  <1>4. CASE Book(w)
    <2>1. PICK b, f, u, q, s : /\ s \in {"skills", "book"}
                               /\ job' = [job EXCEPT ![w].books = Append(@, b), ![w].final = f, ![w].units = u,
                                                     ![w].queue = q, ![w].step = s]
      <3> DEFINE k == Len(job[w].books) + 1
                 r == job[w].reduced[k]
      <3>1. PICK reply \in Answers(r.units) :
              LET final == job[w].final \o Synthesized(Got(w, k).content, r, reply)
                  made  == IF reply = NoReply THEN << >>
                           ELSE Trusted(Got(w, k).content, r.units, reply.cards, r.counters).units
                  units == Candidates(job[w].mapped, final)
                  ended == k = Len(job[w].got)
              IN  job' = [job EXCEPT
                    ![w].books = Append(@, IF made = << >> THEN "kept" ELSE "made"),
                    ![w].final = final,
                    ![w].units = IF ended THEN units ELSE << >>,
                    ![w].queue = IF ended THEN Flagged(units) ELSE {},
                    ![w].step = IF ended THEN "skills" ELSE "book"]
        BY <1>4, Zenon DEF Book
      <3>2. \E b, f, u, q, s : /\ s \in {"skills", "book"}
                 /\ job' = [job EXCEPT ![w].books = Append(@, b), ![w].final = f, ![w].units = u,
                                       ![w].queue = q, ![w].step = s]
        BY <3>1
      <3>3. QED
        BY <3>2
    <2>2. QED
      BY <1>1, <1>4, <2>1 DEF Book, Carries, Moved
  <1>5. CASE Skills(w)
    <2>1. \E s \in {"review", "finish"} : Step(w, s)
      BY <1>5 DEF Skills
    <2>2. QED
      BY <1>5, <2>1, StepCarries DEF Skills
  <1>6. CASE Review(w)
    <2>1. PICK u : job' = [job EXCEPT ![w].step = "finish", ![w].units = u]
      BY <1>6 DEF Review
    <2>2. QED
      BY <1>1, <1>6, <2>1 DEF Review, Carries, Moved
  <1>7. QED
    BY <1>2, <1>3, <1>4, <1>5, <1>6

-----------------------------------------------------------------------------
(* What an action does to raw/. *)

\* Nothing that is kept is written again, and what is completed is right.
Adds ==
    /\ raw' \in [Contents -> RawVersions]
    /\ \A c \in Contents :
         /\ raw[c].original # Nothing => raw'[c].original = raw[c].original
         /\ raw[c].manifest # Nothing => raw'[c].manifest = raw[c].manifest
         /\ raw[c].manifest = Nothing => raw'[c].manifest \in {Nothing, c}
         /\ raw[c].map # Nothing => raw'[c].map = raw[c].map
         /\ Complete(raw'[c]) => Good(c)'
         /\ Complete(raw'[c]) \/ raw'[c].map \in {Nothing, c}
    /\ changed \subseteq changed'

\* Versions are records of three.
LEMMA VersionFacts ==
    ASSUME NEW v \in RawVersions
    PROVE  /\ v = [original |-> v.original, manifest |-> v.manifest, map |-> v.map]
           /\ v.original \in Contents \cup {Nothing} /\ v.manifest \in Contents \cup {Nothing}
           /\ v.map \in Contents \cup {Nothing}
  BY DEF RawVersions

\* A version that is right stays so.
LEMMA GoodStays ==
    ASSUME Shape, Adds, NEW c \in Contents, Good(c)
    PROVE  Good(c)'
  <1>1. CASE c \in changed
    BY <1>1 DEF Good, Adds
  <1>2. CASE raw[c] = Whole(c)
    <2>1. raw[c].original = c /\ raw[c].manifest = c /\ raw[c].map = c /\ c # Nothing
      BY <1>2, NoContents DEF Whole
    <2>2. raw'[c].original = c /\ raw'[c].manifest = c /\ raw'[c].map = c /\ raw'[c] \in RawVersions
      BY <2>1 DEF Adds
    <2>3. raw'[c] = Whole(c)
      BY <2>2, VersionFacts DEF Whole
    <2>4. QED
      BY <2>3 DEF Good
  <1>3. QED
    BY <1>1, <1>2 DEF Good

\* Most actions leave raw/ alone.
LEMMA NothingAdded ==
    ASSUME Shape, RawRight, UNCHANGED <<raw, changed>>
    PROVE  Adds
  BY DEF Shape, RawRight, Adds, Good

\* One version changes.
LEMMA OneAdded ==
    ASSUME Shape, RawRight, NEW c \in Contents, NEW v \in RawVersions,
           raw' = [raw EXCEPT ![c] = v], changed \subseteq changed',
           raw[c].original # Nothing => v.original = raw[c].original,
           raw[c].manifest # Nothing => v.manifest = raw[c].manifest,
           raw[c].manifest = Nothing => v.manifest \in {Nothing, c},
           raw[c].map # Nothing => v.map = raw[c].map,
           Complete(v) => v = Whole(c) \/ c \in changed',
           Complete(v) \/ v.map \in {Nothing, c}
    PROVE  Adds
  <1>1. raw \in [Contents -> RawVersions]
    BY DEF Shape
  <1>2. raw' \in [Contents -> RawVersions] /\ raw'[c] = v /\ \A d \in Contents \ {c} : raw'[d] = raw[d]
    BY <1>1
  <1>3. ASSUME NEW d \in Contents, d # c
        PROVE  /\ raw'[d] = raw[d] /\ Complete(raw'[d]) => Good(d)'
               /\ Complete(raw'[d]) \/ raw'[d].map \in {Nothing, d}
    BY <1>2, <1>3 DEF RawRight, Good
  <1>4. /\ Complete(raw'[c]) => Good(c)'
        /\ Complete(raw'[c]) \/ raw'[c].map \in {Nothing, c}
    BY <1>2 DEF Good
  <1>5. QED
    BY <1>2, <1>3, <1>4 DEF Adds

\* A new version is staged, a missing original, manifest or map is added.
LEMMA StageAdds ==
    ASSUME Shape, RawRight, NEW w \in Workers, Stage(w)
    PROVE  Adds /\ \A d \in Contents : d = File(w).content => Good(d)'
  <1> DEFINE c == File(w).content
             now == source[File(w).path]
             v == [original |-> now, manifest |-> c, map |-> job[w].read]
  <1>1. ~At(w, "idle") /\ now # Missing /\ raw[c] = NoRaw /\ raw' = [raw EXCEPT ![c] = v]
        /\ NoteChange(w, now)
    BY DEF Stage, At
  <1>2. c \in Contents /\ now \in Contents /\ job[w].read \in Contents
    BY <1>1, FileFacts DEF Shape, JobShape, Stage, At
  <1>3. v \in RawVersions /\ Complete(v)
    BY <1>2, NoContents DEF RawVersions, Complete
  <1>4. changed \subseteq changed' /\ (v = Whole(c) \/ c \in changed')
    BY <1>1 DEF NoteChange, Whole
  <1>5. Adds
    <2>1. raw[c].original = Nothing /\ raw[c].manifest = Nothing /\ raw[c].map = Nothing
          /\ v.manifest = c
      BY <1>1 DEF NoRaw
    <2>2. QED
      BY <1>1, <1>2, <1>3, <1>4, <2>1, OneAdded
  <1>6. raw'[c] = v
    BY <1>1, <1>2 DEF Shape
  <1>7. QED
    BY <1>4, <1>5, <1>6 DEF Good

\* The original of an older version is added.
LEMMA RepairOriginalAdds ==
    ASSUME Shape, RawRight, NEW w \in Workers, RepairOriginal(w)
    PROVE  /\ Adds
           /\ LET c == File(w).content IN
              /\ raw'[c].original # Nothing /\ raw'[c].manifest \in {Nothing, c}
              /\ c \in changed' \/ (raw'[c].original = c /\ job[w].read = c)
  <1> DEFINE c == File(w).content
             now == source[File(w).path]
             o == IF raw[c].original = Nothing THEN now ELSE raw[c].original
             v == [raw[c] EXCEPT !.original = o]
  <1>1. ~At(w, "idle") /\ raw[c].manifest \in {Nothing, c} /\ raw[c].original \in {Nothing, c}
        /\ (raw[c].original = Nothing => now # Missing)
    BY DEF RepairOriginal, At
  <1>2. c \in Contents /\ now \in Contents \cup {Missing} /\ raw[c] \in RawVersions /\ c # Nothing
    BY <1>1, FileFacts, NoContents DEF Shape
  <1>3. raw' = [raw EXCEPT ![c] = v]
    BY <1>2 DEF RepairOriginal, RawVersions, Shape
  <1>4. o \in Contents /\ o # Nothing /\ v \in RawVersions
        /\ v = [original |-> o, manifest |-> raw[c].manifest, map |-> raw[c].map]
    BY <1>1, <1>2, NoContents DEF RawVersions
  <1>5. raw'[c] = v /\ raw'[c].original = o
    BY <1>2, <1>3, <1>4 DEF Shape
  <1>6. changed \subseteq changed' /\ (c \in changed' \/ (o = c /\ job[w].read = c))
    <2>1. NoteChange(w, o)
      BY <1>5 DEF RepairOriginal
    <2>2. QED
      BY <2>1 DEF NoteChange
  <1>7. Complete(v) => v = Whole(c) \/ c \in changed'
    <2>1. CASE raw[c].original # Nothing
      <3>1. v = raw[c]
        BY <1>2, <1>4, <2>1, VersionFacts
      <3>2. QED
        BY <1>2, <1>6, <3>1 DEF RawRight, Good
    <2>2. CASE raw[c].original = Nothing
      <3>1. raw[c].map \in {Nothing, c}
        BY <1>2, <2>2 DEF RawRight, Complete
      <3>2. QED
        BY <1>1, <1>4, <1>6, <3>1 DEF Complete, Whole
    <2>3. QED
      BY <2>1, <2>2
  <1>8. Complete(v) \/ v.map \in {Nothing, c}
    BY <1>2, <1>4 DEF RawRight, Complete
  <1>9. Adds
    BY <1>1, <1>2, <1>3, <1>4, <1>6, <1>7, <1>8, OneAdded
  <1>10. QED
    BY <1>1, <1>4, <1>5, <1>6, <1>9

\* Its manifest.
LEMMA RepairManifestAdds ==
    ASSUME Shape, RawRight, NEW w \in Workers, Sound(w), RepairManifest(w)
    PROVE  /\ Adds
           /\ LET c == File(w).content IN
              /\ raw'[c].original # Nothing /\ raw'[c].manifest = c
              /\ c \in changed' \/ (raw'[c].original = c /\ job[w].read = c)
  <1> DEFINE c == File(w).content
             m == IF raw[c].manifest = Nothing THEN c ELSE raw[c].manifest
             v == [raw[c] EXCEPT !.manifest = m]
  <1>1. ~At(w, "idle") /\ Repairs(w) /\ changed' = changed
    BY DEF RepairManifest, At, Sound, history
  <1>2. c \in Contents /\ raw[c] \in RawVersions /\ c # Nothing
    BY <1>1, FileFacts, NoContents DEF Shape
  <1>3. raw' = [raw EXCEPT ![c] = v]
    BY <1>2 DEF RepairManifest, RawVersions, Shape
  <1>4. m = c /\ v \in RawVersions
        /\ v = [original |-> raw[c].original, manifest |-> c, map |-> raw[c].map]
    <2>1. m = c
      BY <1>1 DEF Repairs
    <2>2. v = [original |-> raw[c].original, manifest |-> c, map |-> raw[c].map]
      BY <1>2, <2>1 DEF RawVersions
    <2>3. QED
      BY <1>2, <2>1, <2>2 DEF RawVersions
  <1>5. raw'[c] = v
    BY <1>2, <1>3 DEF Shape
  <1>6. Complete(v) => v = Whole(c) \/ c \in changed'
    <2>1. CASE raw[c].manifest # Nothing
      <3>1. v = raw[c]
        BY <1>1, <1>2, <1>4, <2>1, VersionFacts DEF Repairs
      <3>2. QED
        BY <1>1, <1>2, <3>1 DEF RawRight, Good
    <2>2. CASE raw[c].manifest = Nothing
      <3>1. raw[c].map \in {Nothing, c}
        BY <1>2, <2>2 DEF RawRight, Complete
      <3>2. QED
        BY <1>1, <1>4, <3>1 DEF Complete, Whole, Repairs
    <2>3. QED
      BY <2>1, <2>2
  <1>7. Complete(v) \/ v.map \in {Nothing, c}
    BY <1>2, <1>4 DEF RawRight, Complete
  <1>8. Adds
    BY <1>1, <1>2, <1>3, <1>4, <1>6, <1>7, OneAdded
  <1>9. QED
    BY <1>1, <1>4, <1>5, <1>8 DEF Repairs

\* Its map: now it is complete.
LEMMA RepairMapAdds ==
    ASSUME Shape, RawRight, NEW w \in Workers, Sound(w), RepairMap(w)
    PROVE  Adds /\ \A d \in Contents : d = File(w).content => Good(d)'
  <1> DEFINE c == File(w).content
             v == [raw[c] EXCEPT !.map = job[w].read]
  <1>1. ~At(w, "idle") /\ Repairs(w) /\ changed' = changed /\ raw[c].map \in {Nothing, job[w].read}
        /\ raw[c].manifest = c
    BY DEF RepairMap, At, Sound, history, Repairs
  <1>2. c \in Contents /\ raw[c] \in RawVersions /\ c # Nothing /\ job[w].read \in Contents
    BY <1>1, FileFacts, NoContents DEF Shape, JobShape, RepairMap, At
  <1>3. raw' = [raw EXCEPT ![c] = v]
    BY <1>2 DEF RepairMap, RawVersions, Shape
  <1>4. v \in RawVersions /\ v = [original |-> raw[c].original, manifest |-> c, map |-> job[w].read]
    BY <1>1, <1>2 DEF RawVersions
  <1>5. raw'[c] = v
    BY <1>2, <1>3 DEF Shape
  <1>6. v = Whole(c) \/ c \in changed'
    BY <1>1, <1>4 DEF Repairs, Whole
  <1>7. Complete(v)
    BY <1>1, <1>2, <1>4, NoContents DEF Complete, Repairs
  <1>8. Adds
    BY <1>1, <1>2, <1>3, <1>4, <1>6, <1>7, OneAdded
  <1>9. QED
    BY <1>5, <1>6, <1>8 DEF Good

\* Another process makes a version at once.
LEMMA OtherAdds ==
    ASSUME Shape, RawRight, NEW c \in Contents, OtherIngests(c)
    PROVE  Adds
  <1>1. raw[c] = NoRaw /\ raw' = [raw EXCEPT ![c] = Whole(c)] /\ changed' = changed
    BY DEF OtherIngests, history
  <1>2. Whole(c) \in RawVersions /\ Complete(Whole(c)) /\ Whole(c).manifest = c
    BY NoContents DEF RawVersions, Complete, Whole
  <1>3. raw[c].original = Nothing /\ raw[c].manifest = Nothing /\ raw[c].map = Nothing
    BY <1>1 DEF NoRaw
  <1>4. QED
    BY <1>1, <1>2, <1>3, OneAdded

-----------------------------------------------------------------------------
(* What a step of a thread means for the invariant. *)

\* A path that changes is outdated, and stays so.
Outdates ==
    /\ outdated \subseteq outdated'
    /\ \A p \in Paths : p \in outdated' \/ source'[p] = source[p]

\* A thread changes no file.
LEMMA Steady == ASSUME UNCHANGED <<source, outdated>> PROVE Outdates
  BY DEF Outdates

\* What was seen or vouched for stays so.
LEMMA SeenStays ==
    ASSUME Outdates, NEW p \in Paths, NEW c, AsSeen(p, c)
    PROVE  AsSeen(p, c)'
  BY DEF Outdates, AsSeen

\* What a path is vouched for stays so.
LEMMA VouchStays ==
    ASSUME Shape, Adds, Outdates, NEW p \in Paths, Vouched(p)
    PROVE  Vouched(p)'
  <1>1. CASE p \in outdated \/ p \in outdated'
    BY <1>1 DEF Outdates, Vouched
  <1>2. CASE p \notin outdated /\ p \notin outdated'
    <2>1. source'[p] = source[p] /\ source[p] \in Contents /\ Good(source[p])
      BY <1>2 DEF Outdates, Vouched
    <2>2. PICK c \in Contents : c = source[p] /\ c = source'[p] /\ Good(c)
      BY <2>1
    <2>3. Good(c)'
      BY <2>2, GoodStays
    <2>4. QED
      BY <2>2, <2>3 DEF Vouched, Good
  <1>3. QED
    BY <1>1, <1>2

\* The files of a thread are files.
LEMMA MemberFacts ==
    ASSUME Shape, NEW w \in Workers, ~At(w, "idle")
    PROVE  /\ \A k \in DOMAIN job[w].files :
                job[w].files[k].path \in Paths /\ job[w].files[k].content \in Contents
           /\ \A k \in DOMAIN job[w].got :
                job[w].got[k].path \in Paths /\ job[w].got[k].content \in Contents
  <1>1. job[w].files \in Seq(Files) /\ job[w].got \in Seq(Gots)
    BY JobParts
  <1>2. /\ \A k \in DOMAIN job[w].files : job[w].files[k] \in Files
        /\ \A k \in DOMAIN job[w].got : job[w].got[k] \in Gots
    BY <1>1
  <1>3. QED
    BY <1>2 DEF Files, Gots

\* Seen files stay seen, kept ones kept.
LEMMA FilesStay ==
    ASSUME Shape, Adds, Outdates, NEW w \in Workers, ~At(w, "idle"), Sound(w)
    PROVE  /\ \A k \in DOMAIN job[w].files :
                  AsSeen(job[w].files[k].path, job[w].files[k].content)
           /\ \A p \in Paths, c \in Contents : AsSeen(p, c) => AsSeen(p, c)'
           /\ \A c \in Contents : Good(c) => Good(c)'
           /\ \A k \in DOMAIN job[w].got :
                  /\ Good(job[w].got[k].content)
                  /\ AsSeen(job[w].got[k].path, job[w].got[k].content)
  BY GoodStays, SeenStays DEF Sound

\* A thread that keeps its files keeps what is known of them.
LEMMA KeepsFiles ==
    ASSUME Shape, Adds, Outdates, NEW w \in Workers, ~At(w, "idle"), Sound(w),
           job'[w].files = job[w].files, job'[w].got = job[w].got
    PROVE  /\ \A k \in DOMAIN job'[w].files :
                  AsSeen(job[w].files[k].path, job[w].files[k].content)'
           /\ \A k \in DOMAIN job'[w].got :
                  /\ Good(job[w].got[k].content)'
                  /\ AsSeen(job[w].got[k].path, job[w].got[k].content)'
  <1>1. ASSUME NEW k \in DOMAIN job[w].files
        PROVE  AsSeen(job[w].files[k].path, job[w].files[k].content)'
    <2>1. PICK p \in Paths, c \in Contents :
            p = job[w].files[k].path /\ c = job[w].files[k].content /\ AsSeen(p, c)
      BY MemberFacts, FilesStay
    <2>2. AsSeen(p, c)'
      BY <2>1, SeenStays
    <2>3. QED
      BY <2>1, <2>2 DEF AsSeen
  <1>2. ASSUME NEW k \in DOMAIN job[w].got
        PROVE  /\ Good(job[w].got[k].content)'
               /\ AsSeen(job[w].got[k].path, job[w].got[k].content)'
    <2>1. PICK p \in Paths, c \in Contents :
            p = job[w].got[k].path /\ c = job[w].got[k].content /\ AsSeen(p, c) /\ Good(c)
      BY MemberFacts, FilesStay
    <2>2. AsSeen(p, c)' /\ Good(c)'
      BY <2>1, SeenStays, GoodStays
    <2>3. QED
      BY <2>1, <2>2 DEF AsSeen, Good
  <1>3. QED
    BY <1>1, <1>2

\* A thread that does not move stays sound.
LEMMA UnmovedSound ==
    ASSUME Shape, Adds, Outdates, NEW w \in Workers, job'[w] = job[w], Sound(w)
    PROVE  JobShape(w)' /\ Sound(w)'
  <1>1. JobShape(w)'
    BY DEF Shape, JobShape
  <1>2. CASE At(w, "idle")
    <2>1. job'[w].step = "idle"
      BY <1>2 DEF At
    <2>2. QED
      BY <1>1, <2>1 DEF Sound, At
  <1>3. CASE ~At(w, "idle")
    <2>1. ASSUME job[w].step \in {"repair manifest", "repair map"} PROVE Repairs(w)'
      <3>1. Repairs(w) /\ File(w)' = File(w) /\ File(w).content \in Contents
        BY <1>3, <2>1, FileFacts DEF Sound, File
      <3>2. PICK c \in Contents : c = File(w).content
        BY <3>1
      <3>3. /\ raw[c].original # Nothing /\ raw[c].manifest \in {Nothing, c}
            /\ c \in changed \/ (raw[c].original = c /\ job[w].read = c)
            /\ At(w, "repair map") => raw[c].manifest = c
        BY <3>1, <3>2 DEF Repairs
      <3>4. c # Nothing
        BY NoContents
      <3>5. /\ raw'[c].original # Nothing /\ raw'[c].manifest \in {Nothing, c}
            /\ c \in changed' \/ (raw'[c].original = c /\ job'[w].read = c)
            /\ job'[w].step = "repair map" => raw'[c].manifest = c
        BY <3>3, <3>4 DEF Adds, At
      <3>6. QED
        BY <3>1, <3>2, <3>5 DEF Repairs, At
    <2>2. /\ \A k \in DOMAIN job'[w].files :
                  AsSeen(job[w].files[k].path, job[w].files[k].content)'
          /\ \A k \in DOMAIN job'[w].got :
                  /\ Good(job[w].got[k].content)'
                  /\ AsSeen(job[w].got[k].path, job[w].got[k].content)'
      BY <1>3, KeepsFiles
    <2>3. job'[w].step \in {"repair manifest", "repair map"} => Repairs(w)'
      BY <2>1
    <2>4. QED
      BY <1>1, <2>2, <2>3 DEF Sound
  <1>4. QED
    BY <1>1, <1>2, <1>3

\* The effect of an action of thread w.
Effect(w) == Adds /\ UNCHANGED <<source, outdated>> /\ Moved(w) /\ JobShape(w)' /\ Sound(w)'

\* A thread that stops: nothing is known of it.
LEMMA StoppedEffect ==
    ASSUME Shape, RawRight, NEW w \in Workers, Stops(w), Adds, UNCHANGED <<source, outdated>>
    PROVE  Effect(w)
  BY DEF Effect, Stops, Moved, JobShape, Sound, At

\* A thread that carries its files: nothing else is known of its steps but at a repair.
LEMMA CarriedEffect ==
    ASSUME Shape, RawRight, NEW w \in Workers, ~At(w, "idle"), Sound(w), Carries(w), Adds,
           UNCHANGED <<source, outdated>>,
           job'[w].step \notin {"idle", "extract"} => job'[w].read \in Contents \cup {Nothing},
           job'[w].step \in {"persist", "stage", "repair", "repair manifest", "repair map"} =>
               job'[w].read \in Contents,
           job'[w].step \in {"repair manifest", "repair map"} => Repairs(w)'
    PROVE  Effect(w)
  <1>1. job[w].files \in Seq(Files) /\ job[w].got \in Seq(Gots) /\ job[w].file \in 1 .. Len(job[w].files)
    BY JobParts
  <1>2. JobShape(w)'
    BY <1>1 DEF Carries, Moved, JobShape
  <1>3. Sound(w)'
    BY KeepsFiles, Steady DEF Carries, Sound
  <1>4. QED
    BY <1>2, <1>3 DEF Effect, Carries

\* A thread that goes on: what it has kept now is there.
LEMMA ProceededEffect ==
    ASSUME Shape, RawRight, NEW w \in Workers, ~At(w, "idle"), Sound(w), Adds,
           UNCHANGED <<source, outdated>>,
           \/ Proceeds(w, job[w].got)
           \/ /\ Proceeds(w, Append(job[w].got, Fresh(w)))
              /\ job[w].read \in Contents
              /\ \A d \in Contents : d = File(w).content => Good(d)'
    PROVE  Effect(w)
  <1>1. job[w].files \in Seq(Files) /\ job[w].got \in Seq(Gots) /\ job[w].file \in 1 .. Len(job[w].files)
    BY JobParts
  <1>2. Outdates
    BY Steady
  <1>3. job'[w].got \in Seq(Gots)
    <2>1. CASE Proceeds(w, job[w].got)
      BY <1>1, <2>1 DEF Proceeds
    <2>2. CASE Proceeds(w, Append(job[w].got, Fresh(w))) /\ job[w].read \in Contents
      <3>1. Fresh(w) \in Gots
        BY <2>2, FileFacts DEF Fresh, Gots
      <3>2. QED
        BY <1>1, <2>2, <3>1 DEF Proceeds
    <2>3. QED
      BY <2>1, <2>2
  <1>4. Moved(w) /\ job'[w].files = job[w].files /\ job'[w].file \in 1 .. Len(job[w].files)
        /\ job'[w].step \in {"extract", "map"}
        /\ (job'[w].step = "map" => job'[w].read = Nothing)
    BY <1>1 DEF Proceeds
  <1>5. JobShape(w)'
    BY <1>1, <1>3, <1>4 DEF Moved, JobShape
  <1>6. \A k \in DOMAIN job'[w].files : AsSeen(job[w].files[k].path, job[w].files[k].content)'
    <2>1. ASSUME NEW k \in DOMAIN job[w].files
          PROVE  AsSeen(job[w].files[k].path, job[w].files[k].content)'
      <3>1. AsSeen(job[w].files[k].path, job[w].files[k].content)
        BY DEF Sound
      <3>2. QED
        BY <1>4, <3>1 DEF AsSeen
    <2>2. QED
      BY <1>4, <2>1
  <1>7. \A k \in DOMAIN job'[w].got :
            /\ Good(job[w].got[k].content)'
            /\ AsSeen(job[w].got[k].path, job[w].got[k].content)'
    <2>1. ASSUME NEW k \in DOMAIN job'[w].got
          PROVE  \E p \in Paths, c \in Contents :
                    /\ p = job'[w].got[k].path /\ c = job'[w].got[k].content
                    /\ Good(c)' /\ AsSeen(p, c)
      <3>1. ASSUME k \in DOMAIN job[w].got, job'[w].got[k] = job[w].got[k] PROVE <2>1!2
        <4>1. PICK p \in Paths, c \in Contents :
                p = job[w].got[k].path /\ c = job[w].got[k].content /\ AsSeen(p, c) /\ Good(c)
          BY <3>1, MemberFacts, FilesStay, <1>2
        <4>2. Good(c)'
          BY <4>1, GoodStays
        <4>3. QED
          BY <3>1, <4>1, <4>2
      <3>2. ASSUME job'[w].got[k] = Fresh(w), \A d \in Contents : d = File(w).content => Good(d)' PROVE <2>1!2
        <4>1. AsSeen(File(w).path, File(w).content)
          BY FileFacts DEF Sound
        <4>2. PICK p \in Paths, c \in Contents :
                p = File(w).path /\ c = File(w).content /\ AsSeen(p, c)
          BY <4>1, FileFacts
        <4>3. Good(c)'
          BY <3>2, <4>2
        <4>4. QED
          BY <3>2, <4>2, <4>3 DEF Fresh
      <3>3. QED
        <4>1. CASE Proceeds(w, job[w].got)
          BY <2>1, <3>1, <4>1 DEF Proceeds
        <4>2. CASE Proceeds(w, Append(job[w].got, Fresh(w)))
                   /\ \A d \in Contents : d = File(w).content => Good(d)'
          <5>1. job'[w].got = Append(job[w].got, Fresh(w)) /\ Len(job[w].got) \in Nat
            BY <1>1, <4>2 DEF Proceeds
          <5>2. (k \in DOMAIN job[w].got /\ job'[w].got[k] = job[w].got[k]) \/ job'[w].got[k] = Fresh(w)
            BY <1>1, <2>1, <5>1
          <5>3. QED
            BY <3>1, <3>2, <4>2, <5>2
        <4>3. QED
          BY <4>1, <4>2
    <2>2. QED
      BY <2>1 DEF AsSeen, Good
  <1>8. Sound(w)'
    BY <1>4, <1>6, <1>7 DEF Sound
  <1>9. QED
    BY <1>4, <1>5, <1>8 DEF Effect

-----------------------------------------------------------------------------
(* What a step of a thread means for its command. *)

\* The command goes on, or raises when nothing else runs; what it adds to its
\* reports was analysed and kept.
Reports(w) ==
    /\ run' \in Runs /\ run'.pool = run.pool /\ run'.command = run.command
    /\ run'.phase = "working" \/ (run'.phase = "raised" /\ ~run.pool /\ job'[w].step = "idle")
    /\ \A i \in DOMAIN run'.pending : \E k \in DOMAIN run.pending : run'.pending[i] = run.pending[k]
    /\ \A p \in run'.completed : p \in run.completed \/ Vouched(p)
    /\ checkpoint' \subseteq checkpoint \cup run'.completed
    /\ \A p \in Paths :
         \/ run'.outcomes[p] = run.outcomes[p]
         \/ run'.outcomes[p].status = "failed"
         \/ \E c \in Contents : c = run'.outcomes[p].content /\ Good(c)

\* Who works is a thread of a command at work.
LEMMA AtWork ==
    ASSUME Working, NEW w \in Workers, ~At(w, "idle")
    PROVE  run.phase = "working" /\ w \in Active
  BY DEF Working, AllIdle

\* Most steps leave the command alone.
LEMMA QuietReports ==
    ASSUME Shape, NEW w \in Workers, run.phase = "working", UNCHANGED <<run, checkpoint>>
    PROVE  Reports(w)
  BY DEF Shape, Reports

\* A failing thread stops, and its command fails now or when its pool is worked off.
LEMMA FailsReports ==
    ASSUME Shape, NEW w \in Workers, run.phase = "working", Fails(w), checkpoint' = checkpoint
    PROVE  Stops(w) /\ Reports(w)
  <1>1. Stops(w)
    BY MadeIdle DEF Fails
  <1>2. run \in Runs
    BY DEF Shape
  <1>3. CASE run.pool
    <2>1. run' = [run EXCEPT !.failing = TRUE]
      BY <1>3 DEF Fails
    <2>2. run' \in Runs /\ run'.pool = run.pool /\ run'.command = run.command
          /\ run'.phase = run.phase /\ run'.pending = run.pending /\ run'.completed = run.completed
          /\ run'.outcomes = run.outcomes
      BY <1>2, <2>1 DEF Runs
    <2>3. QED
      BY <1>1, <2>2 DEF Reports
  <1>4. CASE ~run.pool
    <2>1. run' = [run EXCEPT !.phase = "raised"]
      BY <1>4 DEF Fails
    <2>2. run' \in Runs /\ run'.pool = run.pool /\ run'.command = run.command
          /\ run'.phase = "raised" /\ run'.pending = run.pending /\ run'.completed = run.completed
          /\ run'.outcomes = run.outcomes
      BY <1>2, <2>1 DEF Runs, Phases
    <2>3. QED
      BY <1>1, <1>4, <2>2 DEF Reports, Stops
  <1>5. QED
    BY <1>3, <1>4

\* What is reported of some files: each has its content.
LEMMA OutcomesFacts ==
    ASSUME run \in Runs, NEW files, NEW status \in Statuses,
           \A i \in DOMAIN files : files[i].path \in Paths /\ files[i].content \in Contents
    PROVE  /\ Outcomes(files, status) \in [Paths -> [status : Statuses,
                                content : Contents \cup {Nothing}, bundle : BOOLEAN]]
           /\ \A p \in Paths :
                \/ Outcomes(files, status)[p] = run.outcomes[p]
                \/ \E i \in DOMAIN files : /\ files[i].path = p
                                           /\ Outcomes(files, status)[p] = Outcome(status, files[i].content)
  <1> DEFINE Hit(p) == {i \in DOMAIN files : files[i].path = p}
             O == Outcomes(files, status)
             T == [status : Statuses, content : Contents \cup {Nothing}, bundle : BOOLEAN]
  <1>1. run.outcomes \in [Paths -> T]
    BY RunParts
  <1>2. ASSUME NEW p \in Paths
        PROVE  \/ O[p] = run.outcomes[p]
               \/ \E i \in DOMAIN files : files[i].path = p /\ O[p] = Outcome(status, files[i].content)
    <2>1. O[p] = IF Hit(p) = {} THEN run.outcomes[p]
                 ELSE Outcome(status, files[CHOOSE i \in Hit(p) : TRUE].content)
      BY DEF Outcomes
    <2>2. CASE Hit(p) # {}
      <3>1. (CHOOSE i \in Hit(p) : TRUE) \in Hit(p)
        BY <2>2
      <3>2. QED
        BY <2>1, <2>2, <3>1
    <2>3. QED
      BY <2>1, <2>2
  <1>3. \A c \in Contents : Outcome(status, c) \in T
    BY DEF Outcome
  <1>4. DOMAIN O = Paths /\ O = [p \in Paths |-> O[p]]
    BY DEF Outcomes
  <1> HIDE DEF O, T
  <1>5. \A p \in Paths : O[p] \in T
    BY <1>1, <1>2, <1>3
  <1>6. O \in [Paths -> T]
    BY <1>4, <1>5
  <1>7. QED
    BY <1>2, <1>6 DEF O, T

-----------------------------------------------------------------------------
(* The actions of a thread. *)

\* A thread takes the next file, or the files of the analyze command.
LEMMA TakeStep ==
    ASSUME BackedInv, NEW w \in Workers, Take(w)
    PROVE  Effect(w) /\ Reports(w) /\ w \in Active
  <1> DEFINE fs == Head(run.pending)
  <1>1. Shape /\ RawRight /\ SourcesSeen /\ run \in Runs
    BY DEF BackedInv, Shape
  <1>2. run.pending \in Seq(Batches) /\ run.pending # << >> /\ run.phase = "working" /\ w \in Active
    BY <1>1, RunParts DEF Take
  <1>3. fs = run.pending[1] /\ 1 \in DOMAIN run.pending /\ run.pending[1] \in Batches
    BY <1>2
  <1>4. job'[w] = [Idle EXCEPT !.step = "extract", !.files = fs] /\ Moved(w)
    BY <1>1, IdleFacts DEF Take, Shape, Moved
  <1>5. /\ job'[w].step = "extract" /\ job'[w].files = fs /\ job'[w].file = 1 /\ job'[w].got = << >>
    BY <1>4, IdleFacts
  <1>6. Adds /\ UNCHANGED <<source, outdated, checkpoint>>
    BY <1>1, NothingAdded DEF Take, history
  <1>7. \A k \in DOMAIN fs : AsSeen(fs[k].path, fs[k].content)
    BY <1>1, <1>2, <1>3 DEF SourcesSeen
  <1>8. fs \in Seq(Files) /\ Len(fs) \in Nat /\ Len(fs) >= 1
    <2>1. fs \in Seq(Files) /\ fs # << >>
      BY <1>3 DEF Batches
    <2>2. QED
      BY <2>1
  <1>9. JobShape(w)'
    <2>1. job'[w].files \in Seq(Files) /\ job'[w].file \in 1 .. Len(job'[w].files)
          /\ job'[w].got \in Seq(Gots)
      BY <1>5, <1>8
    <2>2. QED
      BY <1>4, <1>5, <2>1 DEF JobShape, Moved
  <1>10. Sound(w)'
    BY <1>5, <1>6, <1>7 DEF Sound, At, AsSeen
  <1>11. Effect(w)
    BY <1>4, <1>6, <1>9, <1>10 DEF Effect
  <1>12. run' = [run EXCEPT !.pending = Tail(@)]
    BY DEF Take
  <1>13. /\ Tail(run.pending) \in Seq(Batches)
         /\ \A i \in DOMAIN Tail(run.pending) : \E k \in DOMAIN run.pending : Tail(run.pending)[i] = run.pending[k]
    <2>1. /\ Tail(run.pending) \in Seq(Batches) /\ Len(run.pending) \in Nat
          /\ Len(Tail(run.pending)) = Len(run.pending) - 1
          /\ \A i \in 1 .. Len(run.pending) - 1 : Tail(run.pending)[i] = run.pending[i + 1]
      BY <1>2
    <2>2. DOMAIN Tail(run.pending) = 1 .. Len(run.pending) - 1
          /\ DOMAIN run.pending = 1 .. Len(run.pending)
      BY <1>2, <2>1
    <2>3. \A i \in 1 .. Len(run.pending) - 1 : i + 1 \in 1 .. Len(run.pending)
      BY <2>1
    <2>4. QED
      BY <2>1, <2>2, <2>3, Zenon
  <1>14. run' \in Runs /\ run'.pool = run.pool /\ run'.command = run.command
         /\ run'.phase = run.phase /\ run'.pending = Tail(run.pending)
         /\ run'.completed = run.completed /\ run'.outcomes = run.outcomes
    <2> HIDE DEF Batches
    <2>1. QED
      BY <1>1, <1>12, <1>13 DEF Runs
  <1>15. Reports(w)
    BY <1>2, <1>6, <1>13, <1>14 DEF Reports
  <1>16. QED
    BY <1>2, <1>11, <1>15

\* What a thread that works relies on.
LEMMA Relied ==
    ASSUME BackedInv, NEW w \in Workers, ~At(w, "idle")
    PROVE  /\ Shape /\ RawRight /\ Working /\ SourcesSeen /\ Sound(w) /\ run \in Runs
           /\ run.phase = "working" /\ w \in Active
  BY AtWork DEF BackedInv, Shape

\* A file is extracted.
LEMMA ExtractStep ==
    ASSUME BackedInv, NEW w \in Workers, Extract(w)
    PROVE  Effect(w) /\ Reports(w) /\ w \in Active
  <1> DEFINE c == source[File(w).path]
  <1>1. ~At(w, "idle") /\ At(w, "extract") /\ c # Missing
        /\ job' = [job EXCEPT ![w].step = "persist", ![w].read = c]
        /\ UNCHANGED <<source, raw, changed, outdated, checkpoint, run>>
    BY DEF Extract, At, history
  <1>2. Shape /\ RawRight /\ Sound(w) /\ run.phase = "working" /\ w \in Active
    BY <1>1, Relied
  <1>3. c \in Contents
    BY <1>1, <1>2, FileFacts DEF Shape
  <1>4. Carries(w) /\ job'[w].step = "persist" /\ job'[w].read = c
    BY <1>1, <1>2, JobParts DEF Carries, Moved
  <1>5. Adds
    BY <1>1, <1>2, NothingAdded
  <1>6. QED
    BY <1>1, <1>2, <1>3, <1>4, <1>5, CarriedEffect, QuietReports

\* Or it is reported as failed.
LEMMA ExtractErrorStep ==
    ASSUME BackedInv, NEW w \in Workers, ExtractError(w)
    PROVE  Effect(w) /\ Reports(w) /\ w \in Active
  <1>1. ~At(w, "idle") /\ run' = [run EXCEPT !.outcomes = Outcomes(<<File(w)>>, "failed")]
        /\ job' = [job EXCEPT ![w] = Onward(w, job[w].got)]
        /\ UNCHANGED <<source, raw, changed, outdated, checkpoint>>
    BY DEF ExtractError, At, history
  <1>2. Shape /\ RawRight /\ Sound(w) /\ run.phase = "working" /\ w \in Active /\ run \in Runs
    BY <1>1, Relied
  <1>3. Adds
    BY <1>1, <1>2, NothingAdded
  <1>4. Effect(w)
    BY <1>1, <1>2, <1>3, OnwardProceeds, StoppedEffect, ProceededEffect
  <1>5. /\ Outcomes(<<File(w)>>, "failed") \in [Paths -> [status : Statuses,
                                content : Contents \cup {Nothing}, bundle : BOOLEAN]]
        /\ \A p \in Paths :
             \/ Outcomes(<<File(w)>>, "failed")[p] = run.outcomes[p]
             \/ Outcomes(<<File(w)>>, "failed")[p].status = "failed"
    <2>1. \A i \in DOMAIN <<File(w)>> : <<File(w)>>[i].path \in Paths /\ <<File(w)>>[i].content \in Contents
      BY <1>1, <1>2, FileFacts
    <2>2. "failed" \in Statuses
      BY DEF Statuses
    <2>3. \A c : Outcome("failed", c).status = "failed"
      BY DEF Outcome
    <2>4. QED
      BY <1>2, <2>1, <2>2, <2>3, OutcomesFacts
  <1>6. Reports(w)
    <2>1. run' \in Runs /\ run'.pool = run.pool /\ run'.command = run.command
          /\ run'.phase = run.phase /\ run'.pending = run.pending /\ run'.completed = run.completed
          /\ run'.outcomes = Outcomes(<<File(w)>>, "failed")
      BY <1>1, <1>2, <1>5 DEF Runs
    <2>2. QED
      BY <1>1, <1>2, <1>5, <2>1 DEF Reports
  <1>7. QED
    BY <1>2, <1>4, <1>6

\* A version that is complete is taken as it is.
LEMMA PersistStep ==
    ASSUME BackedInv, NEW w \in Workers, Persist(w)
    PROVE  Effect(w) /\ Reports(w) /\ w \in Active
  <1> DEFINE c == File(w).content
  <1>1. ~At(w, "idle") /\ At(w, "persist")
        /\ UNCHANGED <<source, raw, changed, outdated, checkpoint, run>>
    BY DEF Persist, At, history
  <1>2. Shape /\ RawRight /\ Sound(w) /\ run.phase = "working" /\ w \in Active
    BY <1>1, Relied
  <1>3. c \in Contents /\ job[w].read \in Contents
    BY <1>1, <1>2, FileFacts DEF Shape, JobShape, At
  <1>4. Adds
    BY <1>1, <1>2, NothingAdded
  <1>5. CASE Exists(c) /\ Kept(w)
    <2>1. Good(c)
      BY <1>2, <1>3, <1>5 DEF RawRight, Exists
    <2>2. \A d \in Contents : d = File(w).content => Good(d)'
      BY <1>1, <2>1 DEF Good
    <2>3. Effect(w)
      BY <1>1, <1>2, <1>3, <1>4, <1>5, <2>2, KeptProceeds, StoppedEffect, ProceededEffect
    <2>4. QED
      BY <1>1, <1>2, <2>3, QuietReports
  <1>6. CASE \E s \in {"stage", "repair"} : Step(w, s)
    <2>1. PICK s \in {"stage", "repair"} : Step(w, s)
      BY <1>6
    <2>2. Carries(w) /\ job'[w].step = s /\ job'[w].read = job[w].read
      BY <1>2, <2>1, StepCarries
    <2>3. Effect(w)
      BY <1>1, <1>2, <1>3, <1>4, <2>1, <2>2, CarriedEffect
    <2>4. QED
      BY <1>1, <1>2, <2>3, QuietReports
  <1>7. QED
    BY <1>5, <1>6 DEF Persist

\* What writes under raw/.
LEMMA StageStep ==
    ASSUME BackedInv, NEW w \in Workers, Stage(w)
    PROVE  Effect(w) /\ Reports(w) /\ w \in Active
  <1>1. ~At(w, "idle") /\ At(w, "stage") /\ Kept(w)
        /\ UNCHANGED <<source, outdated, checkpoint, run>>
    BY DEF Stage, At
  <1>2. Shape /\ RawRight /\ Sound(w) /\ run.phase = "working" /\ w \in Active
    BY <1>1, Relied
  <1>3. job[w].read \in Contents
    BY <1>1, <1>2 DEF Shape, JobShape, At
  <1>4. Adds /\ \A d \in Contents : d = File(w).content => Good(d)'
    BY <1>2, StageAdds
  <1>5. QED
    BY <1>1, <1>2, <1>3, <1>4, KeptProceeds, StoppedEffect, ProceededEffect, QuietReports

\* The last file of a repair.
LEMMA RepairMapStep ==
    ASSUME BackedInv, NEW w \in Workers, RepairMap(w)
    PROVE  Effect(w) /\ Reports(w) /\ w \in Active
  <1>1. ~At(w, "idle") /\ At(w, "repair map") /\ Kept(w)
        /\ UNCHANGED <<source, outdated, checkpoint, run>>
    BY DEF RepairMap, At, history
  <1>2. Shape /\ RawRight /\ Sound(w) /\ run.phase = "working" /\ w \in Active
    BY <1>1, Relied
  <1>3. job[w].read \in Contents
    BY <1>1, <1>2 DEF Shape, JobShape, At
  <1>4. Adds /\ \A d \in Contents : d = File(w).content => Good(d)'
    BY <1>2, RepairMapAdds
  <1>5. QED
    BY <1>1, <1>2, <1>3, <1>4, KeptProceeds, StoppedEffect, ProceededEffect, QuietReports

\* The first one.
LEMMA RepairOriginalStep ==
    ASSUME BackedInv, NEW w \in Workers, RepairOriginal(w)
    PROVE  Effect(w) /\ Reports(w) /\ w \in Active
  <1> DEFINE c == File(w).content
  <1>1. ~At(w, "idle") /\ At(w, "repair") /\ Step(w, "repair manifest")
        /\ UNCHANGED <<source, outdated, checkpoint, run>>
    BY DEF RepairOriginal, At
  <1>2. Shape /\ RawRight /\ Sound(w) /\ run.phase = "working" /\ w \in Active
    BY <1>1, Relied
  <1>3. job[w].read \in Contents
    BY <1>1, <1>2 DEF Shape, JobShape, At
  <1>4. Carries(w) /\ job'[w].step = "repair manifest" /\ job'[w].read = job[w].read
    BY <1>1, <1>2, StepCarries
  <1>5. /\ Adds
        /\ raw'[c].original # Nothing /\ raw'[c].manifest \in {Nothing, c}
        /\ c \in changed' \/ (raw'[c].original = c /\ job[w].read = c)
    BY <1>2, RepairOriginalAdds
  <1>6. Repairs(w)'
    <2>1. File(w)' = File(w)
      BY <1>4 DEF Carries, File
    <2>2. QED
      BY <1>4, <1>5, <2>1 DEF Repairs, At
  <1>7. QED
    BY <1>1, <1>2, <1>3, <1>4, <1>5, <1>6, CarriedEffect, QuietReports

\* And the one between.
LEMMA RepairManifestStep ==
    ASSUME BackedInv, NEW w \in Workers, RepairManifest(w)
    PROVE  Effect(w) /\ Reports(w) /\ w \in Active
  <1> DEFINE c == File(w).content
  <1>1. ~At(w, "idle") /\ At(w, "repair manifest") /\ Step(w, "repair map")
        /\ UNCHANGED <<source, outdated, checkpoint, run>>
    BY DEF RepairManifest, At, history
  <1>2. Shape /\ RawRight /\ Sound(w) /\ run.phase = "working" /\ w \in Active
    BY <1>1, Relied
  <1>3. job[w].read \in Contents
    BY <1>1, <1>2 DEF Shape, JobShape, At
  <1>4. Carries(w) /\ job'[w].step = "repair map" /\ job'[w].read = job[w].read
    BY <1>1, <1>2, StepCarries
  <1>5. /\ Adds
        /\ raw'[c].original # Nothing /\ raw'[c].manifest = c
        /\ c \in changed' \/ (raw'[c].original = c /\ job[w].read = c)
    BY <1>2, RepairManifestAdds
  <1>6. Repairs(w)'
    <2>1. File(w)' = File(w)
      BY <1>4 DEF Carries, File
    <2>2. QED
      BY <1>4, <1>5, <2>1 DEF Repairs, At
  <1>7. QED
    BY <1>1, <1>2, <1>3, <1>4, <1>5, <1>6, CarriedEffect, QuietReports

\* The requests to the model.
LEMMA ModelStep ==
    ASSUME BackedInv, NEW w \in Workers,
           Map(w) \/ Reduce(w) \/ Book(w) \/ Skills(w) \/ Review(w)
    PROVE  Effect(w) /\ Reports(w) /\ w \in Active
  <1>1. Shape
    BY DEF BackedInv
  <1>2. /\ Carries(w) /\ job'[w].read = job[w].read /\ ~At(w, "idle")
        /\ job[w].step \in {"map", "reduce", "book", "skills", "review"}
        /\ job'[w].step \in {"map", "reduce", "book", "skills", "review", "finish"}
        /\ UNCHANGED <<source, raw, checkpoint, run, changed, outdated>>
    BY <1>1, ModelCarries DEF history
  <1>3. RawRight /\ Sound(w) /\ run.phase = "working" /\ w \in Active
    BY <1>2, Relied
  <1>4. job[w].read \in Contents \cup {Nothing}
    BY <1>1, <1>2 DEF Shape, JobShape
  <1>5. Adds
    BY <1>1, <1>2, <1>3, NothingAdded
  <1>6. QED
    BY <1>1, <1>2, <1>3, <1>4, <1>5, CarriedEffect, QuietReports

\* What nobody catches.
LEMMA FailingStep ==
    ASSUME BackedInv, NEW w \in Workers,
           StageRefused(w) \/ RepairRefused(w) \/ ReviewRefused(w) \/ WriteFault(w)
    PROVE  Effect(w) /\ Reports(w) /\ w \in Active
  <1>1. ~At(w, "idle") /\ Fails(w) /\ UNCHANGED <<source, raw, changed, outdated, checkpoint>>
    BY DEF StageRefused, RepairRefused, ReviewRefused, WriteFault, At, history
  <1>2. Shape /\ RawRight /\ run.phase = "working" /\ w \in Active
    BY <1>1, Relied
  <1>3. Adds
    BY <1>1, <1>2, NothingAdded
  <1>4. QED
    BY <1>1, <1>2, <1>3, FailsReports, StoppedEffect

\* The model fails: a file of a batch, or the analyze command.
LEMMA ModelFailsStep ==
    ASSUME BackedInv, NEW w \in Workers, ModelFails(w)
    PROVE  Effect(w) /\ Reports(w) /\ w \in Active
  <1>1. ~At(w, "idle") /\ job' = [job EXCEPT ![w] = Idle]
        /\ UNCHANGED <<source, raw, changed, outdated, checkpoint>>
    BY DEF ModelFails, At, history
  <1>2. Shape /\ RawRight /\ run.phase = "working" /\ w \in Active /\ run \in Runs /\ Working
    BY <1>1, Relied
  <1>3. Adds /\ Stops(w)
    BY <1>1, <1>2, NothingAdded, MadeIdle
  <1>4. Effect(w)
    BY <1>1, <1>2, <1>3, StoppedEffect
  <1>5. CASE run.command = "batch"
    <2>1. run' = [run EXCEPT !.outcomes = Outcomes(job[w].got, "failed")]
      BY <1>5 DEF ModelFails
    <2>2. /\ Outcomes(job[w].got, "failed") \in [Paths -> [status : Statuses,
                                content : Contents \cup {Nothing}, bundle : BOOLEAN]]
          /\ \A p \in Paths :
               \/ Outcomes(job[w].got, "failed")[p] = run.outcomes[p]
               \/ Outcomes(job[w].got, "failed")[p].status = "failed"
      <3>1. "failed" \in Statuses /\ \A c : Outcome("failed", c).status = "failed"
        BY DEF Statuses, Outcome
      <3>2. QED
        BY <1>1, <1>2, <3>1, MemberFacts, OutcomesFacts
    <2>3. run' \in Runs /\ run'.pool = run.pool /\ run'.command = run.command
          /\ run'.phase = run.phase /\ run'.pending = run.pending /\ run'.completed = run.completed
          /\ run'.outcomes = Outcomes(job[w].got, "failed")
      BY <1>2, <2>1, <2>2 DEF Runs
    <2>4. Reports(w)
      BY <1>1, <1>2, <2>2, <2>3 DEF Reports
    <2>5. QED
      BY <1>2, <1>4, <2>4
  <1>6. CASE run.command # "batch"
    <2>1. run' = [run EXCEPT !.phase = "raised"] /\ ~run.pool
      BY <1>2, <1>6 DEF ModelFails, Working
    <2>2. run' \in Runs /\ run'.pool = run.pool /\ run'.command = run.command
          /\ run'.phase = "raised" /\ run'.pending = run.pending /\ run'.completed = run.completed
          /\ run'.outcomes = run.outcomes
      BY <1>2, <2>1 DEF Runs, Phases
    <2>3. Reports(w)
      BY <1>1, <1>3, <2>1, <2>2 DEF Reports, Stops
    <2>4. QED
      BY <1>2, <1>4, <2>3
  <1>7. QED
    BY <1>5, <1>6

\* The end of an analysis reports its files.
LEMMA FinishStep ==
    ASSUME BackedInv, NEW w \in Workers, Finish(w)
    PROVE  Effect(w) /\ Reports(w) /\ w \in Active
  <1> DEFINE got == job[w].got
             after == run.completed \cup {d[1] : d \in Done(w)}
  <1>1. ~At(w, "idle") /\ job' = [job EXCEPT ![w] = Idle]
        /\ run' = [run EXCEPT !.completed = after, !.outcomes = Outcomes(got, "success")]
        /\ UNCHANGED <<source, raw, changed, outdated>>
        /\ (checkpoint' = checkpoint \/ checkpoint' = after)
    BY DEF Finish, Saves, At
  <1>2. Shape /\ RawRight /\ run.phase = "working" /\ w \in Active /\ run \in Runs /\ Sound(w)
    BY <1>1, Relied
  <1>3. Adds /\ Stops(w)
    BY <1>1, <1>2, NothingAdded, MadeIdle
  <1>4. Effect(w)
    BY <1>1, <1>2, <1>3, StoppedEffect
  <1>5. \A k \in DOMAIN got : /\ got[k].path \in Paths /\ got[k].content \in Contents
                              /\ Good(got[k].content) /\ AsSeen(got[k].path, got[k].content)
    BY <1>1, <1>2, MemberFacts DEF Sound
  <1>6. /\ Outcomes(got, "success") \in [Paths -> [status : Statuses,
                                content : Contents \cup {Nothing}, bundle : BOOLEAN]]
        /\ \A p \in Paths :
             \/ Outcomes(got, "success")[p] = run.outcomes[p]
             \/ \E c \in Contents : c = Outcomes(got, "success")[p].content /\ Good(c)
    <2>1. "success" \in Statuses /\ \A c : Outcome("success", c).content = c
      BY DEF Statuses, Outcome
    <2>2. QED
      BY <1>2, <1>5, <2>1, OutcomesFacts
  <1>7. \A p \in after : p \in run.completed \/ (p \in Paths /\ Vouched(p))
    <2>1. ASSUME NEW k \in DOMAIN got PROVE Vouched(got[k].path)
      BY <1>5 DEF AsSeen, Vouched
    <2>2. \A d \in Done(w) : \E k \in DOMAIN got : d[1] = got[k].path
      BY DEF Done
    <2>3. QED
      BY <1>5, <2>1, <2>2
  <1>8. run.completed \subseteq Paths /\ after \subseteq Paths
    BY <1>2, <1>7, RunParts
  <1>9. run' \in Runs /\ run'.pool = run.pool /\ run'.command = run.command
        /\ run'.phase = run.phase /\ run'.pending = run.pending /\ run'.completed = after
        /\ run'.outcomes = Outcomes(got, "success")
    <2> HIDE DEF after
    <2>1. QED
      BY <1>1, <1>2, <1>6, <1>8 DEF Runs
  <1>10. Reports(w)
    BY <1>1, <1>2, <1>6, <1>7, <1>9 DEF Reports
  <1>11. QED
    BY <1>2, <1>4, <1>10

\* What every action of a thread does.
LEMMA WorksStep ==
    ASSUME BackedInv, NEW w \in Workers, Works(w)
    PROVE  Effect(w) /\ Reports(w) /\ w \in Active
  BY TakeStep, ExtractStep, ExtractErrorStep, PersistStep, StageStep, RepairOriginalStep,
     RepairManifestStep, RepairMapStep, ModelStep, FailingStep, ModelFailsStep, FinishStep, Zenon
     DEF Works

-----------------------------------------------------------------------------
(* The invariant of SuccessBacked. *)

\* The command takes over what is reported of a path that did not change.
LEMMA ReportedStays ==
    ASSUME Shape, Adds, outdated \subseteq outdated', Reported, NEW p \in Paths,
           \/ run'.outcomes[p].status = run.outcomes[p].status
              /\ run'.outcomes[p].content = run.outcomes[p].content
           \/ run'.outcomes[p].status \notin {"success", "resumed"}
           \/ \E c \in Contents : c = run'.outcomes[p].content /\ Good(c)
    PROVE  run'.outcomes[p].status \in {"success", "resumed"} =>
             /\ run'.outcomes[p].content \in Contents
             /\ Good(run.outcomes[p].content)' \/ p \in outdated'
  <1>1. ASSUME NEW c \in Contents, c = run'.outcomes[p].content, Good(c) \/ p \in outdated
        PROVE  Good(run.outcomes[p].content)' \/ p \in outdated'
    <2>1. Good(c) => Good(c)'
      BY GoodStays
    <2>2. QED
      BY <1>1, <2>1 DEF Good
  <1>2. CASE \E c \in Contents : c = run'.outcomes[p].content /\ Good(c)
    BY <1>1, <1>2
  <1>3. CASE /\ run'.outcomes[p].status = run.outcomes[p].status
             /\ run'.outcomes[p].content = run.outcomes[p].content
             /\ run.outcomes[p].status \in {"success", "resumed"}
    <2>1. run.outcomes[p].content \in Contents /\ (Good(run.outcomes[p].content) \/ p \in outdated)
      BY <1>3 DEF Reported
    <2>2. PICK c \in Contents : c = run'.outcomes[p].content /\ (Good(c) \/ p \in outdated)
      BY <1>3, <2>1
    <2>3. QED
      BY <1>1, <2>2
  <1>4. QED
    BY <1>2, <1>3

\* The invariant is kept by whatever a thread does.
LEMMA WorksBacked ==
    ASSUME BackedInv, NEW w \in Workers, Works(w)
    PROVE  BackedInv'
  <1>1. Shape /\ Working /\ RawRight /\ SourcesSeen /\ Reported /\ \A v \in Workers : Sound(v)
    BY DEF BackedInv
  <1>2. Effect(w) /\ Reports(w) /\ w \in Active
    BY WorksStep
  <1>3. Adds /\ Outdates /\ Moved(w) /\ JobShape(w)' /\ Sound(w)' /\ UNCHANGED <<source, outdated>>
    BY <1>2, Steady DEF Effect
  <1>4. \A v \in Workers : JobShape(v)' /\ Sound(v)'
    <2>1. ASSUME NEW v \in Workers, v # w PROVE JobShape(v)' /\ Sound(v)'
      BY <1>1, <1>3, <2>1, UnmovedSound DEF Moved
    <2>2. QED
      BY <1>3, <2>1
  <1>5. Shape'
    <2>1. checkpoint' \subseteq Paths
      BY <1>1, <1>2, RunParts DEF Shape, Reports
    <2>2. raw' \in [Contents -> RawVersions] /\ source' \in [Paths -> Contents \cup {Missing}]
      BY <1>1, <1>3 DEF Adds, Shape
    <2>3. QED
      BY <1>2, <1>3, <1>4, <2>1, <2>2 DEF Shape, Moved, Reports
  <1>6. run.phase = "working"
    <2>1. CASE ~At(w, "idle")
      BY <1>1, <2>1, AtWork
    <2>2. CASE At(w, "idle")
      BY <2>2 DEF Works, Take, Extract, ExtractError, Persist, Stage, StageRefused, RepairOriginal,
         RepairManifest, RepairMap, RepairRefused, Map, Reduce, Book, Skills, Review, ReviewRefused,
         Finish, ModelFails, WriteFault, At
    <2>3. QED
      BY <2>1, <2>2
  <1>7. Working'
    <2>1. ASSUME run'.phase # "working" PROVE \A v \in Workers : job'[v].step = "idle"
      <3>1. ~run.pool /\ job'[w].step = "idle"
        BY <1>2, <2>1 DEF Reports
      <3>2. w = 1 /\ \A v \in Workers : v # w => v \notin Active
        BY <1>2, <3>1 DEF Active
      <3>3. \A v \in Workers : v # w => job'[v].step = "idle"
        BY <1>1, <1>3, <3>2 DEF Working, Moved, At
      <3>4. QED
        BY <3>1, <3>3
    <2>2. \A v \in Workers : v \notin Active' => job'[v].step = "idle"
      <3>1. Active' = Active
        BY <1>2 DEF Reports, Active
      <3>2. QED
        BY <1>1, <1>2, <1>3, <3>1 DEF Working, Moved, At
    <2>3. run'.command # "batch" => ~run'.pool
      BY <1>1, <1>2 DEF Working, Reports
    <2>4. QED
      BY <2>1, <2>2, <2>3 DEF Working, AllIdle, At
  <1>8. RawRight'
    BY <1>3 DEF RawRight, Adds
  <1>9. SourcesSeen'
    <2>1. \A p \in Paths : Vouched(p) => Vouched(p)'
      BY <1>1, <1>3, VouchStays
    <2>2. \A p \in checkpoint : p \in Paths /\ Vouched(p)
      BY <1>1 DEF Shape, SourcesSeen
    <2>3. \A p \in run.completed : p \in Paths /\ Vouched(p)
      BY <1>1, <1>6, RunParts DEF Shape, SourcesSeen
    <2>4. run'.completed \subseteq Paths
      BY <1>2, RunParts DEF Reports
    <2>5. \A p \in run'.completed : Vouched(p)'
      BY <1>2, <2>1, <2>3, <2>4 DEF Reports
    <2>6. \A p \in checkpoint' : Vouched(p)'
      BY <1>2, <2>1, <2>2, <2>5 DEF Reports
    <2>7. ASSUME NEW i \in DOMAIN run'.pending, NEW k \in DOMAIN run'.pending[i]
          PROVE  AsSeen(run.pending[i][k].path, run.pending[i][k].content)'
      <3>1. PICK h \in DOMAIN run.pending : run'.pending[i] = run.pending[h]
        BY <1>2 DEF Reports
      <3>2. AsSeen(run.pending[h][k].path, run.pending[h][k].content)
        BY <1>1, <1>6, <2>7, <3>1 DEF SourcesSeen
      <3>3. QED
        BY <1>3, <3>1, <3>2 DEF AsSeen
    <2>8. QED
      BY <2>5, <2>6, <2>7 DEF SourcesSeen
  <1>10. Reported'
    <2>1. ASSUME NEW p \in Paths
          PROVE  run'.outcomes[p].status \in {"success", "resumed"} =>
                   /\ run'.outcomes[p].content \in Contents
                   /\ Good(run.outcomes[p].content)' \/ p \in outdated'
      <3>1. \/ run'.outcomes[p].status = run.outcomes[p].status
               /\ run'.outcomes[p].content = run.outcomes[p].content
            \/ run'.outcomes[p].status \notin {"success", "resumed"}
            \/ \E c \in Contents : c = run'.outcomes[p].content /\ Good(c)
        BY <1>2 DEF Reports
      <3>2. outdated \subseteq outdated'
        BY <1>3
      <3>3. QED
        BY <1>1, <1>3, <3>1, <3>2, ReportedStays
    <2>2. QED
      BY <2>1 DEF Reported
  <1>11. QED
    BY <1>4, <1>5, <1>7, <1>8, <1>9, <1>10 DEF BackedInv

\* Nothing works, before and after.
LEMMA RestBacked ==
    ASSUME BackedInv, AllIdle, Adds, outdated \subseteq outdated', run' \in Runs,
           source' \in [Paths -> Contents \cup {Missing}], checkpoint' \subseteq Paths,
           DOMAIN job' = Workers,
           \A w \in Workers : {"step", "files", "file", "read", "got"} \subseteq DOMAIN job'[w]
                              /\ job'[w].step = "idle",
           run'.command # "batch" => ~run'.pool,
           run'.phase # "working",
           \A p \in checkpoint' : Vouched(p)',
           \A p \in Paths :
               \/ run'.outcomes[p].status = run.outcomes[p].status
                  /\ run'.outcomes[p].content = run.outcomes[p].content
               \/ run'.outcomes[p].status \notin {"success", "resumed"}
    PROVE  BackedInv'
  <1>1. Shape /\ Reported
    BY DEF BackedInv
  <1>2. Shape'
    <2>1. \A w \in Workers : JobShape(w)'
      BY DEF JobShape
    <2>2. raw' \in [Contents -> RawVersions]
      BY DEF Adds
    <2>3. QED
      BY <2>1, <2>2 DEF Shape
  <1>3. Working'
    BY DEF Working, AllIdle, At
  <1>4. RawRight'
    BY DEF RawRight, Adds
  <1>5. \A w \in Workers : Sound(w)'
    BY DEF Sound, At
  <1>6. SourcesSeen'
    BY DEF SourcesSeen
  <1>7. Reported'
    BY <1>1, ReportedStays DEF Reported
  <1>8. QED
    BY <1>2, <1>3, <1>4, <1>5, <1>6, <1>7 DEF BackedInv

\* The command and its threads are left alone.
LEMMA AroundBacked ==
    ASSUME BackedInv, Adds, Outdates, UNCHANGED <<run, job>>,
           source' \in [Paths -> Contents \cup {Missing}],
           checkpoint' = checkpoint \/ (run.phase = "working" /\ checkpoint' = run.completed)
    PROVE  BackedInv'
  <1>1. Shape /\ Working /\ RawRight /\ SourcesSeen /\ Reported /\ \A v \in Workers : Sound(v)
    BY DEF BackedInv
  <1>2. \A v \in Workers : JobShape(v)' /\ Sound(v)'
    BY <1>1, UnmovedSound
  <1>3. Shape'
    BY <1>1, <1>2, RunParts DEF Shape, Adds
  <1>4. Working'
    BY <1>1 DEF Working, AllIdle, At, Active
  <1>5. RawRight'
    BY DEF RawRight, Adds
  <1>6. SourcesSeen'
    <2>1. \A p \in Paths : Vouched(p) => Vouched(p)'
      BY <1>1, VouchStays
    <2>2. run.completed \subseteq Paths /\ checkpoint \subseteq Paths
      BY <1>1, RunParts DEF Shape
    <2>3. run.phase = "working" => \A p \in run.completed : Vouched(p)'
      BY <1>1, <2>1, <2>2 DEF SourcesSeen
    <2>4. \A p \in checkpoint' : Vouched(p)'
      BY <1>1, <2>1, <2>2, <2>3 DEF SourcesSeen
    <2>5. ASSUME run.phase = "working", NEW i \in DOMAIN run.pending, NEW k \in DOMAIN run.pending[i]
          PROVE  AsSeen(run.pending[i][k].path, run.pending[i][k].content)'
      <3>1. run.pending[i] \in Batches
        BY <1>1, <2>5, RunParts DEF Shape
      <3>2. run.pending[i][k] \in Files
        BY <2>5, <3>1 DEF Batches
      <3>3. PICK p \in Paths, c \in Contents :
              p = run.pending[i][k].path /\ c = run.pending[i][k].content /\ AsSeen(p, c)
        BY <1>1, <2>5, <3>2 DEF Files, SourcesSeen
      <3>4. AsSeen(p, c)'
        BY <3>3, SeenStays
      <3>5. QED
        BY <3>3, <3>4 DEF AsSeen
    <2>6. QED
      BY <2>3, <2>4, <2>5 DEF SourcesSeen
  <1>7. Reported'
    BY <1>1, ReportedStays DEF Reported, Outdates
  <1>8. QED
    BY <1>2, <1>3, <1>4, <1>5, <1>6, <1>7 DEF BackedInv

\* A command that has not begun, and what idle threads look like.
LEMMA DownFacts ==
    /\ Down \in Runs /\ Down.phase = "down" /\ Down.command = "none" /\ ~Down.pool /\ ~Down.resume
    /\ Down.completed = {} /\ Down.pending = << >>
    /\ \A p \in Paths : Down.outcomes[p].status = "none"
  <1>1. NoOutcome \in [status : Statuses, content : Contents \cup {Nothing}, bundle : BOOLEAN]
    BY DEF NoOutcome, Statuses
  <1>2. << >> \in Seq(Batches)
    OBVIOUS
  <1> HIDE DEF Batches
  <1>3. QED
    BY <1>1, <1>2 DEF Down, Runs, Phases, NoOutcome

\* Threads that do not work are idle.
LEMMA IdleJobs ==
    ASSUME Shape, AllIdle
    PROVE  /\ DOMAIN job = Workers
           /\ \A w \in Workers : {"step", "files", "file", "read", "got"} \subseteq DOMAIN job[w]
                                 /\ job[w].step = "idle"
  BY DEF Shape, JobShape, AllIdle, At

\* The parts of the invariant when nothing works and raw/ is left alone.
LEMMA RestParts ==
    ASSUME BackedInv, AllIdle, UNCHANGED <<raw, changed>>
    PROVE  /\ Shape /\ Adds /\ run \in Runs
           /\ source \in [Paths -> Contents \cup {Missing}] /\ checkpoint \subseteq Paths
           /\ \A p \in checkpoint : p \in Paths /\ Vouched(p)
           /\ run.command # "batch" => ~run.pool
  <1>1. Shape /\ RawRight /\ Working /\ SourcesSeen
    BY DEF BackedInv
  <1>2. Adds
    BY <1>1, NothingAdded
  <1>3. QED
    BY <1>1, <1>2 DEF Shape, Working, SourcesSeen

\* Between two commands, or when one is worked off, no thread works.
LEMMA RestIdle ==
    ASSUME BackedInv, run.phase # "working"
    PROVE  AllIdle
  BY DEF BackedInv, Working

\* A command starts with no reports.
LEMMA StartBacked ==
    ASSUME BackedInv, Start
    PROVE  BackedInv'
  <1>1. PICK command \in {"analyze", "batch"}, resume \in BOOLEAN, pool \in BOOLEAN :
          /\ command = "analyze" => ~resume /\ ~pool
          /\ run' = [Down EXCEPT !.phase = "gate", !.command = command, !.resume = resume,
                                 !.pool = pool]
    BY DEF Start
  <1>2. run.phase # "working" /\ UNCHANGED <<source, raw, checkpoint, job, changed, outdated>>
    BY DEF Start
  <1>3. AllIdle
    BY <1>2, RestIdle
  <1>4. run' \in Runs /\ run'.phase = "gate" /\ run'.command = command /\ run'.pool = pool
        /\ run'.outcomes = Down.outcomes
    BY <1>1, DownFacts DEF Runs, Phases
  <1>5. \A p \in checkpoint' : Vouched(p)'
    BY <1>2, <1>3, RestParts DEF Vouched, Good
  <1>6. \A p \in Paths : run'.outcomes[p].status \notin {"success", "resumed"}
    BY <1>4, DownFacts
  <1>7. QED
    BY <1>1, <1>2, <1>3, <1>4, <1>5, <1>6, RestParts, IdleJobs, RestBacked

\* A process that dies leaves raw/ and the checkpoint.
LEMMA CrashBacked ==
    ASSUME BackedInv, Crash
    PROVE  BackedInv'
  <1>1. run' = Down /\ job' = [w \in Workers |-> Idle]
        /\ UNCHANGED <<source, raw, checkpoint, changed, outdated>>
    BY DEF Crash
  <1>2. Shape /\ RawRight /\ Working /\ SourcesSeen /\ Reported
    BY DEF BackedInv
  <1>3. Adds
    BY <1>1, <1>2, NothingAdded
  <1>4. Shape'
    <2>1. \A w \in Workers : JobShape(w)'
      BY <1>1, IdleFacts DEF JobShape
    <2>2. QED
      BY <1>1, <1>2, <2>1, DownFacts DEF Shape
  <1>5. Working'
    BY <1>1, DownFacts, IdleFacts DEF Working, AllIdle, At
  <1>6. RawRight'
    BY <1>3 DEF RawRight, Adds
  <1>7. \A w \in Workers : Sound(w)'
    BY <1>1, IdleFacts DEF Sound, At
  <1>8. SourcesSeen'
    BY <1>1, <1>2, DownFacts DEF SourcesSeen, Vouched, Good
  <1>9. Reported'
    BY <1>1, DownFacts DEF Reported
  <1>10. QED
    BY <1>4, <1>5, <1>6, <1>7, <1>8, <1>9 DEF BackedInv

\* The steps of the command itself, once its threads are idle.
LEMMA CommandBacked ==
    ASSUME BackedInv, PoolRaises \/ Clear \/ SaveBundle \/ Return
    PROVE  BackedInv'
  <1>1. UNCHANGED <<source, raw, job, changed, outdated>>
    BY DEF PoolRaises, Clear, SaveBundle, Return, history
  <1>2. AllIdle
    <2>1. CASE run.phase = "working"
      BY <2>1 DEF PoolRaises, Clear, SaveBundle, Return, WorkedOff
    <2>2. QED
      BY <2>1, RestIdle
  <1>3. run \in Runs
    BY <1>1, <1>2, RestParts
  <1>4. checkpoint' \subseteq checkpoint
    BY DEF PoolRaises, Clear, SaveBundle, Return
  <1>5. run' \in Runs /\ run'.command = run.command /\ run'.pool = run.pool
        /\ run'.phase \in {"raised", "saving", "over"}
        /\ \A p \in Paths : run'.outcomes[p].status = run.outcomes[p].status
                            /\ run'.outcomes[p].content = run.outcomes[p].content
    <2>1. CASE PoolRaises
      BY <1>3, <2>1 DEF PoolRaises, Runs, Phases
    <2>2. CASE Clear
      BY <1>3, <2>2 DEF Clear, Runs, Phases
    <2>3. CASE Return
      BY <1>3, <2>3 DEF Return, Runs, Phases
    <2>4. CASE SaveBundle
      <3> DEFINE first == CHOOSE p \in Paths : /\ run.outcomes[p].bundle
                                               /\ \A q \in 1 .. p - 1 : ~run.outcomes[q].bundle
                 saved == IF run.command = "analyze" THEN Paths ELSE {first}
                 o == [p \in Paths |-> IF p \in saved THEN [run.outcomes[p] EXCEPT !.bundle = FALSE]
                                       ELSE run.outcomes[p]]
      <3>1. run' = [run EXCEPT !.outcomes = o] /\ run.phase = "saving"
        BY <2>4 DEF SaveBundle
      <3> HIDE DEF saved, first
      <3>2. run.outcomes \in [Paths -> [status : Statuses, content : Contents \cup {Nothing},
                                        bundle : BOOLEAN]]
        BY <1>3, RunParts
      <3>3. o \in [Paths -> [status : Statuses, content : Contents \cup {Nothing}, bundle : BOOLEAN]]
            /\ \A p \in Paths : o[p].status = run.outcomes[p].status
                                /\ o[p].content = run.outcomes[p].content
        BY <3>2
      <3> HIDE DEF o
      <3>4. QED
        BY <1>3, <3>1, <3>3 DEF Runs
    <2>5. QED
      BY <2>1, <2>2, <2>3, <2>4
  <1>6. \A p \in checkpoint' : Vouched(p)'
    BY <1>1, <1>2, <1>4, RestParts DEF Vouched, Good
  <1>7. run'.command # "batch" => ~run'.pool
    BY <1>1, <1>2, <1>5, RestParts
  <1>8. QED
    BY <1>1, <1>2, <1>4, <1>5, <1>6, <1>7, RestParts, IdleJobs, RestBacked

\* The checkpoint of a pool is what counted as done.
LEMMA FlushBacked ==
    ASSUME BackedInv, Flush
    PROVE  BackedInv'
  <1>1. UNCHANGED <<source, raw, job, run, changed, outdated>> /\ run.phase = "working"
        /\ checkpoint' = run.completed
    BY DEF Flush, WorkedOff, history
  <1>2. Adds /\ Outdates
    BY <1>1, NothingAdded, Steady DEF BackedInv
  <1>3. QED
    BY <1>1, <1>2, AroundBacked DEF BackedInv, Shape

\* Another process adds a version that is right.
LEMMA OtherBacked ==
    ASSUME BackedInv, NEW c \in Contents, OtherIngests(c)
    PROVE  BackedInv'
  <1>1. UNCHANGED <<source, job, run, outdated, checkpoint>>
    BY DEF OtherIngests, history
  <1>2. Adds /\ Outdates
    BY <1>1, OtherAdds, Steady DEF BackedInv
  <1>3. QED
    BY <1>1, <1>2, AroundBacked DEF BackedInv, Shape

\* A file changes.
LEMMA ChangeBacked ==
    ASSUME BackedInv, NEW p \in Paths, Change(p)
    PROVE  BackedInv'
  <1>1. PICK c \in Contents \cup {Missing} : source' = [source EXCEPT ![p] = c]
    BY DEF Change
  <1>2. /\ outdated' = IF p \in checkpoint \/ run.phase = "working" THEN outdated \cup {p} ELSE outdated
        /\ UNCHANGED <<raw, job, run, changed, checkpoint>>
    BY DEF Change
  <1>3. Shape /\ RawRight
    BY DEF BackedInv
  <1>4. Adds
    BY <1>2, <1>3, NothingAdded
  <1>5. source' \in [Paths -> Contents \cup {Missing}] /\ \A q \in Paths \ {p} : source'[q] = source[q]
    BY <1>1, <1>3 DEF Shape
  <1>6. CASE run.phase = "working"
    <2>1. Outdates
      BY <1>2, <1>5, <1>6 DEF Outdates
    <2>2. QED
      BY <1>2, <1>4, <1>5, <2>1, AroundBacked
  <1>7. CASE run.phase # "working"
    <2>1. AllIdle
      BY <1>7, RestIdle
    <2>2. \A q \in checkpoint' : Vouched(q)'
      <3>1. ASSUME NEW q \in checkpoint PROVE Vouched(q)'
        <4>1. q \in Paths /\ Vouched(q)
          BY <1>2, <2>1, RestParts
        <4>2. q = p \/ source'[q] = source[q]
          BY <1>5, <4>1
        <4>3. QED
          BY <1>2, <4>1, <4>2 DEF Vouched, Good
      <3>2. QED
        BY <1>2, <3>1
    <2>3. run' \in Runs /\ run'.phase # "working" /\ (run'.command # "batch" => ~run'.pool)
          /\ checkpoint' \subseteq Paths
      BY <1>2, <1>7, <2>1, RestParts
    <2>4. QED
      BY <1>2, <1>4, <1>5, <2>1, <2>2, <2>3, <1>3, IdleJobs, RestBacked
  <1>8. QED
    BY <1>6, <1>7

\* What the gate hands out.
LEMMA DiscoverPending ==
    ASSUME Shape, NEW ps \in SUBSET Discovered, ps \subseteq Paths
    PROVE  /\ InOrder(ps) \in Seq(Files)
           /\ \A i \in DOMAIN InOrder(ps) : /\ InOrder(ps)[i].content = source[InOrder(ps)[i].path]
                                            /\ InOrder(ps)[i].path \in ps
           /\ [i \in DOMAIN InOrder(ps) |-> <<InOrder(ps)[i]>>] \in Seq(Batches)
           /\ ps # {} => InOrder(ps) # << >>
  <1> DEFINE fs == InOrder(ps)
             S  == [path : ps, content : {source[p] : p \in ps}]
  <1>1. /\ fs \in Seq(S) /\ Len(fs) = Cardinality(ps) /\ Cardinality(ps) \in Nat
        /\ \A i \in DOMAIN fs : fs[i].path \in ps /\ fs[i].content = source[fs[i].path]
    BY InOrderFacts
  <1>2. \A p \in ps : p \in Paths /\ source[p] \in Contents
    BY DEF Discovered, Usable, Shape
  <1>3. S \subseteq Files
    BY <1>2 DEF Files
  <1> HIDE DEF fs, S
  <1>4. fs \in Seq(Files) /\ Len(fs) \in Nat /\ DOMAIN fs = 1 .. Len(fs)
        /\ \A i \in DOMAIN fs : fs[i] \in Files
    BY <1>1, <1>3
  <1>5. [i \in DOMAIN fs |-> <<fs[i]>>] \in Seq(Batches)
    <2>1. \A i \in DOMAIN fs : <<fs[i]>> \in Batches
      BY <1>4 DEF Batches
    <2>2. [i \in DOMAIN fs |-> <<fs[i]>>] \in [1 .. Len(fs) -> Batches]
      BY <1>4, <2>1
    <2>3. \A T : \A f \in [1 .. Len(fs) -> T] : f \in Seq(T)
      BY <1>4
    <2>4. QED
      BY <2>2, <2>3
  <1>6. ps # {} => fs # << >>
    <2>1. ASSUME fs = << >> PROVE ps = {}
      <3>1. Cardinality(ps) = 0
        BY <1>1, <2>1
      <3>2. IsFiniteSet(ps)
        BY PathsFinite
      <3>3. QED
        BY <3>1, <3>2, FS_EmptySet
    <2>2. QED
      BY <2>1
  <1>7. QED
    BY <1>1, <1>4, <1>5, <1>6 DEF fs

\* The memory of a command after the gate.
LEMMA DiscoverRun ==
    ASSUME BackedInv, Discover
    PROVE  /\ run' \in Runs /\ run'.phase = "working" /\ run'.pool = run.pool
           /\ run'.command = run.command
           /\ run'.completed = (IF run.resume THEN checkpoint ELSE {})
           /\ checkpoint' = (IF run.command = "batch" /\ ~run.resume THEN {} ELSE checkpoint)
           /\ outdated' = outdated \cap checkpoint'
           /\ UNCHANGED <<source, raw, job, changed>>
           /\ \A i \in DOMAIN run'.pending : \A k \in DOMAIN run'.pending[i] :
                  run'.pending[i][k].content = source[run'.pending[i][k].path]
           /\ \A p \in Paths : run'.outcomes[p].status \in {"success", "resumed"} =>
                  /\ p \in run'.completed /\ run'.outcomes[p].content = source[p]
                  /\ source[p] \in Contents
  <1> DEFINE done == IF run.resume THEN checkpoint ELSE {}
             ps   == Discovered \ done
             fs   == InOrder(ps)
             pending == IF run.command = "batch" THEN [i \in DOMAIN fs |-> <<fs[i]>>]
                        ELSE IF Discovered = {} THEN << >> ELSE <<InOrder(Discovered)>>
             T == [status : Statuses, content : Contents \cup {Nothing}, bundle : BOOLEAN]
             o == [p \in Paths |->
                      IF ~Usable(p) THEN Outcome("skipped", Nothing)
                      ELSE IF p \in Discovered \cap done THEN Outcome("resumed", source[p])
                      ELSE NoOutcome]
  <1>1. run' = [run EXCEPT !.phase = "working", !.completed = done, !.pending = pending, !.outcomes = o]
    BY DEF Discover
  <1>2. Shape /\ run \in Runs /\ checkpoint \subseteq Paths /\ Discovered \subseteq Paths
    BY DEF BackedInv, Shape, Discovered
  <1>3. pending \in Seq(Batches)
    <2>1. fs \in Seq(Files) /\ [i \in DOMAIN fs |-> <<fs[i]>>] \in Seq(Batches)
      BY <1>2, DiscoverPending
    <2>2. ASSUME Discovered # {} PROVE <<InOrder(Discovered)>> \in Seq(Batches)
      <3>1. InOrder(Discovered) \in Seq(Files) /\ InOrder(Discovered) # << >>
        BY <1>2, <2>2, DiscoverPending
      <3>2. InOrder(Discovered) \in Batches
        BY <3>1 DEF Batches
      <3>3. QED
        BY <3>2
    <2>3. << >> \in Seq(Batches)
      OBVIOUS
    <2> HIDE DEF fs
    <2>4. QED
      BY <2>1, <2>2, <2>3
  <1>4. \A i \in DOMAIN pending : \A k \in DOMAIN pending[i] :
            pending[i][k].content = source[pending[i][k].path]
    <2>1. \A i \in DOMAIN fs : fs[i].content = source[fs[i].path]
      BY <1>2, DiscoverPending
    <2>2. \A i \in DOMAIN InOrder(Discovered) :
              InOrder(Discovered)[i].content = source[InOrder(Discovered)[i].path]
      BY <1>2, DiscoverPending
    <2> HIDE DEF fs
    <2>3. CASE run.command = "batch"
      BY <2>1, <2>3
    <2>4. CASE run.command # "batch"
      BY <2>2, <2>4
    <2>5. QED
      BY <2>3, <2>4
  <1>5. \A p \in Discovered : source[p] \in Contents
    BY <1>2 DEF Discovered, Usable, Shape
  <1>6. \A p \in Paths :
          /\ o[p] \in T
          /\ o[p].status \in {"success", "resumed"} =>
               p \in done /\ o[p].content = source[p] /\ source[p] \in Contents
    <2>1. \A p \in Paths : o[p] = IF ~Usable(p) THEN Outcome("skipped", Nothing)
                      ELSE IF p \in Discovered \cap done THEN Outcome("resumed", source[p])
                      ELSE NoOutcome
      OBVIOUS
    <2> HIDE DEF o
    <2>2. Outcome("skipped", Nothing) \in T /\ Outcome("skipped", Nothing).status = "skipped"
      BY DEF Outcome, Statuses
    <2>3. NoOutcome \in T /\ NoOutcome.status = "none"
      BY DEF NoOutcome, Statuses
    <2>4. \A c \in Contents : Outcome("resumed", c) \in T /\ Outcome("resumed", c).content = c
      BY DEF Outcome, Statuses
    <2> HIDE DEF T, done
    <2>5. QED
      BY <1>5, <2>1, <2>2, <2>3, <2>4
  <1>7. done \subseteq Paths
    BY <1>2
  <1>8. o \in [Paths -> T]
    BY <1>6
  <1> HIDE DEF pending, o, done
  <1>9. run' \in Runs /\ run'.phase = "working" /\ run'.pool = run.pool
        /\ run'.command = run.command /\ run'.completed = done /\ run'.pending = pending
        /\ run'.outcomes = o
    BY <1>1, <1>2, <1>3, <1>7, <1>8 DEF Runs, Phases
  <1>10. /\ checkpoint' = (IF run.command = "batch" /\ ~run.resume THEN {} ELSE checkpoint)
         /\ outdated' = outdated \cap checkpoint'
         /\ UNCHANGED <<source, raw, job, changed>>
    BY DEF Discover
  <1>11. QED
    BY <1>4, <1>6, <1>9, <1>10 DEF done

\* What the checkpoint names is reported, and was vouched for.
LEMMA DiscoverBacked ==
    ASSUME BackedInv, Discover
    PROVE  BackedInv'
  <1>1. run.phase = "gate" /\ AllIdle
    BY RestIdle DEF Discover
  <1>2. UNCHANGED <<source, raw, job, changed>>
    BY DiscoverRun
  <1>3. /\ Shape /\ Adds /\ checkpoint \subseteq Paths
        /\ \A p \in checkpoint : p \in Paths /\ Vouched(p)
        /\ run.command # "batch" => ~run.pool
    BY <1>1, <1>2, RestParts
  <1>4. \A p \in checkpoint' : p \in Paths /\ Vouched(p)'
    <2>1. checkpoint' \subseteq checkpoint /\ outdated' = outdated \cap checkpoint'
      BY DiscoverRun
    <2>2. QED
      BY <1>2, <1>3, <2>1 DEF Vouched, Good
  <1>5. run'.completed \subseteq checkpoint'
    BY DiscoverRun
  <1>6. Shape'
    <2>1. \A w \in Workers : JobShape(w)'
      BY <1>2, <1>3 DEF Shape, JobShape
    <2>2. checkpoint' \subseteq Paths
      BY <1>4
    <2>3. QED
      BY <1>2, <1>3, <2>1, <2>2, DiscoverRun DEF Shape
  <1>7. \A w \in Workers : job'[w].step = "idle"
    BY <1>1, <1>2 DEF AllIdle, At
  <1>8. Working'
    BY <1>3, <1>7, DiscoverRun DEF Working, AllIdle, At
  <1>9. RawRight'
    BY <1>3 DEF RawRight, Adds
  <1>10. \A w \in Workers : Sound(w)'
    BY <1>7 DEF Sound, At
  <1>11. SourcesSeen'
    <2>1. \A i \in DOMAIN run'.pending : \A k \in DOMAIN run'.pending[i] :
                  run'.pending[i][k].content = source[run'.pending[i][k].path]
      BY DiscoverRun
    <2>2. \A i \in DOMAIN run'.pending : \A k \in DOMAIN run'.pending[i] :
             AsSeen(run.pending[i][k].path, run.pending[i][k].content)'
      BY <1>2, <2>1 DEF AsSeen
    <2>3. QED
      BY <1>4, <1>5, <2>2 DEF SourcesSeen
  <1>12. Reported'
    <2>1. ASSUME NEW p \in Paths, run'.outcomes[p].status \in {"success", "resumed"}
          PROVE  /\ run'.outcomes[p].content \in Contents
                 /\ Good(run.outcomes[p].content)' \/ p \in outdated'
      <3>1. p \in run'.completed /\ run'.outcomes[p].content = source[p] /\ source[p] \in Contents
        BY <2>1, DiscoverRun
      <3>2. Vouched(p)'
        BY <1>4, <1>5, <3>1
      <3>3. QED
        BY <1>2, <3>1, <3>2 DEF Vouched, Good
    <2>2. QED
      BY <2>1 DEF Reported
  <1>13. QED
    BY <1>6, <1>8, <1>9, <1>10, <1>11, <1>12 DEF BackedInv

\* It holds at first.
LEMMA BInitBacked ==
    ASSUME BInit
    PROVE  BackedInv
  <1>1. /\ source \in [Paths -> Contents \cup {Missing}]
        /\ raw \in [Contents -> RawVersions]
    <2>1. Inputs \subseteq [Paths -> Contents \cup {Missing}] /\ EarlierRaw \subseteq [Contents -> RawVersions]
      BY BatchAssumption, Zenon
    <2>2. QED
      BY <2>1 DEF BInit
  <1>2. /\ checkpoint = {} /\ run = Down /\ job = [w \in Workers |-> Idle]
        /\ changed = {c \in Contents : Complete(raw[c]) /\ raw[c] # Whole(c)}
    BY DEF BInit
  <1>3. Shape
    <2>1. \A w \in Workers : JobShape(w)
      BY <1>2, IdleFacts DEF JobShape
    <2>2. QED
      BY <1>1, <1>2, <2>1, DownFacts DEF Shape
  <1>4. Working
    BY <1>2, DownFacts, IdleFacts DEF Working, AllIdle, At
  <1>5. RawRight
    <2>1. \A c \in Contents : Complete(raw[c]) \/ raw[c].map \in {Nothing, c}
      BY EarlierAssumption, Zenon DEF BInit
    <2>2. QED
      BY <1>2, <2>1 DEF RawRight, Good
  <1>6. \A w \in Workers : Sound(w)
    BY <1>2, IdleFacts DEF Sound, At
  <1>7. SourcesSeen /\ Reported
    BY <1>2, DownFacts DEF SourcesSeen, Reported
  <1>8. QED
    BY <1>3, <1>4, <1>5, <1>6, <1>7 DEF BackedInv

\* And every step keeps it.
LEMMA BNextBacked ==
    ASSUME BackedInv, [BNext]_vars
    PROVE  BackedInv'
  <1>1. CASE BNext
    BY <1>1, StartBacked, DiscoverBacked, CommandBacked, FlushBacked, CrashBacked, WorksBacked,
       ChangeBacked, OtherBacked, Zenon DEF BNext
  <1>2. CASE UNCHANGED vars
    <2>1. UNCHANGED <<source, raw, checkpoint, run, job, changed, outdated>>
      BY <1>2 DEF vars
    <2>2. Adds /\ Outdates
      BY <2>1, NothingAdded, Steady DEF BackedInv
    <2>3. QED
      BY <2>1, <2>2, AroundBacked DEF BackedInv, Shape
  <1>3. QED
    BY <1>1, <1>2

\* A file that is reported as analysed has its whole source under raw/, and what is
\* kept there is what was analysed: for any number of files, contents and threads,
\* any number of interrupted and resumed commands and any earlier state of raw/
\* (batch.py:190-209, file_storage.py:135-233).
THEOREM SuccessBackedHolds == BSpec => []SuccessBacked
  <1>1. BInit => BackedInv
    BY BInitBacked
  <1>2. BackedInv /\ [BNext]_vars => BackedInv'
    BY BNextBacked
  <1>3. BackedInv => SuccessBacked
    BY DEF BackedInv, Reported, SuccessBacked, Good
  <1>4. QED
    BY <1>1, <1>2, <1>3, PTL DEF BSpec

-----------------------------------------------------------------------------
(* The invariant of WorkKept. *)

\* A thread at work stays with its files and keeps what comes of them; its command
\* raises only without a pool.
Follows(w) ==
    /\ Moved(w) /\ ~At(w, "idle")
    /\ job'[w].step # "idle" =>
         /\ job'[w].files = job[w].files
         /\ \A i \in DOMAIN job'[w].got :
              \/ i \in DOMAIN job[w].got /\ job'[w].got[i].path = job[w].got[i].path
              \/ job'[w].got[i].path = File(w).path
    /\ UNCHANGED <<checkpoint, analysed, lost, again>>
    /\ run'.command = run.command /\ run'.pool = run.pool /\ run'.resume = run.resume
    /\ run'.completed = run.completed /\ run'.pending = run.pending
    /\ run'.phase = run.phase \/ (run'.phase = "raised" /\ ~run.pool)

\* Whatever a thread does, it stays with its files or stops.
LEMMA GoesOn ==
    ASSUME Shape, NEW w \in Workers, ~At(w, "idle"),
           Stops(w) \/ Carries(w) \/ Proceeds(w, job[w].got)
             \/ Proceeds(w, Append(job[w].got, Fresh(w)))
    PROVE  /\ Moved(w)
           /\ job'[w].step # "idle" =>
                /\ job'[w].files = job[w].files
                /\ \A i \in DOMAIN job'[w].got :
                     \/ i \in DOMAIN job[w].got /\ job'[w].got[i].path = job[w].got[i].path
                     \/ job'[w].got[i].path = File(w).path
  <1>1. CASE Stops(w) \/ Carries(w) \/ Proceeds(w, job[w].got)
    BY <1>1 DEF Stops, Carries, Proceeds
  <1>2. CASE Proceeds(w, Append(job[w].got, Fresh(w)))
    <2>1. job[w].got \in Seq(Gots)
      BY JobParts
    <2>2. /\ Moved(w) /\ job'[w].files = job[w].files
          /\ job'[w].got = Append(job[w].got, Fresh(w)) /\ Len(job[w].got) \in Nat
      BY <1>2, <2>1 DEF Proceeds
    <2>3. ASSUME NEW i \in DOMAIN job'[w].got
          PROVE  (i \in DOMAIN job[w].got /\ job'[w].got[i] = job[w].got[i]) \/ job'[w].got[i] = Fresh(w)
      BY <2>1, <2>2
    <2>4. Fresh(w).path = File(w).path
      BY DEF Fresh
    <2>5. QED
      BY <2>2, <2>3, <2>4
  <1>3. QED
    BY <1>1, <1>2

\* The actions of a thread but the first and the last.
LEMMA WorksFollow ==
    ASSUME BackedInv, NEW w \in Workers, Works(w), ~Take(w), ~Finish(w)
    PROVE  Follows(w)
  <1>1. Shape /\ run \in Runs /\ Working
    BY DEF BackedInv, Shape
  <1>2. ASSUME ~At(w, "idle"),
               Stops(w) \/ Carries(w) \/ Proceeds(w, job[w].got)
                 \/ Proceeds(w, Append(job[w].got, Fresh(w))),
               UNCHANGED <<checkpoint, run, analysed, lost, again>>
        PROVE  Follows(w)
    BY <1>1, <1>2, GoesOn DEF Follows
  <1>3. CASE Extract(w)
    <2>1. Carries(w)
      BY <1>1, <1>3, JobParts DEF Extract, Carries, Moved, At
    <2>2. QED
      BY <1>2, <1>3, <2>1 DEF Extract, At, history
  <1>4. CASE ExtractError(w)
    <2>1. ~At(w, "idle") /\ (Stops(w) \/ Proceeds(w, job[w].got))
      BY <1>1, <1>4, OnwardProceeds DEF ExtractError, At
    <2>2. run' = [run EXCEPT !.outcomes = Outcomes(<<File(w)>>, "failed")]
          /\ UNCHANGED <<checkpoint, analysed, lost, again>>
      BY <1>4 DEF ExtractError, history
    <2>3. QED
      BY <1>1, <2>1, <2>2, GoesOn DEF Follows, Runs
  <1>5. CASE Persist(w)
    <2>1. ~At(w, "idle") /\ UNCHANGED <<checkpoint, run, analysed, lost, again>>
      BY <1>5 DEF Persist, At, history
    <2>2. Kept(w) \/ Step(w, "stage") \/ Step(w, "repair")
      BY <1>5 DEF Persist
    <2>3. QED
      BY <1>1, <1>2, <2>1, <2>2, KeptProceeds, StepCarries
  <1>6. CASE Stage(w) \/ RepairMap(w)
    <2>1. ~At(w, "idle") /\ Kept(w) /\ UNCHANGED <<checkpoint, run, analysed, lost, again>>
      BY <1>6 DEF Stage, RepairMap, At, history
    <2>2. QED
      BY <1>1, <1>2, <2>1, KeptProceeds
  <1>7. CASE RepairOriginal(w) \/ RepairManifest(w)
    <2>1. ~At(w, "idle") /\ (Step(w, "repair manifest") \/ Step(w, "repair map"))
          /\ UNCHANGED <<checkpoint, run, analysed, lost, again>>
      BY <1>7 DEF RepairOriginal, RepairManifest, At, history
    <2>2. QED
      BY <1>1, <1>2, <2>1, StepCarries
  <1>8. CASE Map(w) \/ Reduce(w) \/ Book(w) \/ Skills(w) \/ Review(w)
    BY <1>1, <1>2, <1>8, ModelCarries DEF history
  <1>9. CASE StageRefused(w) \/ RepairRefused(w) \/ ReviewRefused(w) \/ WriteFault(w)
    <2>1. ~At(w, "idle") /\ Fails(w) /\ UNCHANGED <<checkpoint, analysed, lost, again>>
      BY <1>9 DEF StageRefused, RepairRefused, ReviewRefused, WriteFault, At, history
    <2>2. Stops(w)
      BY <1>1, <2>1, MadeIdle DEF Fails
    <2>3. QED
      BY <1>1, <2>1, <2>2, GoesOn DEF Follows, Fails, Runs
  <1>10. CASE ModelFails(w)
    <2>1. ~At(w, "idle") /\ job' = [job EXCEPT ![w] = Idle]
          /\ UNCHANGED <<checkpoint, analysed, lost, again>>
      BY <1>10 DEF ModelFails, At, history
    <2>2. Stops(w)
      BY <1>1, <2>1, MadeIdle
    <2>3. \/ run' = [run EXCEPT !.outcomes = Outcomes(job[w].got, "failed")]
          \/ ~run.pool /\ run' = [run EXCEPT !.phase = "raised"]
      BY <1>1, <1>10 DEF ModelFails, Working
    <2>4. QED
      BY <1>1, <2>1, <2>2, <2>3, GoesOn DEF Follows, Runs
  <1>11. QED
    BY <1>3, <1>4, <1>5, <1>6, <1>7, <1>8, <1>9, <1>10, Zenon DEF Works

\* A command at work, and one that has none.
LEMMA Commands ==
    ASSUME BackedInv, KeptInv, run.phase = "working", run.command # "batch"
    PROVE  run.command = "analyze" /\ ~run.resume /\ ~run.pool /\ analysed = {}
  <1>1. run.command \in {"none", "analyze", "batch"} /\ run.command # "none"
    BY RunParts DEF BackedInv, Shape, KeptInv, Remembered
  <1>2. QED
    BY <1>1 DEF KeptInv, Remembered

\* The files of a batch.
LEMMA OnceFacts ==
    ASSUME BackedInv, KeptInv, NEW w \in Workers, ~At(w, "idle"), run.command = "batch"
    PROVE  /\ run.phase = "working" /\ Single(job[w].files) /\ File(w).path = Path(w)
           /\ Path(w) \notin run.completed
           /\ \A i \in DOMAIN job[w].got : job[w].got[i].path = Path(w)
  <1>1. Shape /\ run.phase = "working"
    BY Relied
  <1>2. Single(job[w].files) /\ Path(w) \notin run.completed
        /\ \A i \in DOMAIN job[w].got : job[w].got[i].path = Path(w)
    BY <1>1 DEF KeptInv, OnceEach, Apart
  <1>3. job[w].file = 1
    <2>1. job[w].file \in 1 .. Len(job[w].files) /\ Len(job[w].files) = 1
      BY <1>1, <1>2, JobParts DEF Single
    <2>2. QED
      BY <2>1
  <1>4. QED
    BY <1>1, <1>2, <1>3 DEF File, Path

\* What a thread at work does keeps the invariant.
LEMMA FollowsKept ==
    ASSUME BackedInv, KeptInv, NEW w \in Workers, Follows(w)
    PROVE  KeptInv'
  <1>1. again \subseteq lost /\ OnceEach /\ Remembered
    BY DEF KeptInv
  <1>2. run.phase = "working" /\ ~At(w, "idle")
    BY Relied DEF Follows
  <1>3. OnceEach'
    <2>1. SUFFICES ASSUME run.command = "batch" PROVE Apart'
      BY DEF OnceEach, Follows
    <2>2. Apart /\ run'.pending = run.pending /\ run'.completed = run.completed
      BY <1>1, <1>2, <2>1 DEF OnceEach, Follows
    <2>3. ASSUME NEW v \in Workers, job'[v].step # "idle"
          PROVE  ~At(v, "idle") /\ job'[v].files = job[v].files
      <3>1. CASE v = w
        BY <2>3, <3>1 DEF Follows
      <3>2. CASE v # w
        BY <2>3, <3>2 DEF Follows, Moved, At
      <3>3. QED
        BY <3>1, <3>2
    <2>4. ASSUME NEW v \in Workers, job'[v].step # "idle", NEW i \in DOMAIN job'[v].got
          PROVE  job'[v].got[i].path = Path(v)
      <3>1. CASE v = w
        BY <1>2, <2>1, <2>4, <3>1, OnceFacts DEF Follows
      <3>2. CASE v # w
        <4>1. job'[v] = job[v] /\ ~At(v, "idle")
          BY <2>3, <2>4, <3>2 DEF Follows, Moved
        <4>2. QED
          BY <2>1, <2>4, <4>1, OnceFacts
      <3>3. QED
        BY <3>1, <3>2
    <2>5. /\ \A i \in DOMAIN run'.pending : Single(run'.pending[i]) /\ run'.pending[i][1].path \notin run'.completed
          /\ \A i, k \in DOMAIN run'.pending : run'.pending[i][1].path = run'.pending[k][1].path => i = k
      BY <2>2 DEF Apart, Waiting
    <2>6. ASSUME NEW v \in Workers, job'[v].step # "idle"
          PROVE  /\ Single(job'[v].files) /\ job'[v].files[1].path \notin run'.completed
                 /\ \A i \in DOMAIN job'[v].got : job'[v].got[i].path = job'[v].files[1].path
                 /\ \A i \in DOMAIN run'.pending : run'.pending[i][1].path # job'[v].files[1].path
      BY <2>2, <2>3, <2>4, <2>6 DEF Apart, Waiting, Path
    <2>7. ASSUME NEW u \in Workers, NEW v \in Workers, job'[u].step # "idle", job'[v].step # "idle",
                 job'[u].files[1].path = job'[v].files[1].path
          PROVE  v = u
      BY <2>2, <2>3, <2>7 DEF Apart, Path
    <2>8. QED
      BY <2>5, <2>6, <2>7 DEF Apart, Waiting, Path, At
  <1>4. Remembered'
    <2>1. CASE run'.phase = "working"
      BY <1>1, <1>2, <2>1 DEF Remembered, Follows
    <2>2. CASE run'.phase = "raised" /\ ~run.pool
      <3>1. \A a \in analysed : a \in lost \/ a[1] \in checkpoint
        <4>1. CASE run.command = "batch"
          BY <1>1, <1>2, <2>2, <4>1 DEF Remembered
        <4>2. CASE run.command # "batch"
          BY <1>2, <4>2, Commands
        <4>3. QED
          BY <4>1, <4>2
      <3>2. QED
        BY <1>1, <2>2, <3>1 DEF Remembered, Follows
    <2>3. QED
      BY <1>2, <2>1, <2>2 DEF Follows
  <1>5. QED
    BY <1>1, <1>3, <1>4 DEF KeptInv, Follows

\* A thread takes what no other has, and no checkpoint names.
LEMMA TakeKept ==
    ASSUME BackedInv, KeptInv, NEW w \in Workers, Take(w)
    PROVE  KeptInv'
  <1>1. again \subseteq lost /\ OnceEach /\ Remembered /\ Shape /\ run \in Runs
    BY DEF KeptInv, BackedInv, Shape
  <1>2. run.phase = "working" /\ At(w, "idle") /\ run.pending # << >> /\ run.pending \in Seq(Batches)
        /\ run' = [run EXCEPT !.pending = Tail(@)]
        /\ UNCHANGED <<checkpoint, analysed, lost, again>>
    BY <1>1, RunParts DEF Take, history
  <1>3. Moved(w) /\ job'[w].step = "extract" /\ job'[w].files = Head(run.pending) /\ job'[w].got = << >>
    BY <1>1, IdleFacts DEF Take, Shape, Moved
  <1>4. run'.command = run.command /\ run'.pool = run.pool /\ run'.resume = run.resume
        /\ run'.completed = run.completed /\ run'.phase = run.phase /\ run'.pending = Tail(run.pending)
    BY <1>1, <1>2 DEF Runs
  <1>5. Remembered'
    BY <1>1, <1>2, <1>4 DEF Remembered
  <1>6. OnceEach'
    <2>1. SUFFICES ASSUME run.command = "batch" PROVE Apart'
      BY <1>4 DEF OnceEach
    <2>2. Apart
      BY <1>1, <1>2, <2>1 DEF OnceEach
    <2>3. /\ Len(run.pending) \in Nat /\ 1 \in DOMAIN run.pending /\ Head(run.pending) = run.pending[1]
          /\ DOMAIN run.pending = 1 .. Len(run.pending)
          /\ DOMAIN Tail(run.pending) = 1 .. Len(run.pending) - 1
          /\ \A i \in 1 .. Len(run.pending) - 1 : Tail(run.pending)[i] = run.pending[i + 1]
      BY <1>2
    <2>4. ASSUME NEW i \in DOMAIN run'.pending
          PROVE  run'.pending[i] = run.pending[i + 1] /\ i + 1 \in DOMAIN run.pending /\ i + 1 # 1
      BY <1>4, <2>3
    <2>5. \A i, k \in DOMAIN run'.pending : i + 1 = k + 1 => i = k
      BY <1>4, <2>3
    <2>6. ASSUME NEW v \in Workers, job'[v].step # "idle", v # w
          PROVE  ~At(v, "idle") /\ job'[v] = job[v]
      BY <1>3, <2>6 DEF Moved, At
    <2>7. \A i \in DOMAIN run'.pending :
             Single(run'.pending[i]) /\ run'.pending[i][1].path \notin run'.completed
      BY <1>4, <2>2, <2>4 DEF Apart, Waiting
    <2>8. \A i, k \in DOMAIN run'.pending : run'.pending[i][1].path = run'.pending[k][1].path => i = k
      BY <2>2, <2>4, <2>5 DEF Apart, Waiting
    <2>9. ASSUME NEW v \in Workers, job'[v].step # "idle"
          PROVE  /\ Single(job'[v].files) /\ job'[v].files[1].path \notin run'.completed
                 /\ \A i \in DOMAIN job'[v].got : job'[v].got[i].path = job'[v].files[1].path
                 /\ \A i \in DOMAIN run'.pending : run'.pending[i][1].path # job'[v].files[1].path
      <3>1. CASE v = w
        <4>1. job'[v].files = run.pending[1] /\ job'[v].got = << >>
          BY <1>3, <2>3, <3>1
        <4>2. Single(run.pending[1]) /\ Waiting(1) \notin run.completed
          BY <2>2, <2>3 DEF Apart
        <4>3. \A i \in DOMAIN run'.pending : run'.pending[i][1].path # Waiting(1)
          BY <2>2, <2>3, <2>4 DEF Apart, Waiting
        <4>4. QED
          BY <1>4, <4>1, <4>2, <4>3 DEF Waiting
      <3>2. CASE v # w
        BY <1>4, <2>2, <2>4, <2>6, <2>9, <3>2 DEF Apart, Waiting, Path
      <3>3. QED
        BY <3>1, <3>2
    <2>10. ASSUME NEW u \in Workers, NEW v \in Workers, job'[u].step # "idle", job'[v].step # "idle",
                  job'[u].files[1].path = job'[v].files[1].path
           PROVE  v = u
      <3>1. ASSUME NEW x \in Workers, x # w, job'[x].step # "idle"
            PROVE  job'[x].files[1].path # job'[w].files[1].path
        BY <1>3, <2>2, <2>3, <2>6, <3>1 DEF Apart, Waiting, Path
      <3>2. CASE u # w /\ v # w
        BY <2>2, <2>6, <2>10, <3>2 DEF Apart, Path
      <3>3. QED
        BY <2>10, <3>1, <3>2
    <2>11. QED
      BY <2>7, <2>8, <2>9, <2>10 DEF Apart, Waiting, Path, At
  <1>7. QED
    BY <1>1, <1>2, <1>5, <1>6 DEF KeptInv

\* What is analysed once more was lost: no checkpoint named it.
LEMMA FinishKept ==
    ASSUME BackedInv, KeptInv, NEW w \in Workers, Finish(w)
    PROVE  KeptInv'
  <1> DEFINE after == run.completed \cup {d[1] : d \in Done(w)}
  <1>1. again \subseteq lost /\ OnceEach /\ Remembered /\ Shape /\ run \in Runs
    BY DEF KeptInv, BackedInv, Shape
  <1>2. ~At(w, "idle") /\ job' = [job EXCEPT ![w] = Idle] /\ lost' = lost
        /\ run' = [run EXCEPT !.completed = after, !.outcomes = Outcomes(job[w].got, "success")]
    BY DEF Finish, At
  <1>3. run.phase = "working" /\ Stops(w)
    BY <1>1, <1>2, Relied, MadeIdle
  <1>4. run'.command = run.command /\ run'.pool = run.pool /\ run'.resume = run.resume
        /\ run'.completed = after /\ run'.phase = run.phase /\ run'.pending = run.pending
    BY <1>1, <1>2 DEF Runs
  <1>5. CASE run.command = "batch"
    <2>1. /\ analysed' = analysed \cup Done(w)
          /\ again' = again \cup (IF run.resume THEN analysed \cap Done(w) ELSE {})
          /\ ~run.pool => checkpoint' = after
      BY <1>5 DEF Finish, Saves
    <2>2. \A d \in Done(w) : d[1] = Path(w) /\ Path(w) \notin run.completed
      BY <1>2, <1>5, OnceFacts DEF Done
    <2>3. again' \subseteq lost'
      BY <1>1, <1>2, <1>3, <2>1, <2>2 DEF Remembered
    <2>4. Remembered'
      <3>1. \A a \in analysed' : a \in lost' \/ a[1] \in after
        BY <1>1, <1>2, <1>3, <2>1 DEF Remembered
      <3>2. QED
        BY <1>1, <1>3, <1>4, <1>5, <2>1, <3>1 DEF Remembered
    <2>5. Apart'
      <3>1. Apart
        BY <1>1, <1>3, <1>5 DEF OnceEach
      <3>2. \A p \in after : p \in run.completed \/ p = Path(w)
        BY <2>2
      <3> HIDE DEF after
      <3>3. ASSUME NEW v \in Workers, job'[v].step # "idle"
            PROVE  v # w /\ ~At(v, "idle") /\ job'[v] = job[v]
        BY <1>3, <3>3 DEF Stops, Moved, At
      <3>4. /\ \A i \in DOMAIN run'.pending : Single(run'.pending[i]) /\ run'.pending[i][1].path \notin run'.completed
            /\ \A i, k \in DOMAIN run'.pending : run'.pending[i][1].path = run'.pending[k][1].path => i = k
        BY <1>2, <1>4, <3>1, <3>2 DEF Apart, Waiting
      <3>5. ASSUME NEW v \in Workers, job'[v].step # "idle"
            PROVE  /\ Single(job'[v].files) /\ job'[v].files[1].path \notin run'.completed
                   /\ \A i \in DOMAIN job'[v].got : job'[v].got[i].path = job'[v].files[1].path
                   /\ \A i \in DOMAIN run'.pending : run'.pending[i][1].path # job'[v].files[1].path
        BY <1>2, <1>4, <3>1, <3>2, <3>3, <3>5 DEF Apart, Waiting, Path
      <3>6. ASSUME NEW u \in Workers, NEW v \in Workers, job'[u].step # "idle", job'[v].step # "idle",
                   job'[u].files[1].path = job'[v].files[1].path
            PROVE  v = u
        BY <3>1, <3>3, <3>6 DEF Apart, Path
      <3>7. QED
        BY <3>4, <3>5, <3>6 DEF Apart, Waiting, Path, At
    <2>6. QED
      BY <2>3, <2>4, <2>5 DEF KeptInv, OnceEach
  <1>6. CASE run.command # "batch"
    <2>1. UNCHANGED <<checkpoint, analysed, again>>
      BY <1>6 DEF Finish
    <2>2. analysed = {} /\ run.command = "analyze" /\ ~run.resume /\ ~run.pool
      BY <1>3, <1>6, Commands
    <2>3. Remembered' /\ OnceEach'
      BY <1>1, <1>3, <1>4, <1>6, <2>1, <2>2 DEF Remembered, OnceEach
    <2>4. QED
      BY <1>1, <1>2, <2>1, <2>3 DEF KeptInv
  <1>7. QED
    BY <1>5, <1>6

\* The gate hands every path out once, and none that the checkpoint names.
LEMMA DiscoverKept ==
    ASSUME BackedInv, KeptInv, Discover
    PROVE  KeptInv'
  <1> DEFINE done == IF run.resume THEN checkpoint ELSE {}
             ps   == Discovered \ done
             fs   == InOrder(ps)
  <1>1. again \subseteq lost /\ Remembered /\ Shape /\ run \in Runs /\ AllIdle
    BY RestIdle DEF KeptInv, BackedInv, Shape, Discover
  <1>2. run.phase = "gate" /\ UNCHANGED <<analysed, lost, again, job>>
    BY DEF Discover
  <1>3. /\ run'.phase = "working" /\ run'.pool = run.pool /\ run'.command = run.command
        /\ run'.completed = done
        /\ checkpoint' = (IF run.command = "batch" /\ ~run.resume THEN {} ELSE checkpoint)
    BY DiscoverRun
  <1>4. run'.resume = run.resume
        /\ (run.command = "batch" => run'.pending = [i \in DOMAIN fs |-> <<fs[i]>>])
    BY <1>1 DEF Discover, Runs
  <1>5. Remembered'
    <2>1. \A a \in analysed' : a \in lost' \/ a[1] \in run'.completed
      BY <1>1, <1>2, <1>3 DEF Remembered
    <2>2. run.command = "batch" => checkpoint' = run'.completed
      BY <1>3
    <2>3. QED
      BY <1>1, <1>2, <1>3, <1>4, <2>1, <2>2 DEF Remembered
  <1>6. OnceEach'
    <2>1. SUFFICES ASSUME run.command = "batch" PROVE Apart'
      BY <1>3 DEF OnceEach
    <2>2. ps \in SUBSET Paths
      BY DEF Discovered
    <2>3. \A i \in DOMAIN fs : /\ fs[i].path \in ps
                               /\ \A k \in DOMAIN fs : fs[k].path = fs[i].path => k = i
      BY <2>2, InOrderFacts
    <2> HIDE DEF fs
    <2>4. DOMAIN run'.pending = DOMAIN fs /\ \A i \in DOMAIN fs : run'.pending[i] = <<fs[i]>>
      BY <1>4, <2>1
    <2>5. \A i \in DOMAIN fs : Single(run'.pending[i]) /\ run'.pending[i][1] = fs[i]
      BY <2>4 DEF Single
    <2>6. \A w \in Workers : job'[w].step = "idle"
      BY <1>1, <1>2 DEF AllIdle, At
    <2>7. /\ \A i \in DOMAIN run'.pending : Single(run'.pending[i]) /\ run'.pending[i][1].path \notin run'.completed
          /\ \A i, k \in DOMAIN run'.pending : run'.pending[i][1].path = run'.pending[k][1].path => i = k
      BY <1>3, <2>3, <2>4, <2>5
    <2>8. QED
      BY <2>6, <2>7 DEF Apart, Waiting, At
  <1>7. QED
    BY <1>1, <1>2, <1>5, <1>6 DEF KeptInv

\* A new series has analysed nothing, a resumed one what the checkpoint names or is lost.
LEMMA StartKept ==
    ASSUME BackedInv, KeptInv, Start
    PROVE  KeptInv'
  <1>1. PICK command \in {"analyze", "batch"}, resume \in BOOLEAN, pool \in BOOLEAN :
          /\ command = "analyze" => ~resume /\ ~pool
          /\ run' = [Down EXCEPT !.phase = "gate", !.command = command, !.resume = resume,
                                 !.pool = pool]
          /\ analysed' = IF resume THEN analysed ELSE {}
    BY DEF Start
  <1>2. run.phase \in {"down", "over", "raised"} /\ UNCHANGED <<checkpoint, lost, again>>
    BY DEF Start
  <1>3. run'.phase = "gate" /\ run'.command = command /\ run'.pool = pool /\ run'.resume = resume
    BY <1>1, DownFacts DEF Runs
  <1>4. again \subseteq lost /\ Remembered
    BY DEF KeptInv
  <1>5. \A a \in analysed' : a \in lost \/ a[1] \in checkpoint
    BY <1>1, <1>2, <1>4 DEF Remembered
  <1>6. Remembered'
    BY <1>1, <1>2, <1>3, <1>5 DEF Remembered
  <1>7. QED
    BY <1>2, <1>3, <1>4, <1>6 DEF KeptInv, OnceEach

\* What a command that ends leaves unsaved is lost.
LEMMA PoolRaisesKept ==
    ASSUME BackedInv, KeptInv, PoolRaises
    PROVE  KeptInv'
  <1>1. again \subseteq lost /\ Remembered /\ run \in Runs
    BY DEF KeptInv, BackedInv, Shape
  <1>2. run.phase = "working" /\ run' = [run EXCEPT !.phase = "raised"] /\ lost' = lost \cup Unsaved
        /\ UNCHANGED <<checkpoint, analysed, again>>
    BY DEF PoolRaises, WorkedOff
  <1>3. run'.phase = "raised" /\ run'.command = run.command /\ run'.pool = run.pool
        /\ run'.resume = run.resume
    BY <1>1, <1>2 DEF Runs
  <1>4. Remembered'
    BY <1>1, <1>2, <1>3 DEF Remembered, Unsaved
  <1>5. QED
    BY <1>1, <1>2, <1>3, <1>4 DEF KeptInv, OnceEach

\* A death loses what the checkpoint does not name.
LEMMA CrashKept ==
    ASSUME BackedInv, KeptInv, Crash
    PROVE  KeptInv'
  <1>1. again \subseteq lost /\ Remembered /\ run \in Runs
    BY DEF KeptInv, BackedInv, Shape
  <1>2. run.phase \in {"gate", "working", "saving"} /\ run' = Down
        /\ lost' = (IF run.pool \/ run.phase = "saving" THEN lost \cup Unsaved ELSE lost)
        /\ UNCHANGED <<checkpoint, analysed, again>>
    BY DEF Crash
  <1>3. \A a \in analysed : a \in lost' \/ a[1] \in checkpoint
    <2>1. CASE run.pool \/ run.phase = "saving"
      BY <1>2, <2>1 DEF Unsaved
    <2>2. CASE run.phase = "gate"
      BY <1>1, <1>2, <2>2 DEF Remembered
    <2>3. CASE run.phase = "working" /\ ~run.pool /\ run.command = "batch"
      BY <1>1, <1>2, <2>3 DEF Remembered
    <2>4. CASE run.phase = "working" /\ run.command # "batch"
      BY <2>4, Commands
    <2>5. QED
      BY <1>2, <2>1, <2>2, <2>3, <2>4
  <1>4. Remembered'
    BY <1>2, <1>3, DownFacts DEF Remembered
  <1>5. again' \subseteq lost'
    BY <1>1, <1>2
  <1>6. QED
    BY <1>2, <1>4, <1>5, DownFacts DEF KeptInv, OnceEach

\* Its checkpoint is deleted only when a command has worked everything off.
LEMMA EndKept ==
    ASSUME BackedInv, KeptInv, Clear \/ SaveBundle \/ Return
    PROVE  KeptInv'
  <1>1. again \subseteq lost /\ Remembered /\ run \in Runs
    BY DEF KeptInv, BackedInv, Shape
  <1>2. run.phase \in {"working", "saving"} /\ UNCHANGED <<lost, again>>
    BY DEF Clear, SaveBundle, Return, WorkedOff, history
  <1>3. run'.command = run.command /\ run'.pool = run.pool /\ run'.resume = run.resume
    BY <1>1 DEF Clear, SaveBundle, Return, Runs
  <1>4. run.command # "none" /\ (run.command # "batch" => analysed = {})
    BY <1>1, <1>2, RunParts DEF Remembered
  <1>5. \/ run'.phase = "saving" /\ analysed' = analysed
        \/ run'.phase = "over" /\ analysed' = {}
    <2>1. CASE Clear
      BY <1>1, <2>1 DEF Clear, Runs, history
    <2>2. CASE SaveBundle
      <3>1. \E o : run' = [run EXCEPT !.outcomes = o]
        BY <2>2 DEF SaveBundle
      <3>2. run'.phase = run.phase
        BY <1>1, <3>1 DEF Runs
      <3>3. QED
        BY <2>2, <3>2 DEF SaveBundle, history
    <2>3. CASE Return
      BY <1>1, <1>4, <2>3 DEF Return, Runs
    <2>4. QED
      BY <2>1, <2>2, <2>3
  <1>6. Remembered'
    BY <1>1, <1>3, <1>4, <1>5 DEF Remembered
  <1>7. QED
    BY <1>1, <1>2, <1>5, <1>6 DEF KeptInv, OnceEach

\* The checkpoint of a pool is written.
LEMMA FlushKept ==
    ASSUME BackedInv, KeptInv, Flush
    PROVE  KeptInv'
  <1>1. UNCHANGED <<job, run, analysed, lost, again>> /\ run.phase = "working" /\ run.pool
    BY DEF Flush, WorkedOff, history
  <1>2. Remembered'
    BY <1>1 DEF KeptInv, Remembered
  <1>3. OnceEach'
    BY <1>1 DEF KeptInv, OnceEach, Apart, Waiting, Path, At
  <1>4. QED
    BY <1>1, <1>2, <1>3 DEF KeptInv

\* Nothing of it changes.
LEMMA AroundKept ==
    ASSUME KeptInv, UNCHANGED <<checkpoint, run, job, analysed, lost, again>>
    PROVE  KeptInv'
  <1>1. OnceEach'
    BY DEF KeptInv, OnceEach, Apart, Waiting, Path, At
  <1>2. QED
    BY <1>1 DEF KeptInv, Remembered

\* It holds at first.
LEMMA BInitKept ==
    ASSUME BInit
    PROVE  KeptInv
  BY DownFacts DEF BInit, KeptInv, OnceEach, Remembered

\* And every step keeps it.
LEMMA BNextKept ==
    ASSUME BackedInv, KeptInv, [BNext]_vars
    PROVE  KeptInv'
  <1>1. ASSUME NEW w \in Workers, Works(w) PROVE KeptInv'
    BY <1>1, TakeKept, FinishKept, WorksFollow, FollowsKept
  <1>2. CASE (\E p \in Paths : Change(p)) \/ (\E c \in Contents : OtherIngests(c)) \/ UNCHANGED vars
    <2>1. UNCHANGED <<checkpoint, run, job, analysed, lost, again>>
      BY <1>2 DEF Change, OtherIngests, vars, history
    <2>2. QED
      BY <2>1, AroundKept
  <1>3. CASE \/ Start \/ Discover \/ PoolRaises \/ Flush \/ Clear \/ SaveBundle \/ Return \/ Crash
    BY <1>3, StartKept, DiscoverKept, PoolRaisesKept, FlushKept, EndKept, CrashKept
  <1>4. QED
    BY <1>1, <1>2, <1>3, Zenon DEF BNext

\* A resumed batch analyses nothing again that the interrupted one had finished and
\* its checkpoint can know: for any number of files and threads and any number of
\* interruptions (batch.py:231-347).
THEOREM WorkKeptHolds == BSpec => []WorkKept
  <1>1. BInit => BackedInv /\ KeptInv
    BY BInitBacked, BInitKept
  <1>2. BackedInv /\ KeptInv /\ [BNext]_vars => (BackedInv /\ KeptInv)'
    BY BNextBacked, BNextKept
  <1>3. KeptInv => WorkKept
    BY DEF KeptInv, WorkKept
  <1>4. QED
    BY <1>1, <1>2, <1>3, PTL DEF BSpec

-----------------------------------------------------------------------------
(* Type correctness. *)

\* What the invariants above leave out.
Typed ==
    /\ bundles \subseteq Contents
    /\ \A p \in Paths : run.outcomes[p].bundle => run.outcomes[p].status = "success"
    /\ \A w \in Workers : job[w].step \in Steps
    /\ analysed \subseteq Paths \X Contents /\ lost \subseteq Paths \X Contents
    /\ again \subseteq Paths \X Contents /\ changed \subseteq Contents /\ outdated \subseteq Paths
    /\ runs \in 0 .. MaxRuns /\ mishaps \in 0 .. MaxMishaps

\* The step a thread takes is one of its steps.
LEMMA StepTyped ==
    ASSUME BackedInv, Typed, NEW w \in Workers, Works(w)
    PROVE  \A v \in Workers : job'[v].step \in Steps
  <1>1. Shape /\ run \in Runs
    BY DEF BackedInv, Shape
  <1>2. Moved(w)
    BY WorksStep DEF Effect
  <1>3. job'[w].step \in Steps
    <2>1. CASE Take(w)
      BY <1>1, <2>1, IdleFacts DEF Take, Shape, Steps
    <2>2. CASE Extract(w)
      BY <1>1, <2>2, JobParts DEF Extract, At, Steps
    <2>3. CASE ExtractError(w)
      BY <1>1, <2>3, OnwardProceeds DEF ExtractError, At, Stops, Proceeds, Steps
    <2>4. CASE Persist(w)
      <3>1. ~At(w, "idle") /\ (Kept(w) \/ Step(w, "stage") \/ Step(w, "repair"))
        BY <2>4 DEF Persist, At
      <3>2. QED
        BY <1>1, <3>1, KeptProceeds, StepCarries DEF Stops, Proceeds, Steps
    <2>5. CASE Stage(w) \/ RepairMap(w)
      <3>1. ~At(w, "idle") /\ Kept(w)
        BY <2>5 DEF Stage, RepairMap, At
      <3>2. QED
        BY <1>1, <3>1, KeptProceeds DEF Stops, Proceeds, Steps
    <2>6. CASE RepairOriginal(w) \/ RepairManifest(w)
      <3>1. Step(w, "repair manifest") \/ Step(w, "repair map")
        BY <2>6 DEF RepairOriginal, RepairManifest
      <3>2. QED
        BY <1>1, <3>1, StepCarries DEF Steps
    <2>7. CASE Map(w) \/ Reduce(w) \/ Book(w) \/ Skills(w) \/ Review(w)
      BY <1>1, <2>7, ModelCarries DEF Steps
    <2>8. CASE StageRefused(w) \/ RepairRefused(w) \/ ReviewRefused(w) \/ WriteFault(w)
               \/ ModelFails(w) \/ Finish(w)
      <3>1. job' = [job EXCEPT ![w] = Idle]
        BY <2>8 DEF StageRefused, RepairRefused, ReviewRefused, WriteFault, ModelFails, Finish, Fails
      <3>2. QED
        BY <1>1, <3>1, MadeIdle DEF Stops, Steps
    <2>9. QED
      BY <2>1, <2>2, <2>3, <2>4, <2>5, <2>6, <2>7, <2>8, Zenon DEF Works
  <1>4. QED
    BY <1>2, <1>3 DEF Moved, Typed

\* A bundle is of a success.
LEMMA BundlesOfSuccess ==
    ASSUME BackedInv, Typed, NEW w \in Workers, Works(w)
    PROVE  \A p \in Paths : run'.outcomes[p].bundle => run'.outcomes[p].status = "success"
  <1>1. Shape /\ run \in Runs
    BY DEF BackedInv, Shape
  <1>2. CASE run'.outcomes = run.outcomes
    BY <1>2 DEF Typed
  <1>3. ASSUME NEW files, NEW status \in Statuses,
               \A i \in DOMAIN files : files[i].path \in Paths /\ files[i].content \in Contents,
               run'.outcomes = Outcomes(files, status)
        PROVE  \A p \in Paths : run'.outcomes[p].bundle => run'.outcomes[p].status = "success"
    <2>1. \A c : Outcome(status, c).bundle => Outcome(status, c).status = "success"
      BY DEF Outcome
    <2>2. QED
      BY <1>1, <1>3, <2>1, OutcomesFacts DEF Typed
  <1>4. CASE ExtractError(w)
    <2>1. ~At(w, "idle") /\ run'.outcomes = Outcomes(<<File(w)>>, "failed")
      BY <1>1, <1>4 DEF ExtractError, At, Runs
    <2>2. "failed" \in Statuses
             /\ \A i \in DOMAIN <<File(w)>> : <<File(w)>>[i].path \in Paths /\ <<File(w)>>[i].content \in Contents
      BY <1>1, <2>1, FileFacts DEF Statuses
    <2>3. QED
      BY <1>3, <2>1, <2>2
  <1>5. CASE Finish(w) \/ (ModelFails(w) /\ run.command = "batch")
    <2>1. PICK s \in {"success", "failed"} : run'.outcomes = Outcomes(job[w].got, s)
      BY <1>1, <1>5 DEF Finish, ModelFails, Runs
    <2>2. ~At(w, "idle") /\ s \in Statuses
      BY <1>5 DEF Finish, ModelFails, At, Statuses
    <2>3. QED
      BY <1>1, <1>3, <2>1, <2>2, MemberFacts
  <1>6. CASE ModelFails(w) /\ run.command # "batch"
    BY <1>1, <1>2, <1>6 DEF ModelFails, Runs
  <1>7. CASE StageRefused(w) \/ RepairRefused(w) \/ ReviewRefused(w) \/ WriteFault(w)
    <2>1. Fails(w)
      BY <1>7 DEF StageRefused, RepairRefused, ReviewRefused, WriteFault
    <2>2. QED
      BY <1>1, <1>2, <2>1 DEF Fails, Runs
  <1>8. CASE Map(w) \/ Reduce(w) \/ Book(w) \/ Skills(w) \/ Review(w)
    BY <1>1, <1>2, <1>8, ModelCarries
  <1>9. CASE Take(w) \/ Extract(w) \/ Persist(w) \/ Stage(w) \/ RepairOriginal(w) \/ RepairManifest(w)
             \/ RepairMap(w)
    <2>1. CASE Take(w)
      <3>1. run' = [run EXCEPT !.pending = Tail(@)]
        BY <2>1 DEF Take
      <3>2. QED
        BY <1>1, <1>2, <3>1 DEF Runs
    <2>2. CASE ~Take(w)
      BY <1>2, <1>9, <2>2 DEF Extract, Persist, Stage, RepairOriginal, RepairManifest, RepairMap
    <2>3. QED
      BY <2>1, <2>2
  <1>10. QED
    BY <1>4, <1>5, <1>6, <1>7, <1>8, <1>9, Zenon DEF Works

\* What a thread notes is about paths and contents.
LEMMA NotesTyped ==
    ASSUME BackedInv, Typed, NEW w \in Workers, Works(w)
    PROVE  /\ UNCHANGED <<bundles, lost, outdated, runs>>
           /\ analysed' \subseteq Paths \X Contents /\ again' \subseteq Paths \X Contents
           /\ changed' \subseteq Contents /\ mishaps' \in 0 .. MaxMishaps
  <1>1. Shape
    BY DEF BackedInv
  <1>2. MaxMishaps \in Nat
    BY BatchAssumption, Zenon
  <1>3. CASE Stage(w) \/ RepairOriginal(w)
    <2>1. ~At(w, "idle") /\ \E x : NoteChange(w, x)
      BY <1>3 DEF Stage, RepairOriginal, At
    <2>2. changed' \subseteq changed \cup {File(w).content} /\ File(w).content \in Contents
      BY <1>1, <2>1, FileFacts DEF NoteChange
    <2>3. QED
      BY <1>3, <2>2 DEF Stage, RepairOriginal, Typed, bounds
  <1>4. CASE Finish(w)
    <2>1. ~At(w, "idle")
      BY <1>4 DEF Finish, At
    <2>2. Done(w) \subseteq Paths \X Contents
      BY <1>1, <2>1, MemberFacts DEF Done
    <2>3. analysed' \subseteq analysed \cup Done(w) /\ again' \subseteq again \cup Done(w)
      BY <1>4 DEF Finish
    <2>4. QED
      BY <1>4, <2>2, <2>3 DEF Finish, Typed, bounds
  <1>5. CASE WriteFault(w)
    <2>1. mishaps' = mishaps + 1 /\ mishaps < MaxMishaps /\ mishaps \in 0 .. MaxMishaps /\ runs' = runs
      BY <1>5 DEF WriteFault, Mishap, Typed
    <2>2. mishaps' \in 0 .. MaxMishaps
      BY <1>2, <2>1
    <2>3. UNCHANGED <<bundles, history>>
      BY <1>5 DEF WriteFault
    <2>4. QED
      BY <2>1, <2>2, <2>3 DEF Typed, history
  <1>6. CASE Map(w) \/ Reduce(w) \/ Book(w) \/ Skills(w) \/ Review(w)
    BY <1>1, <1>6, ModelCarries DEF Typed, history, bounds
  <1>7. CASE Take(w) \/ Extract(w) \/ ExtractError(w) \/ Persist(w) \/ StageRefused(w) \/ RepairManifest(w)
             \/ RepairMap(w) \/ RepairRefused(w) \/ ReviewRefused(w) \/ ModelFails(w)
    <2>1. UNCHANGED <<bundles, history, bounds>>
      BY <1>7 DEF Take, Extract, ExtractError, Persist, StageRefused, RepairManifest, RepairMap,
         RepairRefused, ReviewRefused, ModelFails
    <2>2. QED
      BY <2>1 DEF Typed, history, bounds
  <1>8. QED
    BY <1>3, <1>4, <1>5, <1>6, <1>7, Zenon DEF Works

\* The steps of the command.
LEMMA CommandTyped ==
    ASSUME BackedInv, Typed,
           Start \/ Discover \/ PoolRaises \/ Flush \/ Clear \/ SaveBundle \/ Return
    PROVE  Typed'
  <1>1. Shape /\ run \in Runs /\ Reported /\ MaxRuns \in Nat
    BY BatchAssumption, Zenon DEF BackedInv, Shape
  <1>2. CASE Start
    <2>1. \A p \in Paths : run'.outcomes[p].bundle => run'.outcomes[p].status = "success"
      <3>1. run'.outcomes = Down.outcomes
        BY <1>2, DownFacts DEF Start, Runs
      <3>2. QED
        BY <3>1 DEF Down, NoOutcome
    <2>2. runs' \in 0 .. MaxRuns
      <3>1. runs' = runs + 1 /\ runs < MaxRuns /\ runs \in 0 .. MaxRuns
        BY <1>2 DEF Start, Typed
      <3>2. QED
        BY <1>1, <3>1
    <2>3. QED
      BY <1>2, <2>1, <2>2 DEF Start, Typed
  <1>3. CASE Discover
    <2>1. \A p \in Paths : run'.outcomes[p].bundle => run'.outcomes[p].status = "success"
      <3>1. \A p \in Paths : \E c : run'.outcomes[p] \in
                {Outcome("skipped", c), Outcome("resumed", c), NoOutcome}
        BY <1>1, <1>3 DEF Discover, Runs
      <3>2. \A c : ~Outcome("skipped", c).bundle /\ ~Outcome("resumed", c).bundle /\ ~NoOutcome.bundle
        BY DEF Outcome, NoOutcome
      <3>3. QED
        BY <3>1, <3>2
    <2>2. outdated' \subseteq Paths
      BY <1>3, DiscoverRun DEF Typed
    <2>3. QED
      BY <1>3, <2>1, <2>2 DEF Discover, Typed, bounds
  <1>4. CASE PoolRaises
    BY <1>1, <1>4 DEF PoolRaises, Typed, Unsaved, Runs, bounds
  <1>5. CASE Flush
    BY <1>5 DEF Flush, Typed, history, bounds
  <1>6. CASE Clear
    BY <1>1, <1>6 DEF Clear, Typed, history, bounds, Runs
  <1>7. CASE Return
    BY <1>1, <1>7 DEF Return, Typed, bounds, Runs
  <1>8. CASE SaveBundle
    <2> DEFINE first == CHOOSE p \in Paths : /\ run.outcomes[p].bundle
                                             /\ \A q \in 1 .. p - 1 : ~run.outcomes[q].bundle
               saved == IF run.command = "analyze" THEN Paths ELSE {first}
    <2>1. /\ bundles' = bundles \cup {run.outcomes[p].content : p \in {q \in saved : run.outcomes[q].bundle}}
          /\ run' = [run EXCEPT !.outcomes = [p \in Paths |-> IF p \in saved
                        THEN [run.outcomes[p] EXCEPT !.bundle = FALSE] ELSE run.outcomes[p]]]
      BY <1>8 DEF SaveBundle
    <2>2. saved \subseteq Paths
      <3>1. \E p \in Paths : /\ run.outcomes[p].bundle
                             /\ \A q \in 1 .. p - 1 : ~run.outcomes[q].bundle
        <4> DEFINE S == {p \in Paths : run.outcomes[p].bundle}
        <4>1. S \subseteq Nat /\ S # {} /\ \A q \in S : q \in Paths /\ run.outcomes[q].bundle
          BY <1>8, PathsFinite DEF SaveBundle
        <4>2. PICK p \in S : \A q \in S : <<q, p>> \notin OpToRel(<, Nat)
          BY <4>1, NatLessThanWellFounded, WFMin
        <4>3. \A q \in S : ~(q < p)
          BY <4>1, <4>2 DEF OpToRel
        <4>4. p \in Paths /\ run.outcomes[p].bundle /\ p \in 1 .. NumPaths /\ NumPaths \in Nat
          BY <4>1, PathsFinite DEF Paths
        <4>5. ASSUME NEW q \in 1 .. p - 1 PROVE ~run.outcomes[q].bundle
          <5>1. q \in Paths /\ q < p
            BY <4>4 DEF Paths
          <5>2. QED
            BY <4>3, <5>1
        <4>6. QED
          BY <4>4, <4>5
      <3>2. QED
        BY <3>1
    <2> HIDE DEF saved, first
    <2>3. \A p \in Paths : run.outcomes[p].bundle => run.outcomes[p].content \in Contents
      BY <1>1 DEF Typed, Reported
    <2>4. bundles' \subseteq Contents
      BY <2>1, <2>2, <2>3 DEF Typed
    <2>5. \A p \in Paths : run'.outcomes[p].bundle => run'.outcomes[p].status = "success"
      <3>1. run.outcomes \in [Paths -> [status : Statuses, content : Contents \cup {Nothing},
                                        bundle : BOOLEAN]]
        BY <1>1, RunParts
      <3>2. \A p \in Paths : run'.outcomes[p] = IF p \in saved
                        THEN [run.outcomes[p] EXCEPT !.bundle = FALSE] ELSE run.outcomes[p]
        BY <1>1, <2>1 DEF Runs
      <3>3. QED
        BY <3>1, <3>2 DEF Typed
    <2>6. QED
      BY <1>8, <2>4, <2>5 DEF SaveBundle, Typed, history, bounds
  <1>9. QED
    BY <1>2, <1>3, <1>4, <1>5, <1>6, <1>7, <1>8

\* What happens around the command.
LEMMA MishapTyped ==
    ASSUME BackedInv, Typed,
           \/ Crash
           \/ \E p \in Paths : Change(p)
           \/ \E c \in Contents : OtherIngests(c)
    PROVE  Typed'
  <1>1. MaxMishaps \in Nat
    BY BatchAssumption, Zenon
  <1>2. UNCHANGED runs /\ mishaps' \in 0 .. MaxMishaps
    BY <1>1 DEF Crash, Change, OtherIngests, Mishap, Typed
  <1>3. CASE Crash
    <2>1. \A p \in Paths : run'.outcomes[p].bundle => run'.outcomes[p].status = "success"
      BY <1>3 DEF Crash, Down, NoOutcome
    <2>2. \A w \in Workers : job'[w].step \in Steps
      BY <1>3, IdleFacts DEF Crash, Steps
    <2>3. QED
      BY <1>2, <1>3, <2>1, <2>2 DEF Crash, Typed, Unsaved
  <1>4. CASE \E p \in Paths : Change(p)
    BY <1>2, <1>4 DEF Change, Typed
  <1>5. CASE \E c \in Contents : OtherIngests(c)
    BY <1>2, <1>5 DEF OtherIngests, Typed, history
  <1>6. QED
    BY <1>3, <1>4, <1>5

\* It holds at first.
LEMMA BInitTyped ==
    ASSUME BInit
    PROVE  Typed
  <1>1. MaxMishaps \in Nat /\ MaxRuns \in Nat
    BY BatchAssumption, Zenon
  <1>2. runs \in 0 .. MaxRuns /\ mishaps \in 0 .. MaxMishaps
    BY <1>1 DEF BInit
  <1>3. \A w \in Workers : job[w].step \in Steps
    BY IdleFacts DEF BInit, Steps
  <1>4. \A p \in Paths : run.outcomes[p].bundle => run.outcomes[p].status = "success"
    BY DEF BInit, Down, NoOutcome
  <1>5. QED
    BY <1>2, <1>3, <1>4 DEF BInit, Typed

\* And every step keeps it.
LEMMA BNextTyped ==
    ASSUME BackedInv, Typed, [BNext]_vars
    PROVE  Typed'
  <1>1. ASSUME NEW w \in Workers, Works(w) PROVE Typed'
    BY <1>1, StepTyped, BundlesOfSuccess, NotesTyped DEF Typed
  <1>2. CASE UNCHANGED vars
    BY <1>2 DEF Typed, vars
  <1>3. QED
    BY <1>1, <1>2, CommandTyped, MishapTyped, Zenon DEF BNext

\* The type invariant of BatchAnalysis.
THEOREM BatchTypeCorrect == BSpec => []BTypeOK
  <1>1. BInit => BackedInv /\ Typed
    BY BInitBacked, BInitTyped
  <1>2. BackedInv /\ Typed /\ [BNext]_vars => (BackedInv /\ Typed)'
    BY BNextBacked, BNextTyped
  <1>3. BackedInv /\ Typed => BTypeOK
    BY RunParts DEF BackedInv, Shape, Typed, BTypeOK, Statuses
  <1>4. QED
    BY <1>1, <1>2, <1>3, PTL DEF BSpec
=============================================================================
