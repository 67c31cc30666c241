---------------------------- MODULE BatchAnalysis ----------------------------
(***************************************************************************)
(* The analyze and batch commands: the gate finds the files, each is       *)
(* extracted, kept under raw/ and analysed, and a batch may be interrupted *)
(* and resumed from its checkpoint.                                        *)
(*                                                                         *)
(* A file is its content, and a source id the content it is derived from:  *)
(* two contents are taken to have different ids.  While a command runs, a  *)
(* file may change, another process may ingest the same source, a write    *)
(* may fail and the process may die.                                       *)
(***************************************************************************)
EXTENDS BookAnalysis

CONSTANTS
    NumPaths,      \* the input paths are numbers, in the order the gate expands them
    Contents,      \* what a file may contain
    BlocksOf,      \* the blocks a content is extracted to, none if it cannot be
    Inputs,        \* bound: what the paths hold at first
    Traits,        \* what else is true of the file that holds a content
    Extension,     \* the format its suffix names, or NoFormat
    Probe,         \* the format its first bytes name, or NoFormat
    EarlierRaw,    \* bound: what older versions of the program may have left in raw/
    NumWorkers,    \* max_workers of a batch
    MapReplies,    \* bound: the answers to a chunk
    MaxMishaps,    \* bound: crashes, faults, changed files and other ingestions
    MaxRuns        \* bound: commands that are started

Paths   == 1 .. NumPaths
Workers == 1 .. NumWorkers
Missing == "missing"
Formats == {"pdf", "epub", "docx", "txt", "md", "html", "rtf", "mobi"}
Zipped  == {"epub", "docx"}
NoFormat == "none"
Nothing == "nothing"
NoRaw   == [original |-> Nothing, manifest |-> Nothing, map |-> Nothing]

\* What raw/ should hold of a content.
Whole(c) == [original |-> c, manifest |-> c, map |-> c]

RawVersions == [original : Contents \cup {Nothing}, manifest : Contents \cup {Nothing},
                map : Contents \cup {Nothing}]

ASSUME BatchAssumption ==
    /\ NumPaths \in Nat /\ NumWorkers \in Nat \ {0} /\ MaxMishaps \in Nat /\ MaxRuns \in Nat
    /\ Missing \notin Contents /\ Nothing \notin Contents
    /\ Traits \in [Contents -> SUBSET {"symlink", "empty", "huge", "unreadable", "bomb"}]
    /\ Extension \in [Contents -> Formats \cup {NoFormat}]
    /\ Probe \in [Contents -> Formats \cup {NoFormat}]
    /\ Inputs \subseteq [Paths -> Contents \cup {Missing}]
    /\ BlocksOf \in [Contents -> Seq(Seq(Nat \ {0}))]
    /\ EarlierRaw \subseteq [Contents -> RawVersions]

Complete(r) == r.original # Nothing /\ r.manifest # Nothing /\ r.map # Nothing

\* The map is written last: what an older version did not finish has none, or its own.
ASSUME EarlierAssumption ==
    \A r \in EarlierRaw : \A c \in Contents : Complete(r[c]) \/ r[c].map \in {Nothing, c}

VARIABLES
    source,      \* the content of every input path, or Missing
    raw,         \* raw/<source id>/1: the content of its original, manifest and map
    checkpoint,  \* the paths the checkpoint file names, none when there is no file
    bundles,     \* the contents a bundle file was saved for
    run,         \* the command and its memory
    job,         \* of every thread: the files of its analysis and how far it is
    analysed,    \* history: paths and contents this series of runs has analysed
    lost,        \* history: those that no checkpoint named when their process ended
    again,       \* history: those analysed once more
    changed,     \* history: contents whose file changed between the gate and raw/
    outdated,    \* history: paths whose file changed after the gate had read it and
                 \* before a checkpoint that names them was used
    runs, mishaps

vars == <<source, raw, checkpoint, bundles, run, job, analysed, lost, again, changed,
          outdated, runs, mishaps>>

history == <<analysed, lost, again, changed, outdated>>
bounds  == <<runs, mishaps>>

Phases == {"down", "gate", "working", "saving", "over", "raised"}
Steps  == {"idle", "extract", "persist", "stage", "repair", "repair manifest", "repair map",
           "map", "reduce", "book", "skills", "review", "finish"}

\* An analysis: its files, those extracted so far, what the model made of them.
Idle == [step |-> "idle", files |-> << >>, file |-> 1, read |-> Nothing, got |-> << >>,
         mapped |-> << >>, reduced |-> << >>, books |-> << >>, final |-> << >>,
         queue |-> {}, units |-> << >>]

NoOutcome == [status |-> "none", content |-> Nothing, bundle |-> FALSE]
Outcome(status, content) == [status |-> status, content |-> content, bundle |-> status = "success"]

Down == [phase |-> "down", command |-> "none", resume |-> FALSE, pool |-> FALSE,
         failing |-> FALSE, completed |-> {}, pending |-> << >>, outcomes |-> [p \in Paths |-> NoOutcome]]

File(w)    == job[w].files[job[w].file]      \* the file a thread is at: path and content
At(w, step) == job[w].step = step
Step(w, step) == job' = [job EXCEPT ![w].step = step]

BTypeOK ==
    /\ source \in [Paths -> Contents \cup {Missing}]
    /\ raw \in [Contents -> RawVersions]
    /\ checkpoint \subseteq Paths /\ bundles \subseteq Contents
    /\ run.phase \in Phases /\ run.command \in {"none", "analyze", "batch"}
    /\ run.completed \subseteq Paths /\ run.resume \in BOOLEAN /\ run.pool \in BOOLEAN
    /\ \A p \in Paths : run.outcomes[p].status \in {"none", "skipped", "resumed", "success", "failed"}
    /\ \A w \in Workers : job[w].step \in Steps
    /\ analysed \subseteq Paths \X Contents /\ lost \subseteq Paths \X Contents
    /\ again \subseteq Paths \X Contents /\ changed \subseteq Contents /\ outdated \subseteq Paths
    /\ runs \in 0 .. MaxRuns /\ mishaps \in 0 .. MaxMishaps

(***************************************************************************)
(* Changed forms of the code, for the mutants of PROJECT.json.             *)
(***************************************************************************)

\* exists() asks for the manifest only.
ManifestIsEnough(c) == raw[c].manifest # Nothing

\* The checkpoint is saved before the file is entered into it.
SavesFirst(completed) ==
    checkpoint' = IF run.command = "batch" /\ ~run.pool THEN run.completed ELSE checkpoint

(***************************************************************************)
(* Start and discovery.                                                    *)
(***************************************************************************)
Start ==
    /\ run.phase \in {"down", "over", "raised"} /\ runs < MaxRuns
    /\ runs' = runs + 1
    /\ \E command \in {"analyze", "batch"}, resume \in BOOLEAN, pool \in BOOLEAN :
          /\ command = "analyze" => ~resume /\ ~pool
          /\ run' = [Down EXCEPT !.phase = "gate", !.command = command, !.resume = resume,
                                 !.pool = pool]
          /\ analysed' = IF resume THEN analysed ELSE {}
    /\ UNCHANGED <<source, raw, checkpoint, bundles, job, lost, again, changed, outdated, mishaps>>

\* What the bytes say counts for more than the suffix.
FormatOf(c) == IF Probe[c] # NoFormat THEN Probe[c] ELSE Extension[c]

Refused(c) ==
    \/ Traits[c] \cap {"symlink", "empty", "huge", "unreadable"} # {}
    \/ FormatOf(c) = NoFormat
    \/ FormatOf(c) \in Zipped /\ "bomb" \in Traits[c]

\* Gate.discover: every path that can be used, the first of equal contents only.
Usable(p)     == source[p] # Missing /\ ~Refused(source[p])
Discovered    == {p \in Paths : Usable(p) /\ \A q \in 1 .. p - 1 : source[q] # source[p]}
InOrder(ps)   == [i \in 1 .. Cardinality(ps) |->
                    LET p == CHOOSE p \in ps : Cardinality({q \in ps : q < p}) = i - 1
                    IN  [path |-> p, content |-> source[p]]]

\* A fresh batch empties the checkpoint, a resumed one takes what it names as done.
Discover ==
    /\ run.phase = "gate"
    /\ LET done  == IF run.resume THEN checkpoint ELSE {}
           fresh == IF run.command = "batch" /\ ~run.resume THEN {} ELSE checkpoint
       IN  /\ checkpoint' = fresh
           /\ outdated' = outdated \cap fresh
           /\ run' = [run EXCEPT !.phase = "working", !.completed = done,
                  !.pending = IF run.command = "batch"
                              THEN LET fs == InOrder(Discovered \ done)
                                   IN  [i \in DOMAIN fs |-> <<fs[i]>>]
                              ELSE IF Discovered = {} THEN << >> ELSE <<InOrder(Discovered)>>,
                  !.outcomes = [p \in Paths |->
                      IF ~Usable(p) THEN Outcome("skipped", Nothing)
                      ELSE IF p \in Discovered \cap done THEN Outcome("resumed", source[p])
                      ELSE NoOutcome]]
    /\ UNCHANGED <<source, raw, bundles, job, analysed, lost, again, changed, bounds>>

\* One thread unless the batch runs in a pool and has more than one file left.
Active == IF run.pool THEN Workers ELSE {1}

\* The threads of a pool are alike: the first idle one takes the next file.
Take(w) ==
    /\ run.phase = "working" /\ w \in Active /\ At(w, "idle") /\ run.pending # << >>
    /\ \A v \in 1 .. w - 1 : ~At(v, "idle")
    /\ job' = [job EXCEPT ![w] = [Idle EXCEPT !.step = "extract", !.files = Head(run.pending)]]
    /\ run' = [run EXCEPT !.pending = Tail(@)]
    /\ UNCHANGED <<source, raw, checkpoint, bundles, history, bounds>>

(***************************************************************************)
(* One file: extracted from the path, kept under the id the gate gave it.  *)
(***************************************************************************)
Outcomes(paths, status) ==
    [p \in Paths |-> LET hit == {i \in DOMAIN paths : paths[i].path = p}
                     IN  IF hit = {} THEN run.outcomes[p]
                         ELSE Outcome(status, paths[CHOOSE i \in hit : TRUE].content)]

\* The next file of the analysis, or the model when there is none; no bundle
\* without a source.
Onward(w, got) ==
    IF job[w].file < Len(job[w].files)
    THEN [job[w] EXCEPT !.step = "extract", !.file = @ + 1, !.got = got, !.read = Nothing]
    ELSE IF got = << >> THEN Idle
    ELSE [job[w] EXCEPT !.step = "map", !.got = got, !.read = Nothing]

Extract(w) ==
    /\ At(w, "extract") /\ source[File(w).path] # Missing
    /\ BlocksOf[source[File(w).path]] # << >>
    /\ job' = [job EXCEPT ![w].step = "persist", ![w].read = source[File(w).path]]
    /\ UNCHANGED <<source, raw, checkpoint, bundles, run, history, bounds>>

\* A file that is gone, cannot be parsed or has no text is an error of its own.
ExtractError(w) ==
    /\ At(w, "extract")
    /\ \/ source[File(w).path] = Missing
       \/ source[File(w).path] # Missing /\ BlocksOf[source[File(w).path]] = << >>
    /\ run' = [run EXCEPT !.outcomes = Outcomes(<<File(w)>>, "failed")]
    /\ job' = [job EXCEPT ![w] = Onward(w, job[w].got)]
    /\ UNCHANGED <<source, raw, checkpoint, bundles, history, bounds>>

Exists(c) == Complete(raw[c])

Kept(w) == job' = [job EXCEPT ![w] = Onward(w, Append(job[w].got,
                       [path |-> File(w).path, content |-> File(w).content, read |-> job[w].read]))]

Persist(w) ==
    /\ At(w, "persist")
    /\ IF Exists(File(w).content) THEN Kept(w)
       ELSE Step(w, IF raw[File(w).content] = NoRaw THEN "stage" ELSE "repair")
    /\ UNCHANGED <<source, raw, checkpoint, bundles, run, history, bounds>>

NoteChange(w, copied) ==
    changed' = IF copied = File(w).content /\ job[w].read = File(w).content THEN changed
               ELSE changed \cup {File(w).content}

\* save_ingest_from_path: a staging directory that one rename makes visible.
Stage(w) ==
    LET c == File(w).content  now == source[File(w).path] IN
    /\ At(w, "stage") /\ now # Missing /\ raw[c] = NoRaw
    /\ raw' = [raw EXCEPT ![c] = [original |-> now, manifest |-> c, map |-> job[w].read]]
    /\ NoteChange(w, now)
    /\ Kept(w)
    /\ UNCHANGED <<source, checkpoint, bundles, run, analysed, lost, again, outdated, bounds>>

\* An OSError, a ValueError or a review that breaks its contract is caught by
\* nobody.  The pool works off what it was given before the batch ends with it.
Fails(w) ==
    /\ job' = [job EXCEPT ![w] = Idle]
    /\ run' = IF run.pool THEN [run EXCEPT !.failing = TRUE] ELSE [run EXCEPT !.phase = "raised"]

\* Another process made the version first, and a rename over it is refused.
StageRefused(w) ==
    /\ At(w, "stage") /\ (raw[File(w).content] # NoRaw \/ source[File(w).path] = Missing)
    /\ Fails(w)
    /\ UNCHANGED <<source, raw, checkpoint, bundles, history, bounds>>

\* _repair_incomplete_ingest: what is missing is added, one file after the other,
\* and what is there has to agree.
RepairOriginal(w) ==
    LET c == File(w).content  now == source[File(w).path] IN
    /\ At(w, "repair")
    /\ raw[c].manifest \in {Nothing, c}
    /\ raw[c].original \in {Nothing, c}
    /\ raw[c].original = Nothing => now # Missing
    /\ raw' = [raw EXCEPT ![c].original = IF @ = Nothing THEN now ELSE @]
    /\ NoteChange(w, raw'[c].original)
    /\ Step(w, "repair manifest")
    /\ UNCHANGED <<source, checkpoint, bundles, run, analysed, lost, again, outdated, bounds>>

RepairManifest(w) ==
    /\ At(w, "repair manifest")
    /\ raw' = [raw EXCEPT ![File(w).content].manifest = IF @ = Nothing THEN File(w).content ELSE @]
    /\ Step(w, "repair map")
    /\ UNCHANGED <<source, checkpoint, bundles, run, history, bounds>>

RepairMap(w) ==
    LET c == File(w).content IN
    /\ At(w, "repair map") /\ raw[c].map \in {Nothing, job[w].read}
    /\ raw' = [raw EXCEPT ![c].map = job[w].read]
    /\ Kept(w)
    /\ UNCHANGED <<source, checkpoint, bundles, run, history, bounds>>

RepairRefused(w) ==
    LET c == File(w).content IN
    /\ \/ At(w, "repair") /\ (raw[c].manifest \notin {Nothing, c} \/ raw[c].original \notin {Nothing, c})
       \/ At(w, "repair map") /\ raw[c].map \notin {Nothing, job[w].read}
    /\ Fails(w)
    /\ UNCHANGED <<source, raw, checkpoint, bundles, history, bounds>>

(***************************************************************************)
(* The bundle of an analysis.  Reductions are requested concurrently and   *)
(* used in the order of the sections.                                      *)
(***************************************************************************)
Got(w, i) == job[w].got[i]
Started(m) == [units |-> << >>, counters |-> m.counters, fates |-> << >>]

Map(w) ==
    /\ At(w, "map")
    /\ LET i == Len(job[w].mapped) + 1
           blocks == BlocksOf[Got(w, i).read]
       IN  \E replies \in [1 .. Len(Chunked(Items(blocks))) -> MapReplies] :
             LET m == Append(job[w].mapped, Mapped(Got(w, i).content, blocks, replies))
             IN  job' = [job EXCEPT ![w].mapped = m,
                            ![w].step = IF i = Len(job[w].got) THEN "reduce" ELSE "map",
                            ![w].reduced = IF i = Len(job[w].got) THEN <<Started(m[1])>> ELSE << >>]
    /\ UNCHANGED <<source, raw, checkpoint, bundles, run, history, bounds>>

\* Cards a model may answer with: about units it was shown, or about none of them.
CardReplies(shown) ==
    LET from == {<<id>> : id \in shown} \cup {SetToSeq(shown), <<<<Nothing, 0, 0>>>>}
    IN  {NoReply, Reply(<< >>)} \cup {Reply(<<c>>) : c \in [from : from, text : Texts, ok : BOOLEAN]}

Answers(units) == IF units = << >> THEN {NoReply} ELSE UNION {CardReplies(s) : s \in Payloads(units)}

Fate(units, reply, made) ==
    IF units = << >> \/ reply = NoReply THEN "kept" ELSE IF made = << >> THEN "emptied" ELSE "made"

Reduce(w) ==
    /\ At(w, "reduce")
    /\ LET i == Len(job[w].reduced)
           r == job[w].reduced[i]
           s == Len(r.fates) + 1
           units == job[w].mapped[i].units[s]
           ended == s = Len(job[w].mapped[i].units)
       IN  \E reply \in Answers(units) :
             LET cards == Reduced(Got(w, i).content, units, reply, r.counters)
                 after == [job[w].reduced EXCEPT ![i] =
                             [units |-> r.units \o cards.units, counters |-> cards.counters,
                              fates |-> Append(r.fates, Fate(units, reply, cards.units))]]
             IN  job' = [job EXCEPT
                   ![w].reduced = IF ended /\ i < Len(job[w].got)
                                  THEN Append(after, Started(job[w].mapped[i + 1])) ELSE after,
                   ![w].step = IF ended /\ i = Len(job[w].got) THEN "book" ELSE "reduce"]
    /\ UNCHANGED <<source, raw, checkpoint, bundles, run, history, bounds>>

\* After the last book the review queue is filled anew.
Book(w) ==
    /\ At(w, "book")
    /\ LET i == Len(job[w].books) + 1
           r == job[w].reduced[i]
           ended == i = Len(job[w].got)
       IN  \E reply \in Answers(r.units) :
             LET final == job[w].final \o Synthesized(Got(w, i).content, r, reply)
                 made  == IF reply = NoReply THEN << >>
                          ELSE Trusted(Got(w, i).content, r.units, reply.cards, r.counters).units
                 units == Candidates(job[w].mapped, final)
             IN  job' = [job EXCEPT
                   ![w].books = Append(@, IF made = << >> THEN "kept" ELSE "made"),
                   ![w].final = final,
                   ![w].units = IF ended THEN units ELSE << >>,
                   ![w].queue = IF ended THEN Flagged(units) ELSE {},
                   ![w].step = IF ended THEN "skills" ELSE "book"]
    /\ UNCHANGED <<source, raw, checkpoint, bundles, run, history, bounds>>

\* The skills are suggested; only the analyze command may have a review.
Skills(w) ==
    /\ At(w, "skills")
    /\ Step(w, IF run.command = "analyze" THEN "review" ELSE "finish")
    /\ UNCHANGED <<source, raw, checkpoint, bundles, run, history, bounds>>

Review(w) ==
    LET flags == QualityFlags(job[w].units) IN
    /\ At(w, "review")
    /\ \E asked \in {0, Reviewed(flags)} :
       \E verdicts \in [1 .. asked -> [disposition : Dispositions, text : Texts]] :
          job' = [job EXCEPT ![w].step = "finish",
                    ![w].units = Patched(@, [i \in 1 .. asked |->
                       [unit |-> flags[i], disposition |-> verdicts[i].disposition,
                        text |-> verdicts[i].text]])]
    /\ UNCHANGED <<source, raw, checkpoint, bundles, run, history, bounds>>

ReviewRefused(w) ==
    /\ At(w, "review") /\ Reviewed(QualityFlags(job[w].units)) > 0
    /\ Fails(w)
    /\ UNCHANGED <<source, raw, checkpoint, bundles, history, bounds>>

(***************************************************************************)
(* The end of an analysis.                                                 *)
(***************************************************************************)
Done(w) == {<<job[w].got[i].path, job[w].got[i].content>> : i \in DOMAIN job[w].got}

\* A batch in one thread saves its checkpoint after every file.
Saves(completed) ==
    checkpoint' = IF run.command = "batch" /\ ~run.pool THEN completed ELSE checkpoint

Finish(w) ==
    LET after == run.completed \cup {d[1] : d \in Done(w)} IN
    /\ At(w, "finish")
    /\ run' = [run EXCEPT !.completed = after, !.outcomes = Outcomes(job[w].got, "success")]
    /\ IF run.command = "batch"
       THEN /\ Saves(after)
            /\ analysed' = analysed \cup Done(w)
            /\ again' = again \cup (IF run.resume THEN analysed \cap Done(w) ELSE {})
       ELSE UNCHANGED <<checkpoint, analysed, again>>
    /\ job' = [job EXCEPT ![w] = Idle]
    /\ UNCHANGED <<source, raw, bundles, lost, changed, outdated, bounds>>

\* The model fails for good: one file of a batch, or the analyze command.
ModelFails(w) ==
    /\ job[w].step \in {"map", "skills"}
    /\ job' = [job EXCEPT ![w] = Idle]
    /\ run' = IF run.command = "batch" THEN [run EXCEPT !.outcomes = Outcomes(job[w].got, "failed")]
              ELSE [run EXCEPT !.phase = "raised"]
    /\ UNCHANGED <<source, raw, checkpoint, bundles, history, bounds>>

AllIdle == \A w \in Workers : At(w, "idle")
WorkedOff == run.phase = "working" /\ run.pending = << >> /\ AllIdle

\* What no checkpoint names is lost.
Unsaved == {a \in analysed : a[1] \notin checkpoint}

PoolRaises ==
    /\ WorkedOff /\ run.failing
    /\ run' = [run EXCEPT !.phase = "raised"]
    /\ lost' = lost \cup Unsaved
    /\ UNCHANGED <<source, raw, checkpoint, bundles, job, analysed, again, changed, outdated, bounds>>

\* A pool saves its checkpoint once, when all is done.
Flush ==
    /\ WorkedOff /\ ~run.failing /\ run.pool /\ checkpoint # run.completed
    /\ checkpoint' = run.completed
    /\ UNCHANGED <<source, raw, bundles, run, job, history, bounds>>

\* The batch is complete: its checkpoint is deleted, then its bundles are saved.
Clear ==
    /\ WorkedOff /\ ~run.failing /\ (run.pool => checkpoint = run.completed)
    /\ checkpoint' = IF run.command = "batch" THEN {} ELSE checkpoint
    /\ run' = [run EXCEPT !.phase = "saving"]
    /\ UNCHANGED <<source, raw, bundles, job, history, bounds>>

SaveBundle ==
    /\ run.phase = "saving" /\ \E p \in Paths : run.outcomes[p].bundle
    /\ LET first == CHOOSE p \in Paths : /\ run.outcomes[p].bundle
                                         /\ \A q \in 1 .. p - 1 : ~run.outcomes[q].bundle
           saved == IF run.command = "analyze" THEN Paths ELSE {first}
       IN  /\ bundles' = bundles \cup {run.outcomes[p].content : p \in {q \in saved : run.outcomes[q].bundle}}
           /\ run' = [run EXCEPT !.outcomes =
                        [p \in Paths |-> IF p \in saved THEN [run.outcomes[p] EXCEPT !.bundle = FALSE] ELSE run.outcomes[p]]]
    /\ UNCHANGED <<source, raw, checkpoint, job, history, bounds>>

Return ==
    /\ run.phase = "saving" /\ \A p \in Paths : ~run.outcomes[p].bundle
    /\ run' = [run EXCEPT !.phase = "over"]
    /\ analysed' = IF run.command = "batch" THEN {} ELSE analysed
    /\ UNCHANGED <<source, raw, checkpoint, bundles, job, lost, again, changed, outdated, bounds>>

(***************************************************************************)
(* What happens to the command and around it.                              *)
(***************************************************************************)
Mishap == mishaps < MaxMishaps /\ mishaps' = mishaps + 1 /\ UNCHANGED runs

\* The process dies.
Crash ==
    /\ Mishap /\ run.phase \in {"gate", "working", "saving"}
    /\ run' = Down
    /\ job' = [w \in Workers |-> Idle]
    /\ lost' = IF run.pool \/ run.phase = "saving"
               THEN lost \cup Unsaved ELSE lost
    /\ UNCHANGED <<source, raw, checkpoint, bundles, analysed, again, changed, outdated>>

\* A write under raw/ raises.
WriteFault(w) ==
    /\ Mishap /\ job[w].step \in {"stage", "repair", "repair manifest", "repair map"}
    /\ Fails(w)
    /\ UNCHANGED <<source, raw, checkpoint, bundles, history>>

\* The reader of a file never sees this: the path names another content, or none.
Change(p) ==
    /\ Mishap
    /\ \E c \in (Contents \cup {Missing}) \ {source[p]} : source' = [source EXCEPT ![p] = c]
    /\ outdated' = IF p \in checkpoint \/ run.phase = "working" THEN outdated \cup {p} ELSE outdated
    /\ UNCHANGED <<raw, checkpoint, bundles, run, job, analysed, lost, again, changed>>

OtherIngests(c) ==
    /\ Mishap /\ raw[c] = NoRaw /\ c \in Contents /\ ~Refused(c) /\ BlocksOf[c] # << >>
    /\ raw' = [raw EXCEPT ![c] = Whole(c)]
    /\ UNCHANGED <<source, checkpoint, bundles, run, job, history>>

\* Files may have changed under an older version too.
BInit ==
    /\ source \in Inputs /\ raw \in EarlierRaw
    /\ checkpoint = {} /\ bundles = {} /\ run = Down /\ job = [w \in Workers |-> Idle]
    /\ analysed = {} /\ lost = {} /\ again = {} /\ outdated = {}
    /\ changed = {c \in Contents : Complete(raw[c]) /\ raw[c] # Whole(c)}
    /\ runs = 0 /\ mishaps = 0

Works(w) ==
    \/ Take(w) \/ Extract(w) \/ ExtractError(w) \/ Persist(w) \/ Stage(w) \/ StageRefused(w)
    \/ RepairOriginal(w) \/ RepairManifest(w) \/ RepairMap(w) \/ RepairRefused(w)
    \/ Map(w) \/ Reduce(w) \/ Book(w) \/ Skills(w) \/ Review(w) \/ ReviewRefused(w)
    \/ Finish(w) \/ ModelFails(w) \/ WriteFault(w)

BNext ==
    \/ Start \/ Discover \/ PoolRaises \/ Flush \/ Clear \/ SaveBundle \/ Return \/ Crash
    \/ \E w \in Workers : Works(w)
    \/ \E p \in Paths : Change(p)
    \/ \E c \in Contents : OtherIngests(c)

BSpec == BInit /\ [][BNext]_vars

(***************************************************************************)
(* Properties.                                                             *)
(***************************************************************************)

\* A file that a command reports as analysed, now or by its checkpoint, has its
\* whole source under raw/, and what is kept there is what was analysed: unless
\* the file changed between the gate and the copy, or before a checkpoint that
\* names its path was used (batch.py:190-209, file_storage.py:135-233).
SuccessBacked ==
    run.phase \in {"saving", "over"} =>
        \A p \in Paths : run.outcomes[p].status \in {"success", "resumed"} =>
            LET c == run.outcomes[p].content IN
            \/ raw[c] = Whole(c)
            \/ c \in changed \/ p \in outdated

\* A resumed batch analyses nothing again that the interrupted one had finished:
\* unless that one ran in a pool, whose checkpoint is only written at its end, or
\* died after the checkpoint was deleted and before it ended (batch.py:231-347).
WorkKept == again \subseteq lost

\* Ids name one unit each, every unit refers to blocks of its own source and to
\* nothing else, and what waits for review is in the bundle.
Grounded(w) ==
    LET units == job[w].units IN
    /\ \A i, k \in DOMAIN units : i # k => IdOf(units[i]) # IdOf(units[k])
    /\ \A i \in DOMAIN units :
          /\ units[i].refs # {}
          /\ \E g \in ToSet(job[w].got) :
                units[i].refs \subseteq {<<g.content, b>> : b \in DOMAIN BlocksOf[g.read]}
    /\ job[w].queue \subseteq Ids(units)

\* A section whose reduction failed keeps its units, unless a reply for the
\* whole book replaced them.
Retained(w) ==
    \A i \in DOMAIN job[w].got : \A s \in DOMAIN job[w].mapped[i].units :
        \/ job[w].books[i] = "made" \/ job[w].reduced[i].fates[s] # "kept"
        \/ Ids(job[w].mapped[i].units[s]) \subseteq Ids(job[w].units)

\* The bundle of every analysis is grounded in its sources and has lost nothing
\* to a request that failed (analyze.py:752-968).
BundleFaithful == \A w \in Workers : At(w, "finish") => Grounded(w) /\ Retained(w)
=============================================================================
