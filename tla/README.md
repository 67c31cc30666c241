# Formal model of the Evidence-First Book-to-Skill Compiler

Book2Skill reads source documents into a Raw layer, analyses them with a language
model into evidence-backed knowledge units (the Schema layer), compiles a Skill
directory tree from those units, and publishes and installs it. The compiling is
mostly pure; what is hard is the *changing of a data home*. Publishing, updating,
building, migrating, installing and upgrading replace directory trees and JSON
records by renames, copies and writes, some of them under journals that a later
process reads after a crash, and several threads or processes do so at once. This
project models that in TLA+, together with the algorithms that decide what is
changed, checks it with TLC and proves part of it with TLAPS.

Paths below are relative to `src/src/book2skill/`.

## 1. The system

| Component | State it keeps | Operations | Talks to |
|---|---|---|---|
| Publisher, `application/publisher.py` | published slot, `snapshots/`, staging and `.failed` siblings, `.transactions/publish/*.json`, `.active/*.json`, `publish-log.jsonl`, `wiki/index.md` | `publish`, `rollback_latest`, recovery in the constructor | called by the update use case |
| Update, `application/update.py`, `update_transaction.py` | `.transactions/update/*.json` and a copy of the Schema file | `execute`, `rollback`, recovery in the constructor | Publisher, Schema storage, merge |
| Storage, `storage/` | Raw originals, manifests and maps, `schema/*/units.jsonl`, `overrides.jsonl`, wiki pages, a SQLite mirror | ingest and its repair, batch append, override writes | everyone |
| Knowledge, diff, merge, `domain/knowledge.py`, `application/diff.py` | none (pure) | supersession, current and active view, clusters, conflicts, diff, merge with edits | update, build, compiler |
| Analyze, gate, batch, `application/` | run directories, checkpoint file | discovery, ingest, map, reduce, review, resume | storage, LLM |
| LLM, `llm/` | channel health, call and cost budget, request slots, circuit, caches | chunks over channels with failover, later requests | worker threads, a provider |
| Build, migration, `application/build.py`, `runtime/migration.py` | draft trees, swapped in without a journal | build, migrate | compiler, closures, Schema |
| Packs, `runtime/pack_*.py`, `multi_book.py` | releases, the active pointer, the Closure bound to it | publish, rollback, bind and its compensation | drafts |
| Runtime products, `runtime/` | Closure manifest and product descriptor in a tree | emit, open, preflight | build, migrate, install |
| Hosts, `hosts/` | a copy of a Skill in a host's directory, a backup | install, uninstall | drafts |
| Compiler, validation, `compiler/`, `validation/` | none (pure) | units to pages, content check, gate, compatibility | build, publisher |
| Extensions, `extensions/`, `sdk/registrar.py` | `registry.json`, payloads, journals, a lock, contributions in memory | install, upgrade, rollback, uninstall, recovery | resolver, packages |
| Desktop, `desktop/` | one active job, an event bus with bounded queues, the window | start, cancel, subscribe, publish | analyze, build |
| Extractors, release packaging, CLI, configuration | none, or files written once | parsing, archives, dispatch | |

**What is hard.**

* *Crashes between two file system effects.* Publisher, update and extensions have
  journals from which a constructor decides what to finish and what to undo. Packs,
  migration, hosts and the draft swap have none.
* *Exceptions inside the handling of an exception.* Each of them compensates when a
  step raises, and each compensation is a sequence of steps that may raise.
* *Composition.* The update's journal wraps the publisher's; a Pack publication moves a
  pointer and rewrites a Closure; an installation copies what a build may replace.
* *Threads.* The desktop runs jobs in threads and streams their events to a browser
  window; the router runs chunks on a pool; a batch runs inputs on a pool.
* *Processes without a lock.* Drafts, Packs, host slots, Schema and publisher have none;
  registry writers share a lock file.
* *Retries, quotas, caches, checkpoints*, and what of them survives a failure.
* *Time between updates.* Edits of a human, records and analyses are merged again and
  again; each merge starts from what the last one wrote.

`PROJECT.json` lists the places where each of these bites under `hazards`.

## 2. Modules

| Module | Models |
|---|---|
| `SkillPublisher` | `publish`, `_restore_on_failure`, `rollback_latest`, `_recover_publish_transactions`, for one Skill |
| `ReleaseSlot` | what the Publisher promises: a tree that changes in one step |
| `SkillUpdate` | the update use case and its journal, on top of `SkillPublisher` |
| `ExtensionManager` | the extension lifecycle, its journals, the registry's lock and repair |
| `ExtensionPackages` | versions and ranges, order of installation, packages, contributions (pure) |
| `DesktopJobs` | job manager, event bus, handlers and window, as the threads they are |
| `RequestSlots` | the paced schedule and the token window of a channel (pure) |
| `ChunkRouter` | routing, failover, budgets, circuits, caches and the pool of workers |
| `BookAnalysis` | chunking, the hierarchy of reductions, review (pure) |
| `BatchAnalysis` | gate, Raw ingest and repair, the pool of a batch, checkpoint and resume |
| `AssetPacks` | candidates, governance, merge of several books, releases (pure) |
| `RuntimeProducts` | Closures, descriptors, opening and the install gate (pure) |
| `SkillRoots` | drafts, host slots, and processes that run one command at a time |
| `SkillBuild`, `HostInstall`, `PackStore` | build and migrate; install and uninstall; Pack publish, rollback and binding |
| `SkillReleases` | the three together |
| `UnitMerge` | views, clusters, conflicts, diff, the merge of one unit and its edits (pure) |
| `FoldIn` | updates of one Skill over time, with edits in between |
| `SkillCompiler` | traces, IR, pages, provenance, wiki and design review (pure) |
| `PublicationGate` | content check, the eight checks of quality, the gate, external validators (pure) |
| `CompilerCases`, `ExtensionCases` | what is claimed of the pure modules, as named ASSUMEs |
| `SkillPublisherProofs` | theorems about the Publisher: its invariant, its promises, the refinement |
| `SkillUpdateProofs`, `ExtensionManagerProofs` | theorems about the update, the extensions |
| `ChunkRouterProofs`, `DesktopJobsProofs` | theorems about the routing of chunks, the desktop |
| `SkillReleasesProofs` | theorems about drafts, host slots and Packs |
| `FoldInProofs` | theorems about the merge with edits and updates over time |
| `BatchAnalysisProofs` | theorems about the analyze and batch commands |
| `MC*` | what TLC runs: constants, and the documented sentences the code does not keep |

### Conventions

*One action per file system effect.* A handler is a sequence of steps; `pc` (or the
`pc` of a process or worker) names the next one. The process may die at any step and the
effect of any step may raise, which enters the `except` clause the code has there. A
JSON file written through a temporary file and `replace` is one step; so is a directory
rename. A copy or deletion of a tree can be left partly done where the code could meet
the remains. What threads do under a lock, or without touching what others read, is one
step.

*Contents are identities.* A call, a build or a version takes a fresh number that
stands for all it writes; hashes are the values they are hashes of, so that equal hashes
are equal contents. Texts are sets of traits or of words, sizes are small numbers.

*History variables* record what properties speak of and what failures may have cost.

*Windows.* Some guarantees do not survive a crash, an exception or a second process at
certain steps. Each such step is written down in a definition (`CrashWindow`,
`FaultWindow`, `UpdateCosts`, `FaultCosts`, `Exposed`, `contested`, `outdated`, ...), and
the property is claimed outside it. They are as small as the bounds can tell: with an
entry removed TLC finds the property violated. They are the model's account of what the
code's crash safety does not cover (section 5).

*Changed forms.* Definitions such as `AbortDeletes` are slips the code could have had.
No specification uses them; `PROJECT.json` pairs each with the property it breaks.

*Pure algorithms* are operators. What is claimed of them is a named ASSUME, evaluated by
TLC over all small inputs whenever a run of a module that extends them starts:
`CompilerCases` with run `publisher`, `ExtensionCases` with `extensions`, those of
`MCFoldIn` with `foldin`. Section 3 lists them.

### Publisher and update

In `SkillPublisher`, `slot`, `snap`, `staging` and `displaced` are the directories;
`journal`, `pointer`, `hist` and `index` the records. `hist` is the net history a
Publisher folds from `publish-log.jsonl`, which is all the index is generated from.
`publish` is `PublishStart` ... `ForgetJournal`, its `except` clause `Abort` ...
`IndexFailure`, `rollback_latest` is `RollbackStart` ... `RollbackIndex`, the constructor
`Start` and the `Recover*` actions. `ReleaseSlot` is implemented under the mapping at the
end of `SkillPublisher`: while the slot is empty because the old tree was set aside, the
tree set aside counts as the current one.

In `SkillUpdate` every command is a process that constructs the Publisher and then the
use case (`cli.py:1466`, `cli.py:1527`). `upc` has control when the publisher is between
calls. The Schema is a set of batches, one per update; what the planner finds is a
choice. The index of other Skills, whose hash the journal takes too, drifts by
`EditIndex`. `update --rollback` is `RollbackCommand`.

`FoldIn` takes an update that succeeds as one step and looks at what the planner decides
instead: the records, the log of edits and the published units are its state, and
`Plan`, `Diff` and `MergedUnit` of `UnitMerge` the algorithm. Its updates add to the
sources or replace them (`diff.removals`). Units have the six fields that are diffed;
text is a set of words with a negation.

### Extensions

`ExtensionManager` has one extension with versions `1..MaxVersion` and one process at a
time. The steps of an operation are a sequence (`InstallOrder`, `RollbackOrder`,
`UndoOrder`). A dead process leaves its lock file "fresh", and `Age` makes it "stale"
after a minute; the code waits ten seconds for a lock, so a fresh one makes it time out.
What the resolver and the package format decide is in `ExtensionPackages`.

### Desktop

A click is a request with a handler thread of its own (`request`), a job is a thread, a
cancel and an event stream are handler threads too. `JobManager.start` is `Claim` or
`RefuseBusy`, `ResetTerminal`, `Announce`, `StartThread`; `_run` is `CheckCancelled`,
`End`, `Release`; `EventBus.publish` is its locked part and one `Put` for each
subscriber. `page` is the window. A queue stands for all that is between a `publish` call
and the window. What the runner does is left out; it may raise at any time.

### Language model

A worker of `ChunkRouter` takes a chunk, ranks the channels that may serve it
(`Select`), looks in the channel's cache, reserves a request slot (`RequestSlots`),
sleeps until its start, calls, retries or resends, marks health, and settles; the load
counters are read and written in two steps, as the code does without a lock. The caller
waits for the pool and makes the later requests. Money is a natural number and latency an
order among equals.

### Analysis and batches

A file is its content; the source id is derived from it. `BatchAnalysis` discovers
and validates the inputs, ingests each into `raw` (original, manifest and map are three
writes, and the repair goes file by file), runs the workers over the map, section,
chapter and book requests of `BookAnalysis`, writes the checkpoint, and ends; a new run
may resume. Files may change, another process may ingest the same source, writes may
fail, models may fail and the process may die.

### Drafts, hosts and Packs

`SkillRoots` has the directories and the processes. A directory is a record of what it
holds: the Skill's content, its ledger, its Pack, Closure and descriptor. `SkillBuild`
has build (compile, check, emit, swap in two renames, save units, bundle) and migrate (a
batch of drafts with backups, swapped one after the other, taken back on a failure).
`HostInstall` has the gate, the copy in two parts, the backup, the swap, its restoration,
and uninstall. `PackStore` has the two commands on the active Pack with the binding of
the production Closure and its compensation. All run at once in `SkillReleases`.

### Compiler and gate

`SkillCompiler` takes units to lines of pages, each line a tuple that says what it looks
like in Markdown, so that the checks of `PublicationGate` read the pages as the code
does: `content_integrity.py` finds blocks again by their start and end lines, the
checks look for citations, links, claims and quotes. `Compile` is a set: empty when
compilation raises.

## 3. Runs

| Run | Distinct states | What it asks |
|---|---|---|
| `publisher` | 762,183 | three calls of `publish` and `rollback_latest`, any number of crashes, exceptions and restarts |
| `update` | 161,494 | four numbered calls: updates, rollbacks by hand, the compensations they need, edits of the index |
| `extensions` | 588,299 | three operations, two crashes or exceptions anywhere, two versions |
| `jobs` | 476,166 | two clicks on "run", and one mishap, cancel or progress event anywhere |
| `channels` | 341,954 | two channels, two workers, two chunks and two later requests under a budget |
| `batch` | 927,183 | two inputs on two workers, over two runs, with one mishap |
| `releases` | 311,182 | two processes, two commands at once, two failing file operations, one crash |
| `foldin` | 34,870 | three updates of two units, with three lines of edits in between |
| `rollback_pointer` | violation | "rollback is reversible" when its pointer write fails |
| `update_deletes` | violation | "rollback a journaled publication" after a crash in it |
| `update_twice` | violation | the same when the compensation is interrupted |
| `human_edits` | violation | "preserving human edits" over two updates |

`publisher`, `update` and `extensions` check for deadlock: the system can always start,
and exit, a process. The others do not: when the clicks, requests, inputs, commands or
updates of the bound are over, the system rests.

**publisher.** `TypeOK`; `ReleasedKept` (no completed tree is lost),
`RenameTargetAbsent` (no rename lands on a directory), `PublishedVisible` (success means
slot, pointer, log, index and snapshot agree), `FailureRestores` (a failure that says
"restored" is true), `RollbackReversible`, `NeverLeftEmpty`, `PointerAgrees`,
`NeverBlocked` (no start refuses), `ImplementsReleaseSlot` (the refinement), and
`ServiceResumes` (recovery does not loop).

**update.** `SchemaMatchesCommits` (the Schema has the committed batches, no others,
after any crash), `CompensationRestores`, `SkillBacked` (the Skill in the slot has its
records), `SkillStays`, `CommittedKept` and `UpdateResolves`.

**extensions.** `RegistryKept` (registry and payloads are what the last successful
operation left), `LoadedIsActive`, `NothingUnverifiedRuns` (what comes into effect has
the hashes of its record, and that record is saved, but for two cases that need a journal
waiting for recovery) and `RecoveryEnds`.

**jobs.** `OneJob`, `ReplayIsCurrent` (a new stream is never replayed the end of an
earlier job while one runs), `EveryStreamTold` (an open stream was told, once, of the
last end), `WindowAgrees` (with nothing on its way, the window shows a job running
exactly when there is one) and `WindowLearns`.

**channels.** `QuotaKept` (no 60 seconds hold more reserved tokens than the channel
allows, and starts are paced, whoever reserves at once), `FailsClosed` (a run that
returns has every answer; a chunk fails only when every channel was tried or none may
be), `LoadAccounts` (the load by which channels are chosen is the load there is) and
`RunEnds`.

**batch.** `SuccessBacked` (what is reported analysed is whole under `raw/`, and is what
was analysed), `WorkKept` (a resumed run repeats nothing that was finished) and
`BundleFaithful` (units have their own ids and blocks of their own source, and a failed
request loses none).

**releases.** `PacksKept` (the active release holds every asset of every release made
active and not rolled back), `BoundTogether` (the production Closure pins the active
Pack), `TreesSettled` (a draft or slot holds what the last command promised of it, and
its units are saved) and `InstalledVerified` (what is in a host passed the gate as it is).

**foldin.** `EditsKept` (an active edit that the published update reported as applied is
what the unit says, unless the record held the value already or confirming approved it),
`UnitsKept` (a unit leaves only by an update that replaces the sources, and never while
an edit of it is active) and `RepeatChangesNothing` (the same update again finds no
drift, but for the cases it names).

### Claims about the pure modules

* With `foldin`: `IndexFindsConflicts`, `ClustersPartition`, `ViewIsLatest`.
* With `publisher` (`CompilerCases`), over all pairs of small units: a plain tree is
  complete and passes (`PlainUnitsPass`), a draft says whether it may be published
  (`DraftsTell`), routes exist (`RoutesExist`), every dropped or doubled line but those
  named is seen (`ContentChangesSeen`), a line of the page's own structure in a content
  blocks the tree (`StructureInContentBlocked`), the ledger is that of the manifests
  (`LedgerChangesSeen`), content and links the checks object to are not published
  (`HostileTextNotPublished`, `HostileLinksNotPublished`), the gate fails closed
  (`GateFailsClosed`, `ReleaseNeedsTools`), and how traces, identity and design review
  behave (`VerifiedTwice`, `OrderNotTold`, `ThreeFixtures`, `DesignReviewed`). Four
  record surprises: `ExcerptCapIsHalved`, `LongRunsPass`, `SlashTakenForCitation`,
  `WikiTellsRejected` (section 5).
* With `extensions` (`ExtensionCases`): the order of versions is linear where it is
  defined (`VersionsInLine`, `NumbersAndTextsRaise`), ranges are intervals
  (`RangesBetween`), on every graph of three extensions the installation order exists
  exactly when it should and is topological (`OrderRespectsNeeds`), installing and
  uninstalling keep the home sound (`InstallKeepsSound`), only intact packages are
  accepted (`OnlyIntactAccepted`, `RootTakenAway`), the second inspection of a package
  refuses what the first took in three cases only (`StagedTreeVerifies`), and
  contributions have one owner (`ContributionsOwned`). Three record surprises:
  `BestMatchForgetsPrerelease`, `UpgradeForgetsDependants`, `RollbackTwiceReturns`.

### Bounds and why they are enough

*publisher, `MaxOps = 3`.* A call touches the slot, its own snapshot and the newest other
one. Three calls give a tree to lose, a call that replaces it and a call that undoes
that, with a crash and a recovery between any two steps. Failures are not bounded.

*update, `MaxOps = 4`.* An update takes one number, its compensation and a rollback by
hand another. Four allow a committed update, one that is compensated and recovered twice,
and a command after it. The invariants were also run at five (3,025,248 states),
`BackedInv` with them.

*extensions, two versions, three operations, two failures.* Two versions are what an
upgrade and a rollback need; three operations put one before and one after the one that
fails; two failures are a crash in the recovery of a crash. Three failures were also run
(4,017,378 states).

*jobs, two runs, one extra, queues of two.* Every race is between a job and the handlers
of the next one, or between a job and a stream. `MaxExtras` bounds progress events,
cancels, double clicks, reloads, broken streams and threads that do not start; one of them
can fall anywhere. `WindowAgrees` is a claim about one extra: with two, a page loaded
again while a job starts shows the replayed end of the job before, and when its stream
then breaks with the start still in it, nobody tells it again (`jobs.py:45-52`).

*channels.* Two channels that prefer differently, one of which may not do reviews; a
second chunk that fills the token window of the first channel, so that it must wait; a
budget of three calls that two chunks on two channels can exceed; one retry and a circuit
that opens at the first failure. Two workers are what a race needs. `MaxMishaps = 1`
bounds the cache writes that raise, and `EarlierCaches` what an earlier run may have left
in the cache files. `Horizon = 0` lets the clock run only while a thread sleeps: whoever
waits for tokens or for the next start is asleep, so every wait still ends.

*batch.* Two inputs, whose contents may be equal, so that two workers ingest the same
source; one content of two sections, one of one block, and one that discovery refuses.
Two runs are an interrupted and a resuming one; one mishap anywhere is what each claim is
made about. Sections of one chunk make the hierarchy as deep as the code's with four.

*releases.* Races are between two commands; two failures are what it takes to fail a
compensation; two drafts are what a migration needs to have one to take back. Starts are
a production Skill with its Pack, legacy drafts, and a draft that cannot be migrated.

*foldin.* One update writes an edit into a record, the next meets it, the third repeats.
Three lines of the log are an edit, one that hides it, and its withdrawal. Analyses leave
a unit out, change it, add to it, reorder, contradict and call it reviewed.

### Fairness

`publisher`, `update`, `extensions`: the steps of the call in progress and `Start` (the
next command is typed) are weakly fair. The code is sequential and its steps do not
block, but for the lock, which has its timeout. Commands, crashes, exits and `Age` are
not fair. Liveness is stated for behaviours in which crashes stop; exceptions may go on.

`jobs`: each thread is weakly fair, for the scheduler is, and a runner ends, for the
pipeline is finite. The window handles what it gets and EventSource connects again;
clicks, reloads and broken connections are not fair.

`channels`: each worker, the caller and the clock are weakly fair; every request has a
timeout (`openai_adapter.py`), so a provider answers or the request fails. Which of the
outcomes occurs is not fair.

`batch`, `releases` and `foldin` check safety only.

## 4. Theorems

All of them are about the specification without its fairness, for every value of the
bounds; the only assumptions are the named ones on the constants, that the bounds are
natural numbers (`MaxOpsAssumption`, `BoundsAssumption`, `DesktopAssumption`),
`RouterAssumption`: limits are positive, costs are natural numbers, and some channel may
serve each request, `StartsAssumption`: the commands find places without a command
under way, in hosts what passed the gate, and a production Closure that pins the active
Pack, `FoldInAssumption`: an analysis is finite, its units are records with ids of
their own, and an edit writes a field, `BatchAssumption`: the kinds of the inputs, and
`EarlierAssumption`: of a version that an older program left incomplete, the map is
missing or its own, since the map is what is written last (`file_storage.py:223-232`). A crash or an exception may come at any step, as in the runs.

| Module | Theorem | Property |
|---|---|---|
| `SkillPublisherProofs` | `TypeCorrect`, `RenameTargetsAbsent`, `CompletedTreesKept` | `TypeOK`, `RenameTargetAbsent`, `ReleasedKept` |
| | `PublicationVisible`, `PriorStateRestored`, `RollbackCanBeUndone` | `PublishedVisible`, `FailureRestores`, `RollbackReversible` |
| | `RecoveryNeedsNoHelp`, `SlotNeverLeftEmpty`, `PointerNeverLeftWrong` | `NeverBlocked`, `NeverLeftEmpty`, `PointerAgrees` |
| | `SlotRefined` | `ImplementsReleaseSlot` |
| | `NothingEverLost` | what the abstract slot promises, of the Publisher |
| `SkillUpdateProofs` | `SchemaHoldsCommits`, `CommittedAlwaysKept`, `CompensationAlwaysRestores` | `SchemaMatchesCommits`, `CommittedKept`, `CompensationRestores` |
| | `SkillAlwaysStays`, `SkillAlwaysBacked` | `SkillStays`, `SkillBacked` |
| | `UpdateTypeCorrect`, `UpdateRenameTargetsAbsent` | `UTypeOK`, and `RenameTargetAbsent` under the use case |
| `ExtensionManagerProofs` | `TypeCorrect`, `RegistryAlwaysKept`, `LoadedAlwaysActive`, `OnlyVerifiedRuns` | `TypeOK`, `RegistryKept`, `LoadedIsActive`, `NothingUnverifiedRuns` |
| `ChunkRouterProofs` | `LoadAlwaysAccounts`, `AlwaysFailsClosed` | `LoadAccounts`, `FailsClosed` |
| `DesktopJobsProofs` | `OneJobAlways`, `ReplayIsCurrentAlways`, `EveryStreamToldAlways` | `OneJob`, `ReplayIsCurrent`, `EveryStreamTold` |
| `FoldInProofs` | `EditsKeptHolds`, `RepeatChangesNothingHolds`, `UnitsKeptHolds` | `EditsKept`, `RepeatChangesNothing`, `UnitsKept` |
| `BatchAnalysisProofs` | `SuccessBackedHolds`, `WorkKeptHolds`, `BatchTypeCorrect` | `SuccessBacked`, `WorkKept`, `BTypeOK` |
| `SkillReleasesProofs` | `TreesSettledHolds`, `InstalledVerifiedHolds`, `BoundTogetherHolds`, `PacksKeptHolds` | `TreesSettled`, `InstalledVerified`, `BoundTogether`, `PacksKept` |

Every invariant below was first checked by TLC on the instance of its run.

**Publisher.** `IInv` is the type invariant and three parts. `CallMatchesStep`: each step
belongs to a call of its kind. `NumbersAreFresh`: numbers not yet taken name no snapshot
and no journal. `SlotFollowsStep`: what the slot and the call's snapshot hold at each
step. The parts need each other: a rename finds its target absent because the number is
fresh and because of what the steps before it did. `CompletedTreesKept` is a second
induction over three more facts: the compensation deletes only the tree that the call in
progress made, and that one is not completed yet.

The promises need six invariants on top (`GuaranteeInv`), each claimed outside the window
of its promise:

* `ReportInv`: what a call has done by each of its steps, and its journal with it. The
  three reports are its last steps.
* `ServiceInv`: recovery has at most one journal to take apart, the newest, and finds the
  trees it names. Two journals could contradict each other; a crash inside recovery must
  not make a second one.
* `EmptyInv`: whenever the slot is empty after a completed publication, a call in
  progress or a journal holds the tree that comes back.
* `PointerInv`: while the pointer is wrong, the step or the journal that rewrites it is
  still ahead.
* `TreesInv`: where a tree is before its publication is completed, so that it is in one
  place only.
* `AsideInv`: the snapshot the mapping to `ReleaseSlot` reads is one that a call or a
  journal claims.

`SlotRefined` goes step by step: `ViewKept`, `ViewConfirms`, `ViewInstalls`,
`ViewWithdraws` and `ViewReverts` say what a change of the directories must do to the
mapped state to be a step of `ReleaseSlot`; each action is then one of the five, or hits
the window of the slot, after which the abstract slot is free. `SlotKeeps` is about the
abstract slot alone; with the refinement it gives `NothingEverLost`.

**Update.** `UInv` has the publisher's `IInv`, which the use case keeps although it
removes a slot and loses index entries behind the publisher's back, and six parts.
`Control`: the publisher is at work only where the use case waits for it. `Numbers`: the
number of an update is the one its publication takes, so no committed batch has it.
`StateFollowsStep`: at most one journal is there, and in the state the step has given it.
`SchemaFollowsJournal`: the Schema holds the committed batches, and that of the update
under way only in the states in which recovery may still finish it; the copy next to the
journal holds the committed ones. Recovery decides from the Schema alone whether to
finish, and this is why it may. `BeforeFollowsStep` follows the tree the update found:
in the slot, in the snapshot of the publication, which is the newest one when
`rollback_latest` is called, and in the slot again (`PublicationProceeds`,
`RollbackProceeds`). `Compensated` is the property.

`SkillStays` and `SkillBacked` have an invariant of their own, `SkillInv`. `Before` puts
next to `UInv` what both need: every tree has a number that was taken (`TreesTaken`), the
publisher has no journal but that of the publication the use case waits for
(`JournalsSettled`), and what a publication and its compensation have done by each step,
with the cost of giving up (`PublicationInv`). `StaysInv` holds while no failure hit the
window of `stays`: if the slot is empty, a step of the call in progress, a journal of the
publisher with a snapshot, or a journal of the update that names one will fill it
(`EmptyHeld`), and a rollback has a tree to bring back (`RollbackHolds`). A journal that
outlives its publication must have left no tree behind (`PublishingGone`), because recovery
drops it. `BackedInv` holds outside the window of `backed`: the tree in the slot is a
committed one, or its update has a journal that a start will finish, undo or refuse
(`SlotAccounted`); so are the trees that may come back, in the snapshots
(`SnapshotsAccounted`, `SnapshotSound`), in the hands of a rollback (`WithdrawingFollows`,
`ManualSound`) and of the publisher's recovery (`RecoverySound`); and a journal that is
about to be removed is not that of the Skill (`DroppedElsewhere`). It cannot be had for
less: the snapshots matter because a rollback takes whichever is the newest.

The proof changed this property too. After a compensation the newest snapshot is the tree
it withdrew. `TakeNewest` names the two rollbacks that may then bring it back: one by
hand, and one for an update whose own snapshot is gone (section 5).

**Extensions.** `IInv` is `Shape` (types, and which journal each step works on),
`MemorySaved` (when the records in memory are the saved ones), `TargetVerified` (what
each operation knows of the payload it is about to switch to), `LoadedInv` and `KeptInv`.
`KeptInv` is what makes `RegistryKept` inductive: the journal of the last operation is
the only one that may await recovery, and what it has (previous record, backup, the
name of the backup) is enough to put back what was promised (`Restorable`), or the
operation is so far that finishing it leaves the registry whole. The proof goes action by
action in two halves: a lemma that says what the action does, in terms of the journal
and payload it touches, and for each part of the invariant one step that uses it.

**Routing.** `RInv` has the accounts of a chunk next to each other. `WhoWorks`: one thread
at most has it. `TriesFollow`: the channels it may still use are those it was not given
to, so that when none is left all were tried; the order of the candidates is that of
their ids, and only the set of those left matters to the proof. `RaisedGone` and
`RaisedForCause`: a chunk that was given up is with nobody, so its tries stand still, and
a budget that refused once refuses for good. `AnswersFollow`: a chunk that was handed out
is answered, given up or with a thread, and this is why a run over which nothing raised
may return. `LoadAccounts` is inductive beside them: an update of the counter from a value
that is stale marks the channel, and one from a fresh value takes off one thread. The
threads are any number, so the proof counts sets: one thread enters, leaves or leaks.

**Desktop.** `JobInv` adds to its two properties that a job with a thread has an accepted
request, so that what is being started has not ended, and that the bus remembers no end
between the reset and the start of the thread. `StreamInv` follows an end from the locked
part of `publish` over its `Put` for each subscriber: who subscribed before is still to be
told or was told, who subscribes after is told by the replay.

**Drafts, hosts and Packs.** `Inv` is about any number of processes at any number of
Skills, so it is stated per place and per process. `Shape`: the notes of each command at
each step. `Exclusive`: where no two commands ever met, one works at most. `TreesInv`:
what a place holds at each step of the command there, compared with what was promised of
it; a command that ends must leave it as the promise it makes then, or as it found it.
`SkillsInv`: from which builds a content comes, the one that was set aside too.
`BoundInv`: a Closure that opens pins the active release unless a binding is outstanding,
and so does whatever a command under way may still put there. `SlotsInv`: what a host
holds, what an installation set aside and what it saw at the gate. `PacksInv`: what a
Pack command knows of the store. Its base is there as it is; from its look at the pointer
to its move the base is active unless somebody moved the pointer; after the move the base
has everything kept but the new release, which is what makes a compensation right.

A process at its own place disturbs nobody: the proof has two frames (`Frame`,
`StartFrame`), one lemma for each part of `Inv` that says when a frame keeps it
(`TreesKept`, `SkillsKept`, `BoundKept`, `SlotsKept`, `PacksQuiet`), and then one lemma
for each kind of command that says its steps are right at the places it works at.
`PublishedCovers` and `CoversAll` are about the merge: a release covers its base, and
covering is transitive. The proof found one hole in the model's own account: a command
whose base was overwritten by another does not know what it moves the pointer past, even
if the pointer did not move meanwhile (`Unseen` in `PackStore`).

**Batches.** `BackedInv` is the invariant of `SuccessBacked`. A path in the hands of a
command holds what the gate saw or is outdated (`Sound`, `SourcesSeen`); a complete
version under `raw/` is right or its file changed, and an incomplete one has no foreign
map (`RawRight`); a repair under way has an original that is right or knows that it is
not (`Repairs`). The last two carry each other: a thread that adds the one missing file
makes the version complete, and another thread or run then takes it without a look. So
`Adds` says of every write under `raw/` that it replaces nothing and completes only what
is right, and `Effect` and `Reports` what an action does to its thread and to its
command; `WorksBacked` needs no more of the nineteen actions of a thread. `KeptInv` is
the invariant of `WorkKept`: in a batch a path waits, is with one thread, or counts as
done (`Apart`), so what is analysed once more was not done; and what was analysed is
done while the command works, and lost or named by the checkpoint before and after
(`Remembered`). `NthExists` is the one lemma about data: the order the gate gives to the
paths reaches each of them once.

**Fold-in.** The lemmas come first. `AppendedFacts` and `CurrentAfter` say what a batch
makes of the append-only file and its views: a record that no newer one follows stays
current, and a record of a higher version than all of its unit becomes it. `PlanFacts`,
`PublishedFacts` and `FieldMerged` open the merge unit by unit and field by field (there
is one active edit of a field, `ActiveLogFacts`), `PendingFacts` the three kinds of records
an update appends, `AfterFacts` puts them together. `Inv` has `RecordsInv` (every record
is approved or deprecated), `SkillInv` (a published unit has an active record, unless it
came back), `LogInv` (a line is the first of its id or withdraws it), and `AppliedInv`,
which is `EditsKept` without "active": an edit that another hides comes back when that one
is withdrawn. `RepeatChangesNothing` is the comparison of an update with its own result:
each field of a published unit is the analysis's unless an edit of it is now in the record
(`StatedAgain`), and where the statuses could differ an unresolved conflict would have
stopped the publication.

The proofs changed the properties. `EditsKept` spoke of all updates so far; it is false
when an edit is hidden by a later one, the Skill is published with that, and that one is
withdrawn. This takes three lines of the log, one more than the run had. It now speaks of
the last published update. And two cases are named: a confirmation approves a unit whose
edit says "candidate" or "reviewed" (`update.py:783-803`), and an analysis that calls a
unit reviewed drifts from its own result (section 5).

*What stays with TLC.* Liveness (`ServiceResumes`, `UpdateResolves`, `RecoveryEnds`,
`WindowLearns`, `RunEnds`) needs fairness and ENABLED, which the prover does not have.
Sums, folds and what is recursive over data (`QuotaKept`, the pure modules) need induction
with an operator as parameter. `WindowAgrees` is a claim about one extra event and false for
two. `BundleFaithful` is about what the folds of `BookAnalysis` compute from the blocks of a
source. Type invariants that no run lists (`UTypeOK`, `BTypeOK`, `TypeOK` of
`ExtensionManager`) are proved; of `RTypeOK` the part that counts (`Shape`), and not the
schedule of a channel. `JTypeOK` is there for proofs.

## 5. What the checks show

### Findings

1. **`rollback_latest` can destroy the tree it restores** (`publisher.py:529`). When the
   pointer write raises after both renames, the compensation meant for `publish` moves
   the restored tree to a `.failed` sibling and deletes it.
2. **Recovery of an update deletes the Skill** (`update.py:709`). A crash between the
   swap in `publish()` and the write of "skill_published" leaves a journal without a
   snapshot path. Recovery takes the branch for a first publication and removes the
   slot, although the previous Skill is in `snapshots/`.
3. **The rollback of an update is done twice** (`update.py:701`). When the process dies
   after `rollback_latest` and before its journal is gone, the next start rolls back
   again, to the Skill that was withdrawn.
4. **The second update undoes an edit** (`update.py:293`). The base of the merge is the
   active record, into which the first update has written the edit; the second takes it
   for no edit and lets the generator's value win without a conflict.

### Windows

* A crash between the two renames of `rollback_latest` leaves the slot empty for good
  (`publisher.py:511-512`): `slot` in `CrashWindow`.
* A crash after the swap and before the "swapped" mark makes recovery drop the journal
  with pointer, log and index on the old publication (`publisher.py:937-940`): `pointer`.
* A crash after a compensation put the old tree back and before its journal is removed
  makes every later start refuse (`publisher.py:949-959`): `service`.
* The compensation of a failed Schema write archives the withdrawn tree as the newest
  snapshot; the next `update --rollback` publishes it without its records: `backed`. So
  may a later compensation. It calls `rollback_latest`, which takes the newest snapshot
  and not the one its journal names (`update.py:701`): when the pointer write of a first
  rollback raised, the tree it restored is gone, and a second attempt, after a mark that
  was lost, restores the withdrawn one. This takes two updates after the build and six
  numbers, two more than the run has; the proof of `SkillAlwaysBacked` found it.
* `extension rollback` has no previous record in its journal; undoing it removes the
  version it was rolling back to and the whole record (`installer.py:255`, `450`). A
  clean-up that raises after the commit undoes a finished operation; `uninstall` has no
  journal; an operation begun while a journal waits for recovery goes by a record that
  the recovery will replace (`UndoCosts`, `FaultCosts`, `CrashCosts`, `BeginCosts`).
* `extension rollback` verifies its target before it takes the lock, against the record
  in memory, and reads the records again under the lock (`installer.py:251-264`). When
  the save of an upgrade and the write of its "rollback_required" (421, outside the try)
  have both raised, the memory is half changed and the target may not have the hashes of
  the saved record, although `EXTENSION_SDK.md:52` speaks of the previous verified
  version. It takes four operations, one more than the run has: the proof of
  `NothingUnverifiedRuns` failed on it, and a run with `MaxTx = 4` and two failures shows
  it. The property now names this case and the recovery that precedes it.
* A restart within a minute of a crash meets the dead process's lock, gives recovery up
  and activates the interrupted version (`installer.py:479`), against the comment at 73-75.
* The desktop's window can be left wrong by a second click before the first is answered,
  a reload before a request is handled, a late bootstrap answer, a start or an end that
  meets a full queue, and a thread that cannot be started: `Costs` in `DesktopJobs`. The
  comment at `jobs.py:67-70`, that the next event suffices, does not hold for an end.
* Two workers that update the load of a channel at once lose one of the updates (`torn`);
  a cache file that cannot be written leaves a chunk counted for good (`leaked`).
* A batch resumed after a file changed reports success for a content nobody analysed, and
  saves no bundle for what it resumed (`batch.py:190` against 5-7): `outdated`. With a
  pool the checkpoint is written at the end only, and it is deleted before the bundles
  are saved: `lost`.
* No command that writes drafts or host slots has a journal: `Exposed` lists the steps at
  which a death leaves the place neither as found nor as promised. Two writers of one
  place (`contested`), two writers of one Pack version (`overwritten`), a pointer moved
  by another process between read and write, or a base that was overwritten (`lost`), a draft that changes while it is
  copied to a host (`mixed`).
* A repair that is refused for its map has already added the original and the manifest
  (`file_storage.py:208-221` before 223-230), so the next run takes the version for
  complete (280-288) although `save_ingest_from_path` says that conflicting content is
  rejected. The code writes the map last, so this takes a version that was tampered with;
  `EarlierAssumption` leaves it out.
* A unit deprecated by a replacing update and added again gets `record_version` 1, is
  never active, and is dropped from the Skill by the next update that only adds, although
  `update.py:229` says that old units remain active: `revived` in `FoldIn`.

### Observations about the pure parts

* `source_check.py:39-41` means to leave slashes in prose alone; a condition rendered as
  "- speed / accuracy" is taken for a citation and fails (`SlashTakenForCitation`).
* Every quote is rendered twice, so the check of duplicates refuses excerpts of more than
  half the cap (`ExcerptCapIsHalved`); the aggregate of contiguous blocks never spans more
  than two, against `copyright_check.py:173-180` (`LongRunsPass`).
* The wiki of a draft is given all units, those a human rejected too (`build.py:369`).
* The content check does not see a lost condition or exception, though
  `content_integrity.py:66-72` speaks of any missing or changed content.
* A whitespace-only content raises `IndexError` in the summary of a step.
* A mismatched version turns an objection of a non-blocking external validator into a
  warning (`compatibility.py:227-229`).
* `diff.py:226-228` says that conflicts are sought over the union of both current views;
  the code scans the old records of units in both (253-266).
* An edit that rejects a unit blocks every later update.
* `update.py:288-290` keeps a generated "candidate" from making an update drift on every
  run. A quality review or a model may say "reviewed" (`analyze.py:122-132`,
  `openai_adapter.py:740`): such a unit is approved, drifts, and is published again by the
  same update each time (`RepeatChangesNothing` names it).
* `version.py:94` says that numbers rank below texts in a prerelease; comparing them
  raises (`NumbersAndTextsRaise`). `best_match` ignores prereleases.
* `resolver.py:4-5` promises to refuse what violates declared ranges; upgrade and rollback
  never ask the dependants (`UpgradeForgetsDependants`). `rollback` goes to the greatest
  other version, so two of them return (`RollbackTwiceReturns`).
* `installer.py:7` says that install runs migrations; no code does.
* A ZIP that leaves out its directories may pass inspection at the limit of members and
  be refused when its extracted tree is inspected again (`StagedTreeVerifies`).
* `hosts/base.py:362` opens the Closure with no host capabilities, so a product that requires one is
  never installed; a restoration that fails is not reported (533-547).
* A refused activation leaves a release nobody names, whose version can not be given
  again; a draft with a candidate Closure blocks the migration of its whole batch.

## 6. Not modelled, and why

* *Two processes* at one publisher, update journal, Schema file or registry: the
  constructor of the second takes the journal of the first apart (`publisher.py:238`), an
  append is lost, a lock older than a minute is removed under its owner
  (`registry.py:152`). The three models are as large as TLC takes them with one process.
* *Torn appends* to `publish-log.jsonl`, and *names* of snapshots within one clock tick,
  whose suffixes do not sort as numbers: a call is a number, an append one step.
* *Contents*: prompts, the shape of a model's answers, wording, layout, token counts of
  the template's own text.
* In `llm/`: the pool inside a single `RuntimeLLMAdapter`, telemetry, benchmarks, the mock
  provider, estimates of the time left. The status "partial" is unreachable.
* The fan-out of one analysis into several products; overlays and names of hosts; audit
  records nothing reads back; the persisted candidates of Packs.
* Of the desktop: installing from the window, settings, static files.
* Extractors (parsing of file formats, some vendored), release packaging (an archive
  written once), command line and configuration (dispatch, which the models take as the
  choice of a command): no state of their own.
* The SQLite mirror and single-record writes of the Schema.

## 7. Plan

The models cover the plan's components. What is left for the proofs is in this order:

1. `BundleFaithful` of `BatchAnalysis`, which needs lemmas about the folds of
   `BookAnalysis`, that go by induction over the sections of a book;
2. `QuotaKept` of `ChunkRouter`, which needs a sum over the reservations of a window, and
   with it lemmas about sums that do not go by induction over an operator.
