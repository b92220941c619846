# dirstat in TLA+

Specifications of the parts of `dirstat` that change things or run
concurrently: the guarded filesystem operations of `internal/fsops`, with the
plans they come in and the audit log that accompanies them; the store
directories of `internal/storefs`, with the cache (`internal/index`) and the
history (`internal/history`) kept in them; the concurrent scanner
(`internal/scan`) under its policy (`internal/scope`); the interactive session
(`internal/tui`); and the installed skill files (`internal/skills`). Each module
says at its head which code it models; `PROJECT.json` names the lines of every
definition.

    tlc -config GuardedReplace.cfg GuardedReplace.tla      # model-check a module
    tlc -config Program.cfg MCProgram.tla                  # scan, tui, index, skills
    tlapm GuardedReplaceProofs.tla                         # check its proofs
    tlapm ProgramProofs.tla                                # scan, skills, program: a quarter of an hour
    tlapm ScanTreeProofs.tla                               # what a complete scan returns: seven minutes

## 1. The system

`dirstat` scans a directory tree, shows and queries what it found, keeps
snapshots of it, and applies reviewed plans of filesystem operations.

| part (`internal/`) | state | operations | hard behaviour | what makes it correct |
|---|---|---|---|---|
| `fsops` apply.go, one operation | the paths src, dst, backup, stage; an error with wrappers | copy, move, rename, archive, extract around `withDestinationGuarded` | every system call may fail; other processes act in between; cleanup of cleanup | nothing reviewed or foreign is lost; the status is true |
| `fsops` apply.go, a plan | results, audit file, what was created | prevalidate, open audit, intent, execute, outcome, close | crash, power loss, write/sync/close failures, a second run | write-ahead; at most one operation in doubt; the log can be believed |
| `fsops` apply.go, recursive delete | the captured snapshot, how far it got | walk, check ancestors, inspect, remove | other processes add, edit, swap, relocate | only captured objects go; partial is told from error |
| `fsops` plan_validate.go | a prediction for every path | validate in order, then preflight | later operations on what earlier ones made | an accepted plan does not stop half way |
| `fsops` plan_decode.go, archive policy | none | decode JSONL; inspect a manifest | hostile input | reject before mutation |
| `storefs` | directory handle, lock file, ownership marker, temporaries | lock, adopt, atomic write, atomic create, remove by identity | two processes; lock file replaced; crash between link and unlink | mutual exclusion; complete file or none; no foreign store touched |
| `index` | one file per root and fingerprint | save, load, prune, clear, invalidate | retention while saving; removal failing half way | the snapshot just saved and the newest per root stay; the quota holds |
| `history` | records in one directory per key | record, prune, clear, migrate, compare | quota reserved before publication; migration interrupted | each record is in the source or the destination, whole |
| `scan` | the tree, live totals, slots, claimed identities | scan, stat, propagate, cancel, canonicalise owners | goroutines under a bound; hard links found in any order | totals independent of the interleaving; termination; honest completeness |
| `tui` | the model, its generations and in-flight commands, the queue | scan, inspect, stage, review, dry-run, apply, export, save cache | answers that arrive late or out of order | only reviewed plans are applied, one at a time; no late answer is taken |
| `skills` | one file per location | status, install, remove | failure part way; an edit in between | no edited file is lost without force |
| `query`, `agg`, `tree` | none | filter, sort, limit, sum | boundaries | agrees with the reference definition |
| `scope` | the mount table | may a scan enter here | order of rules | one answer per mount |
| `cli` | none | commands; batch normalisation; reclaim estimate | order, deduplication, saturation | no operation is lost or added |
| `diagnose`, `preview`, `render`, `format`, `config`, `version` | none | read and print | - | - |

The CLI and the TUI both build a plan (capturing guards with `fsinfo`), have it
reviewed, and call `fsops.Apply`. `Apply` validates the whole plan, opens the
audit log, and executes the operations one after another. `scan` fills a tree
that `query`, `agg` and the TUI read and that `index` and `history` store
through `storefs`. After a plan the TUI repairs its tree or scans again. The
only shared mutable state between processes is the file system: the managed
root, the audit file, and the store directories with their lock.

## 2. What is modelled

### GuardedReplace: one operation that writes a destination

The state is what `src`, `dst`, the backup name and the staging name denote
(`fs`), the wrappers of the error under construction (`err`), whether
`withDestinationGuarded` has moved a destination aside (`backed`), and where
the code stands (`pc`). The history `destroyed` records what the operation
itself unlinked. The actions come in the order of the code:

* checks: `Precheck`, `Recheck` (`execute`, twice), `CheckGuard`,
  `LstatDestination`, and later `CheckGuardAgain`;
* moving the destination aside: `ReserveBackup`, `UnreserveBackup`,
  `DisplaceDestination`, `IdentifyBackup`, `GiveBack`;
* the build: `PublishSource` for a rename; `CreateDirect`, `FillDirect`,
  `UndoDirect` for a file copy or an archive; `CaptureSource`, `MakeStage`,
  `FillStage`, `VerifyStage`, `CheckRename`, `PublishStage`, `Unstage` for what
  is staged; `FinalizeCopy`, `CloseStage`, `InspectSource`, `UnlinkSource` after
  publication;
* the reaction to the build's error: `SettleInPlace`, `DropBackup`,
  `ClearOwned`, `ProbeDestination`, `RestoreBackup`.

Error wrappers are a set of tags (`failed`, `partial`, `published`, `owned`),
because wrapping keeps what is wrapped and `errors.As` looks through. A system
call that may fail is a disjunction. Another process creates, replaces, edits
and removes at `dst` and `src` between any two steps.

Assumed: nobody else touches the private names that `MkdirTemp` and
`CreateTemp` reserve; the source is guarded; `renameNoReplace` is atomic and
replaces nothing (Linux), while `os.Rename` does replace an empty directory.

### PlanApply: a plan and its audit log

One run of `applyPlan` after another over the same audit file. A single
operation is abstracted to what it may report and what it may have done by
then (`Mutate`); GuardedReplace and TreeDelete are the detail. `log` is what
was written, `durable` what `Sync` has confirmed; `Crash` may lose any record
that is not durable, at any step, and may cut a mutation anywhere. A caller's
writer that can be synced behaves like the owned file without open and close
failures, so it has no kind of its own. `Repeatable` names the operations whose
guards still hold after they are done (chmod and chown change neither identity,
size nor modification time), which is what lets a second run start over.

### TreeDelete: recursive deletion

Paths are numbered in walk order over a tree given by `Parent` and `Above`. An
object, and every state of it, is a number of its own (a stamp), so that
"the same object, unchanged" is an equation: a change of what
`sameCleanupObject` compares gives a new stamp. The walk (`Visit`, `List`,
`Captured`) fills `captured`; the removal takes the last captured path first
(`NextItem`), checks its ancestors up to the root (`CheckAncestor`), the object
(`InspectItem`), and removes it (`RemoveItem`); anything unexpected is
`Refuse`, and `Interrupt` is a cancellation or I/O error. Other processes add,
change, swap and remove. The modification time of a directory is not compared
by the code and does not count as a change in the model.

### PlanValidate: the validator against the execution

`predicted` is `planPathState` for every path, updated by each accepted
operation's effects (the code folds the effects each time it is asked; the
result is the same). An operation is added when `validateOperation` accepts it
and, unless it depends on earlier ones, when the dry run of `execute` accepts
it. `Apply` then runs the plan against `disk`, a tree of objects that remember
where they were when the guards were captured (`origin`) and whether their size
or modification time changed (`dirty`). There is no other process and no I/O
error in this module: what fails, fails because of the plan. Guards are
captured from the disk before the plan runs, as `captureOperationGuards` does.
Symbolic links, devices, the choice of archive format by file name, Windows
rules, and the field and ID checks are left out. `AllowUnguarded`, which only
plan construction sets, is taken to be false.

### StoreRoot: a store directory and its processes

A file is an object with an identity; `dir` says which object each name
denotes, `durable` the same as of the last directory sync, and `content` how
much of an object is written. A name is the lock file, the marker, the record,
something foreign, or a temporary. Each process runs one operation at a time
(`kind`): `create` is `NewStore` of a cache or a history, which makes the marker
*without* the lock (`ForNewStore`, `TightenIfEmpty`, `EnsureOwnership`,
`LookMarker` ... `SyncDrop`); `save` is `SaveContext` of `index` (`Check`, the
lock, `Enter`, the marker if it is missing, then `CreateTemp`, `Fill`,
`Publish`, `SyncPublish`, and the sweep of temporaries `List`, `Sweep`,
`Unlink`, `Verify`); `adopt` is `AdoptContext`. `LockLook`, `LockMake`,
`LockOpen`, `LockTry` and `LockCheck` are `WithLock`, whose lock belongs to an
open file and whose file may be replaced under the name while one waits. Every
step is one system call, and the steps of processes interleave freely.

What goes wrong is in four actions: `Fault` (a call fails or the context is
cancelled; a creation takes back its link by `RollMarker` and `RollTemp`),
`Crash` of one process, `PowerLoss` (each name is as synced or as last seen,
and an unsynced file may be damaged), `LoseLock` (somebody removes the lock
file). Assumed: the directory exists; random names do not collide; reading one
small file is one step; chmod survives a power loss. The variant is Unix.
`StillCurrent` of a save is a call that may fail. The fallback for file systems
without hard links is left out. Which snapshots a save retires is left to the
module `IndexStore`; here there is one record.

### HistoryStore: records under a quota, and their migration

`src` and `dst` map names, pairs of a key and the time of a scan, to what
stands there: a size for a record, `Broken` for what the code may remove
(damaged, obsolete, a temporary), `Foreign` for what it leaves alone, or
`Nothing`. `now` is the clock and the two locks have holders. The retention is
a set of operators: `Live`, `Slots` (the newest of a key), `Admit` (the greedy
filling of the quota, `Fitting` once for what is taken before others and once
for the rest), `RecordPlan` and `PrunePlan` for what goes, `BatchFits` and `ItemFits` for the two preflights of a migration. The operations are

* `RecordSnapshotContext`: `Lock`, `Reserve` (what is there, then the plan that
  must retain the record), `Publish`, `Enforce` (the plan again, from a new
  inventory), `RemoveNext` until `RemovedAll`, `Settle`;
* `PruneContext` and `ClearContext`: `Lock`, `Plan`, the same removals;
* `MigrateToContext`: `LockSource`, `Preflight`, and for each entry `NextEntry`,
  a whole `RecordSnapshotContext` in `dst`, `Load`, `Unlink`.

Steps are what the locks make atomic. `Fail` covers an error of a call, before
or after its effect, a cancellation and the death of the process, with what is
released then; a failed publication may leave a temporary. `Tick` lets the clock
go on or sets it back.

Assumed: exclusion and atomic publication, as StoreRoot shows them for a store
whose lock file stays; reading a store without its lock is one step; records of
one name differ in size; no temporary holds what reads as a record when the
history begins. The minute by which a scan may be ahead of the clock is
none here. Key directories appear and go with their entries. Dry runs,
ownership and adoption are left out.

`GuardedReplace`, `PlanApply`, `TreeDelete` and `PlanValidate` meet in `execute`:
PlanApply's `Mutate` is any outcome that GuardedReplace's `Status` and
TreeDelete's `Status` can give (`ok`, `error`, `partial`), and PlanValidate's
`Perform` and `Fail` are GuardedReplace without interference or failures. That
they refine it formally is planned (section 6).

### Scope and Scan: the scanner and what it may count

A path is the sequence of names below the root, and names are numbers in the
order of their spelling. `Scope` has one operator per rule (`RejectsPath`,
`IncludedPath`, `AllowsFilesystem`, `AllowsTarget`, `AllowsEntry`, `AllowsFile`);
`Scan` applies them where `classifyEntry` does, to a file system given as a
record (`world`): the entries of every directory, which of them are aliases
(symbolic links), sizes, link counts, devices, mounts, and the options of the
scan.

`frame` is one call of `scanDir` per directory, with its program counter and its
caller; `node` and `leaves` are the live tree; `claimed`, `edges` and `counted`
are `dirGroups`, their edges and `fileGroups`; `out` is the channel of one
snapshot. The actions follow the code: `BeginDir`, `OpenDir`, `ReadBatch` (any
batch of the entries that are left, for the order of `ReadDir` is the system's),
`Classify` (any of the batch next, for the stat workers finish in any order;
`ClassifyDir` claims a directory, `ClassifyFile` a file, `ClassifyFails` records
an error node), `RecordBatch` (what `liveTree.record` does under its mutex),
`ScanChild` (a goroutine if a slot is free, else inline, which suspends the
parent), `ChildReturns`, `AwaitChildren`. After the walk `Settle` is
`canonicalizeDirectoryOwners` and `normalizeFileOwners`: the directory tree is
rebuilt along the smallest paths, the smallest name of a file owns its bytes,
and every total is corrected. `EmitFinal`, `Deliver` (`pump`) and `Return` follow.
`CancelScan` and failures of a call come at any step. `Canonical` is the result of
`OwnersInTurn`, a function of the number of edges taken: each `NextOwner` takes the
smallest candidate of the frontier off and visits it.

### Queue, Session and NewestWins: the interactive session

`Update` of the program's one loop is an action per message or key; commands
that run beside it are records in `scans`, `saves`, `pending` and `job`, and each
of their steps is an action too. `Queue` has the pure part,
`normalizeAndValidateQueue`: what is nested in an earlier deletion collapses
(`Collapsed`), and what collides is refused (`Conflicting`).

* Scans: `StartScan` (a new generation, the old scan canceled), `ScanShows`
  (progressMsg), `ScanAnswers` (scanDoneMsg: complete, with errors, failed, or of
  an older generation and dropped), `PressStop`. A scan that runs while the disk
  changes may find any of what came or went meanwhile (`always`, `ever`).
* Saves: `SaveBegins` and `SaveEnds` are `cacheSaveCoordinator.save`, whose mutex
  is held from the comparison to the end of the write.
* Queue and review: `PressStage` and `Staged` (stageCmd, stagedMsg),
  `PressReview`, `PressMove`, `PressRemove`, `PressReorder`, `PressDiscard`,
  `Resize`, `PressEnter`, with `ClampReview` and `ResetReview`, which decide what
  counts as seen.
* Dry runs, exports, editor and shell: `DryRun`, `Exported`, `ShellDone`.
* The apply cycle: `PressApply` pauses the scan and copies the queue; `ApplyOne`
  is one operation of `fsops.Apply` with every status it may have; `PressCancel`;
  `Applied` removes what was completed from the queue, patches the tree for exact
  deletions (`Reconciled`, `Patched`) and either saves it as a generation of its
  own or scans again (`AfterMutation`).

The tree is what each entry adds to its directory (`own`), so that totals and
hard links can be wrong. `Measure` is the scanner's result, as `FinalTree` of
Scan has it. `NewestWins` is the abstract cache: accepted generations only
grow, and what is stored is an accepted one and never gives way to an older
one. `CacheNeverGoesBack` is the refinement
`INSTANCE NewestWins WITH accepted <- latest, stored <- cache.generation`.

`history` remembers, for the properties, the operations that were drawn in the
review since the queue was last changed, and whether a scan was stopped or
failed since the last complete one.

### IndexStore: the cache of scans

`entry` maps names to what they hold: a snapshot with its root (by name), time
and size, something broken, a temporary, something foreign. `SaveContext` is
`Call`, `Lock`, `WriteTemp`, `Publish`, then `Inventory` and its plan, `RemoveOne`
until the plan is done, `Finish`; prune, clear and invalidate go from `Lock` to
`Inventory`; a dry run takes no lock and removes nothing. The plan is a set of
operators that follow `prunePlan`: `Removable`, `ValidIn`, `Expired`, `Retained`,
the order by `Newer`, `NewestOfRoots`, and `Kept`, which fills the quota with the
scan just saved, the newest of each root, then the others (`KeptInTurn`, a
function of the set of names whose turn has come). A removal may fail
before or after its effect (`WithAction`: removed or may have been). A call is
canceled, a process dies and the clock goes on between any two steps.
Exclusion and the atomic write are StoreRoot's; so is ownership.

### Skills: the files of the agents

Commands (`asked`) resolve targets and profiles to locations (`Locations`,
`Resolvable`, `RulesFit`), look at each of them (`Look`, one read per location),
refuse if one was edited and there is no force (`Check`), and then write or
remove one after another (`Consider`, `Act`). There is no lock: a second command
and the user (`UserEdits`) act between any two steps, calls fail, and a command
may be killed. A text is missing, a managed definition of a profile with its
rules, or something a person wrote; the hash in the marker is what makes the
last two distinguishable.

### Program: one invocation

`Program` dispatches to one component, as `internal/cli/root.go` does: an
invocation is a scan, a session, maintenance of the cache, or skill files.
Within one invocation these components share no state (the session's scans and
its cache are abstracted in `Session`), so their interleavings are no
behaviours of the program and the others stay at an initial state. The
interactions inside an invocation are modelled in `Session`, between processes
in `StoreRoot`, `IndexStore`, `HistoryStore` and `Skills`.

## 3. What is checked

| run | states | what it shows |
|---|---|---|
| `replace` | 44 thousand | `ReviewedSurvives`, `ForeignKept`, `ErrorLeavesNothing`, `OkMeansReplaced` for all six builds |
| `replace_nested` | violation | a destination made by another process is deleted (finding 1) |
| `apply` | 33 thousand | `WriteAhead`, `OneInDoubt`, `LogIsTrue`, `CompletedIsAccounted`, `ChangesAreAnnounced`, `StopsAtFirstFailure` |
| `delete` | 64 thousand | `RemovesCapturedOnly`, `OutcomeIsTrue`, and that the delete ends (`Ends`) |
| `validate` | 288 thousand | `AcceptedPlansRun` (what is accepted runs to its end but for the named blind spots, and leaves the predicted disk), `ReviewedOnly` |
| `validate_guards` | violation | an accepted plan with a guard that its own prefix makes stale (finding 2) |
| `history` | 4.0 million | `MovedIsKept`, `MigrationIsFree` (an accepted migration goes through and retires nothing) of a migration; `RecordRestoresPolicy`, `RemovedForAReason`, `PublishedFirst` of the retention |
| `history_prune` | violation | an explicit prune leaves a key over its count (finding 3) |
| `store` | 1.08 million | `MutualExclusion`, `RecordsLast` (records are whole and what was saved stays), `ForeignUntouched`, `OwnedStoreServes`, `FirstUseIsClean` (one of those that initialise a store succeeds, and no temporary stays), and that operations end (`Settles`) |
| `commands` | 668 thousand | scan: `FinalTree` (with `OwnersAreFirst`), `LiveTotals`, `SnapshotsInOrder`, `ScanEnds`; session: `StaysResponsive`, `SettledViewIsTrue`, `AppliedWasReviewed`, `CacheNeverGoesBack`; cache: `RetentionHolds`, `ActionsAreTrue`, `SavePublishesFirst`; skills: `RetryGoesThrough`, `EditsSurvive`; types: `TypeOK` |
| `review_cursor` | violation | a refused staging opens the review with a cursor behind its end (finding 4) |
| `late_link` | violation | an exact deletion of a file that was linked after it was staged (finding 5) |

Every property also has a mutant: a plausible slip in a mapped definition
(`Slip:` in the modules) that breaks it under the same configuration.

**Bounds.** `MaxForeign = 3` in `replace`: the longest interesting schedule is
one change before the displacement, one between displacement and publication,
and one at the restore. The number of steps of the operation itself is not
bounded. `N = 2`, `MaxRuns = 2` in `apply`: two operations are the least with a
prefix, two runs the least with an earlier one; a repeatable first operation
lets the second run go past it. The tree of `delete` has a directory with one
entry and room for another beside a file, the least in which an ancestor
other than the root, a sibling and an addition occur; three foreign changes
allow one during the walk and a swap with a refill during the removal.
`MaxOps = 3` in `validate` over two entries with room for one child each: three
operations are what it takes to make an archive, truncate it and extract it,
and two levels are what it takes to look inside a placed tree. The initial
disks are four, so that each of the two entries is absent, a file, an empty or
a filled directory, or holds an archive where it matters. The proofs do away
with the bounds of `replace`, `apply`, `delete`, `store` and `history`, and with
those of the session for what section 5 names. In `store` two processes carry out
three operations with one mishap: two operations race while the third, by
either process, finds what they left, which includes a save after a rolled back
creation and a creation beside a save and its sweep. Three temporary names are
as many as can be alive or listed; `MaxObjects = 9` never runs out (one object
per known name, one per temporary, one lock file per process that waits). In
`history` two operations by any of two processes follow or interrupt one
another, with one failure or correction of the clock. Two keys, a count of 2,
a quota of 4 and sizes 1 and 2 make every limit reachable, alone and against
another; an age of 2 from a clock that goes from 3 to 4 has records that expire
before, during and never. The stores begin with contents chosen so that a
migration finds nothing, a full key, a full store, a collision, a damaged file
and a foreign one in its way.

In `commands` the worlds of a scan (`MCWorlds`) are four trees of at most four
directories and two files: two directories that reach each other and the root,
a directory two others reach, hard links across directories, and one with a
stream of snapshots. Each of the first three runs with no slot, one and two, and
batches of one, two and three entries, the least in which a goroutine starts
another, all slots are taken and a directory takes several batches; one failure
and a cancellation are enough because a scan never recovers from either.
Policies of every kind follow. The eight sessions (`MCSetups`) each allow a few
keys and faults of the kinds that interact: scrolling and editing a queue of
three on two heights of the screen; deletions with and without hard links,
twice, with a failure; the same while scans are refreshed, stopped, interrupted
by a shell and canceled; following links; a refused staging after a failed
apply; copies, moves and an audit log inside the tree; read-only. The cache has
two processes, two scans of one root and one of another, four beginnings and one
mishap; five units of quota make every combination of keeping and retiring
occur. Two skill commands take any of eleven requests beside one edit and one
failure.

**Fairness.** Three properties need it. `Settles` assumes weak fairness of each
process's next system call (`Advance`), because a goroutine in straight-line
code keeps running and one that waits in `LockTry` polls. That a busy lock could
be handed back and forth past a waiting process forever is outside the claim:
the number of operations is bounded. `Ends` assumes weak fairness of the
delete's own next step. `Interrupt`, faults, crashes and the other processes are
under no fairness, so nothing ends because a cancellation came to help. Foreign
changes are bounded by `MaxForeign`, but the argument for `Ends` does not lean
on it: each pass removes a captured object or stops. `ScanEnds` assumes weak
fairness of the scanner's own steps and of the pump that delivers snapshots:
goroutines keep running, and the consumer of a snapshot returns. Cancellation
and failures are under none, so a scan ends without their help. No liveness is
claimed of the session, since the user may leave it at any state.

**The exceptions that properties name** are behaviours of the code, found while
modelling, and each is needed (without it TLC finds a counterexample):

* `ForeignKept`: an extraction renames with `os.Rename`, which replaces an empty
  directory made since it looked; a failed cleanup inside a stage is reported as
  owning the destination (finding 1); and with a guard for an absent
  destination and the overwrite policy, an object that appears between the
  guard and the displacement is moved aside and deleted, because its identity is
  compared only for a guard that expects one (apply.go:901).
* `ErrorLeavesNothing`: an archive whose cleanup fails leaves a partial file and
  plain `error` (apply.go:1470); a directory copy whose handle fails to close
  after publication is a plain `error` although the copy stands (apply.go:1257).
* `RecordsLast`: a creation that cannot sync its link takes the marker back by
  name and without the lock, though a save may have relied on it meanwhile
  (storefs.go:894).
* `MutualExclusion`, `OwnedStoreServes`: the lock file is removed under a process
  that is inside.
* `OwnedStoreServes`: processes that initialise a store together take each
  other's temporary, or the marker itself, for foreign content and give up
  (storefs.go:322); `FirstUseIsClean` says that one of them succeeds all the same.
  A crash in the first initialisation leaves a temporary, and the store is
  refused from then on until `state migrate` adopts it.
* `MigrationIsFree` (and, through them, `MovedIsKept`): the
  preflight overlooks a damaged or foreign file under a record's name in the
  destination, a key that already holds more than its count, and records that
  seem to come from the future. The last are invalid and are removed like
  damaged ones, so a clock that was set back costs the records made before.
  The destination is read without its lock, so another process may change it.
* `RemovedForAReason`: the count is taken before the quota, so a record may go for
  the sake of newer ones that then go themselves.
* `AcceptedPlansRun`: five ways in which an accepted plan fails all the same,
  listed above the property. One of them is at odds with README.md:454-456 (no
  valid prefix runs when a later operation is invalid): `extract` into a directory
  the plan makes counts as dependent and is not preflighted (plan_validate.go:121,
  262), although its archive is there to be read.
* `AppliedWasReviewed`: the terminal has five lines or more for the review. On a
  smaller one the line of an operation may be cut off although it counts as
  seen (view.go:260-262; README.md:616-617 promises that it was drawn).
* `SettledViewIsTrue`: after a scan was stopped by the user or failed, a complete
  tree from before stays on the screen as complete; README.md:623-629 and
  mutations.go:120-122 speak of later scans. A link made after staging is finding
  5. And the tree is compared once nothing is under way.
* `EditsSurvive`: what the user writes after a command has read the status of
  that file is lost (skills.go:819, 872).
* `RetentionHolds` speaks of the inventory a call took and of the clock then. A
  read that fails for the moment makes a snapshot look broken, and prune deletes
  it; the scan just saved stays even then, without being the newest of its root.
  Of scans of one root and one age the first by name is the newest. The proof
  needed both to be said, which no state of the run tells apart. And nothing
  compares the time of a snapshot to be saved with the one that
  another process has stored under its name.
* `RetryGoesThrough`: another profile's definition at an explicitly named path is
  a conflict like an edited file.

**What the models stop at.** `Late` in Session: an answer to a staging, an export
or a shell may arrive while an apply or a dry run is under way. The model follows
such a history no further, because from there the screen and the job no longer
belong together. Read from the code: the review opens over the running apply
(update.go:118-142), from which a second apply or a dry run can be started, whose
end cancels the context of the first; an exported plan or a closed shell starts a
scan while operations run; what was staged meanwhile is dropped with the queue
when the apply succeeds (update.go:241-248). `StaysResponsive` and the other
session properties hold up to that point. In Session the screen is drawn after
every call (bubbletea draws at a rate), of the canceled scans only the last may
still answer, one export is in flight at a time, and the result of a failed save
is not shown. In the worlds of Scan, rules on paths occur only where nothing has two
names: with followed aliases a rule on one of the paths of a directory makes the
result depend on which was met first. (Hard links alone do no such harm, as
`TreeIsRight` shows: each name is admitted or not by itself.) A pattern that names an entry of the
directory `c` of `Shortcut` by the larger of its two paths
(`globs |-> {<<2, 1, 1>>}`) makes TLC violate `FinalTree`, although the comment
at scan.go:238-240 says that the authoritative tree is independent of goroutine
scheduling.

## 4. Findings

1. **A foreign destination may be deleted** (`replace_nested`). README.md:483-486
   promises that a destination created by a different process during replacement
   is kept. The wrapper `ownedDestinationError` of a nested file copy leaves the
   staging area with the error and makes `withDestinationGuarded` clear the
   destination.
2. **Guards made stale are accepted** (`validate_guards`).
   documentation/plan-format.md:130-132 promises their rejection. Effects on a
   path are not carried to what is below it when a tree is placed or replaced.
3. **A prune does not restore the count per key** (`history_prune`). The comment
   at history.go:443-445 says that the next record or explicit prune repairs what
   a failed enforcement left, and README.md:690-691 that `state prune` enforces
   count retention. `pruneGlobalUnlockedContext` knows validity, age and bytes
   only; the count is restored by the next record of the same key.
4. **The review's cursor may be behind the end of the queue** (`review_cursor`).
   An apply that fails part way shortens the queue (update.go:236-248) and leaves
   the cursor; a staging that is then refused opens the review without resetting
   or clamping it (update.go:125-134). `x` and `[` index the queue and the program
   panics, where README.md:613 promises that "`x` removes the selected operation".
5. **A link made after staging is not reconciled** (`late_link`). Whether the
   deletion of a file needs a scan is decided by the number of names captured at
   staging (mutations.go:320), which no guard compares with the number at the
   apply (apply.go:700-714). A shell of the session may link the file in between;
   the name that stays is then shown, and cached, with no bytes, where
   README.md:624-627 promises a scan for hardlink ambiguity. The attempt to prove
   `SettledViewIsTrue` led to it; the property leaves this case out (`relinked`).

## 5. What is proved

TLAPS proves the following for every value of the constants: any set of builds
and any amount of interference, any number of operations and runs, any tree, any
processes, mishaps, keys, sizes and contents of a store, any set of sessions, any
paths and plans of any length; any trees, aliases, hard links, policies, slots and
batches of a scan; any processes, scans and quota of the cache; any requests for
skill files.
The assumptions are the named ASSUMEs of the modules. They type the constants,
and beyond that say: in TreeDelete, that `Parent` and `Above` describe a tree
numbered in walk order; in PlanValidate, that the paths are sequences of names
with their parents among them, and the disks trees with a root; in StoreRoot, that the names of temporaries are none of
the known ones; in HistoryStore, that a temporary is never a valid record and
that nobody is called "nobody"; in Session, that a session knows finitely many
paths, those of its items, stagings and files among them, with the parent of each a
directory, and that a terminal has a greatest height; in Scan, that the directories
and files of a disk are finitely many, that every directory has one path without
aliases, its own, and that an entry which is no alias lies at the path of its
directory; in IndexStore, that the names of temporaries, scans and foreign files
differ and that a scan to be saved fits the quota by itself, which `SaveContext`
checks; in Skills, that a request names known targets and profiles, which the
commands check first.

* `GuardedReplaceProofs`: `TypeOK`, `ReviewedSurvives`, `ForeignKept`,
  `ErrorLeavesNothing`, `OkMeansReplaced`. None of the four is inductive. The
  strengthening says, for each step, which names may hold what: which objects
  can stand at the backup and the stage (`Names`), how the error's tags
  correlate with the step and the build, and what has been destroyed or placed
  by then. It is a conjunction of named parts, each preserved by each group of
  actions, so the proof has one lemma per part and one case per group.
* `PlanApplyProofs`, of PlanApply: `TypeOK`, the four invariants and both action properties.
  The strengthening ties the loop's position to the log: the operations below
  `cur` in this run have a durable `ok` outcome, the one at hand has a durable
  intent once it executes, and nothing later has a record; what older runs left
  is covered by the same statement per run. `LogIsTrue` needs in addition that
  an operation whose last record is a real `ok` has not moved since.
  In the same module, of TreeDelete: `DeleteTypeOK`, `OutcomeIsTrue`,
  `RemovesCapturedOnly`. The
  invariant says that while the removal of `item` is being checked, every path
  between `ancestor` and `item` is either still as captured or among `touched`,
  that `removed` counts what is in `gone`, and that a captured path no longer
  in `left` does not show its captured stamp again, for stamps are not reused.
* `SessionIndexProofs`: `CacheRefines`, that the session's cache implements
  `NewestWins` (`CacheNeverGoesBack`): initial states map to initial states, and
  every step accepts a generation, stores one, or shows the abstract cache
  nothing. The refinement alone is not inductive: that a save stores nothing
  older than what is there depends on what the other saves may do meanwhile. The
  invariant `CacheInv` adds that the scan's generation is never below the newest
  accepted, that every save is of a generation accepted before it began, and that
  under the mutex one save is written at a time while the store holds nothing
  newer than it.
  `NeverStuck` (`StaysResponsive`) has an invariant of its own: records have
  their fields (`Screens`), a scan that was canceled is of an older generation
  than the one shown (`ScansKnown`), and unless the session is `Late` the screen
  matches the job and the scan that is shown is under way (`Attended`).
  `OnlyReviewedApplied` (`AppliedWasReviewed`) needs that what counts as seen was
  drawn, whichever screen is shown (`Drawn`), that what is at the confirmation is
  collapsed, without conflicts and within the cap (`Confirmed`), and that it, and
  what is being applied, was drawn as a whole (`Reviewed`): a failed apply leaves
  a part of it behind while `seen` keeps its value. Its lemmas say what
  `ResetReview` and `ClampReview` let be drawn on a screen of any height, and
  that a collapsed queue of the same length is the same queue.
  `ViewIsTrue` (`SettledViewIsTrue`) has the invariant `Settling`: the disk and the
  queue stay among known paths (`Inside`); no two operations have the same id, now
  or when what is asked is staged (`Numbered`); the scan that is shown is one scan,
  of a generation not yet accepted, and finds the disk as it is unless a shell is
  out (`CurrentScans`); what is applied is the queue, and every result but the last
  was a success (`Carrying`); a complete tree that no scan is to replace is the
  disk's (`Shown`); while a plan is applied that has only deleted so far, it is the
  disk's as it was before, the disk is what the deletions leave of it, and no file
  that went had another name (`During`); and such a tree is in the cache, or being
  saved, or a save has failed (`Written`). The property says nothing of the time a
  plan runs, so it is far from inductive: `During` is what connects the two ends.
  At the end either some operation makes the session scan again, or the tree is
  patched, and the heart of the proof is that the patch is exact: what `Patched`
  does operation by operation is what a scan would measure of the disk
  (`CountsMeasure`). Beneath are lemmas on paths and on their order, for the first
  name of a file is the one that carries its bytes. In a `Late` state a job is
  there, so nothing is settled and the property holds of it; the session's
  invariants are carried together (`Traced`), for this one needs the others. TLC checked `Settling` on the 321
  thousand states that a configuration of the session by itself reaches before it
  was proved.
  `SessionTypes` shows what a session may hold: its disk, its tree and the sources
  of its queue stay among known paths. Beyond the bounds of fields it needs what
  the other proofs trace: a scan that ends shows what it found, and what it found
  was on the disk at some time of it.
  Of IndexStore: `IndexTypes`, `SavedBeforeRemoved` (`SavePublishesFirst`),
  `ReportsAreTrue` (`ActionsAreTrue`), `RetentionIsKept` (`RetentionHolds`). The
  invariant `IndexInv` says of each call where it has the lock, that a save that has
  the lock after publishing finds its scan in place (`SavedFirst`), and that a call
  that removes follows the plan of what it listed, that what it has removed is gone,
  and that everything else is as it was listed (`Removing`), for nobody else changes
  the store meanwhile. What the plan then leaves is shown by induction over the names
  taken in turn (`KeptKeeps`): it fits, what it leaves out did not fit, and the
  newest of each root are in if they fit together.
  All sizes are sums over sets by the library's `MapThenSumSet`, which takes the elements
  in an order of its own choice; the lemmas on `SumOver` show that a sum does not
  depend on it and grows by what is added. The totals of a scan use them too.
* `StoreRootProofs`: `TypeOK` and all five safety properties of StoreRoot. The
  invariant has eight parts: who holds which open lock file (`Locks`), which
  steps belong to which operation (`Places`), that what the marker and the
  record name, and what will become them, is synced (`Kept`), what is relied on around
  the publication (`Relied`), that in somebody else's directory everybody is
  refused before acting (`Refused`), what an operation that nothing excuses may
  count on (`Served`), that a temporary belongs to somebody who will remove it
  (`Temporaries`), and, for processes that make an empty store together, that one
  of them is about to publish the marker before another is refused (`FirstUse`).
  Exclusion is not inductive by itself: it needs that whoever is inside holds the
  lock file that the name denotes, which is what `LockCheck` establishes.
* `HistoryStoreProofs`: `TypeOK`, the three invariants and both step properties of
  HistoryStore. The invariant says who holds the locks and which step belongs to
  which operation (`Locks`, `Roles`), that no temporary is a record
  (`Temporaries`), that what was moved, or is about to leave the source, is in the
  destination and in nobody's removals, or excused (`Kept`), and of each process
  what it relies on: its batch is still in the source (`Batched`), what it records
  fits and was published before anything goes (`Made`, `Published`), the rest of
  an accepted batch still fits (`Fits`), the destination is its decision carried
  out as far as `todo` tells (`Retiring`), and what it leaves behind and how it
  ends (`Restored`, `Through`). TLC checked this invariant on all 4.0 million
  states of `history` before it was proved. Under it lie lemmas about the
  operators: sums of bytes over sets, the newest of a key, and the greedy filling
  of the quota (`AdmitKeeps`: what is admitted fits, contains what must be kept,
  and leaves out only what did not fit). These are inductions over numbers and
  finite sets; the library's theorems with an operator parameter cannot be used,
  but a least counterexample in a set does the same (`Least`, `Induction`,
  `SetInduction`).
* `PlanValidateProofs`: `TypeCorrect` (with it, that the disk stays a tree) and
  `OnlyReviewedAltered` (`ReviewedOnly`). The invariant adds to the types what the
  validator let in: a destination is there and not the source, and under the
  policy `overwrite` it is guarded. Every operation, as it passes its preflight,
  is shown to leave a tree and to reach no object but at or below its source,
  which is there, or its destination (`OutcomesReach`); below a destination that
  is not there, there is nothing to reach. The lemmas beneath are about paths as
  sequences of names (`WithinParent`, `RebaseParent`) and trees on them
  (`AboveIsDirectory`, `PlacedIs`).
  `AcceptedRuns` (`AcceptedPlansRun`) compares the prediction with the disk, one
  operation at a time. `Foretells` relates the two: the kind of a path is as
  predicted unless a placed tree hides it, and inside such a tree if the plan
  handled the path itself; a path taken to be unchanged is as it was; inside a
  placed tree nothing is at its own origin, so no captured guard can hold there;
  and what was moved has left its origin and the directories above marked as
  changed, so no guard is accepted for what was there. One lemma per kind of
  operation shows that it keeps `Foretells` (`PerformForetold`). The invariant
  (`Foreseen`) is that some sequence of predictions leads from the disk before
  the plan through the operations to `predicted`, and that the disk now is
  foretold by the prediction at `at`; what `Blind` leaves out cannot fail then
  (`FailureIsKnown`). TLC checked these parts, with the sequence as a history
  variable, on plans of three operations before they were proved.

* `ProgramProofs` holds the proofs about the skill files, the scan and the program.
  `ProgramRunsSession`, `ProgramRunsIndex` and `ProgramRunsSkills` say
  that every behaviour of the program is one of each of these components as it is
  specified alone, so what is proved of them is proved of the program. For the
  scan the theorems are stated of the program at once. `ProgramTypes` (`TypeOK`)
  puts the types of all together.

  *Scan*: `TotalsAreLive` (`LiveTotals`), `OwnersAreSettled`,
  `ShownInOrder` (`SnapshotsInOrder`) and `ScanTypes`. While the walk goes on, the invariant is `WalkStands`, a conjunction
  of eleven parts. The tree is a tree: its parents lead to the root from everywhere
  (`TreeStands`), which gives induction over directories and makes `Above` what it
  should be. A recorded name is neither unread, nor in a batch, nor planned
  (`RecordedOnce`). A running `scanDir` is waited for by its parent's, and what it is
  yet to enter has not begun (`Called`, `Waited`). What is planned to be entered is
  planned once, by its claim where aliases are followed, and by its only path where
  they are not (`Claimed`). The bytes of a file with several names are planned or
  recorded once, and its identity is among those counted (`Weighed`). Then a total
  is the sum of what is below it (`TotalsStand`), and stays it when an entry is
  added and passed up to the root (`Propagate`). For each kind of step one lemma
  says that it keeps each part. After the walk every scan is over (`Rested`), the
  tree that `Canonical` makes by moving directories one by one is still a tree, for
  a move is refused below itself (`CanMove`), and `Recomputed` totals are the sums
  again; the owners of `Normalized` leave the bytes of every file at one name.
  `OwnersAreSettled` (`OwnersAreFirst`, the part of `FinalTree` that needs no
  complete scan) says which: that of the smallest path. Every directory of the tree
  has the edge it was entered by, and what an edge leads to was claimed and is in
  the tree in the end (`Reached`). `OwnersInTurn` is then followed turn by turn
  (`TakenInTurn`): what has its place has it with all above it, so a move to what a
  candidate asks for is never refused; a path comes before those it begins, so no
  later candidate is on a smaller path than what has its place; and there are as
  many turns as edges (`InTime`), so that none is left. A snapshot is never after the tree as it is, nor the one delivered after the one in
  the channel (`SightsStand`).

  *Skills*: `SkillsTypes`, `RetryIsFree` (`RetryGoesThrough`), `EditsAreKept`
  (`EditsSurvive`). The invariant `SkillsInv` knows of every text who may have
  written it (`LastWritten`), of every command how far it is (`Progress`), and of
  what a command has looked at that it is as it was seen, or as the command left it,
  unless somebody else wrote there since (`Looked`). Locations are distinct paths
  (`LocationsAre`), though `SetToSortSeq` orders them by an order of its own.

* `ScanTreeProofs`: `TreeIsRight`, that `FinalTree` holds where the rules are
  `Unambiguous`: on whatever paths followed aliases lead to a directory, the policy
  lists and enters the same of its entries there. Without followed aliases every
  policy is so, and with them every policy of names, devices and sizes
  (`NamesAreUnambiguous`). The condition is needed: section 3 has a rule on a path with
  which the result depends on the goroutines.
  While a scan goes on without error or cancellation (`Clean`), the invariant is
  `AllSeen`. Every scan has the path of its directory (`PathsStand`). What is
  planned or recorded was admitted, and recorded without an error (`Sound`). What a directory's scan has read
  is still in its batch, or not admitted, or planned, or in the tree or among
  the edges (`NoneMissed`). Each entry has its size or, if its file was met before,
  none and a link, and some entry holds the bytes of each file that counts as met
  (`ChargedOnce`). The counters are the numbers of files met and of directories
  begun (`AllCounted`). Each is kept by each kind of step (`DirSees`). When the root's scan is done, the
  parts of a scan that could still hold something back are empty (`AllDone`), so the
  tree has all that was admitted. The invariants of `OwnersAreSettled` say where
  the settling puts a directory; since what is listed does not depend on the path, it
  is listed at that place too (`WaysPass`), and since of the entries of one file
  exactly one held its bytes, their sum is its size (`SettledBytes`).

The types of all components are proved; a run still checks those of `commands`.

Only model-checked: the liveness properties `Ends`, `Settles` and `ScanEnds`, for
which the prover has no rules, and the violations, which are counterexamples.
Of `FinalTree` nothing is open but the trees whose rules are ambiguous, and for
these it is false. Its parts that need no complete scan are proved for all trees and
policies: the totals, and that no bytes are in them twice (`LiveTotals`), and that the
settling of owners never fails and gives each entry its smallest path
(`OwnersAreFirst`). TLC checks it in every world of `MCWorlds`, for every order of
reading.

## 6. Plan

In this order; the modules are written to be proved about (constants with
assumptions, no RECURSIVE).

1. Over StoreRoot, the abstract specification it implements: an atomic register
   per file under a lock, used by IndexStore and HistoryStore.
2. An abstract operation (the three statuses and what each promises) implemented
   by GuardedReplace and TreeDelete, and used by PlanApply.
3. The pure parts of `cli` (batch normalisation, the saturating reclaim estimate),
   `query` and `agg` as operators checked against reference definitions.

## 7. Not modelled

Parts left out altogether, as `PROJECT.json` lists them: the archive formats and
the rules of their layout, the decoding of plans, rendering and navigation of the
screen, `query` and `agg`, and `diagnose`, `preview`, `render`, `format`, `config`,
`version`. Left out of modelled components:

* `index`: `LoadContext` and what a snapshot file contains; adoption and previews.
* `history`: the reads on their own, dry runs, the comparison of two snapshots.
* `scan`: a root that is a file, times, depths, the order of children, the
  semaphore of open directories (held within one step), and the pool of stat
  workers (their results come in any order).
* `scope`: patterns with wildcards, mountinfo parsing, the spelling of rules.
* `tui`: marks, filters, sorting, previews, the analyses (growth, pressure, open
  deleted files), the destination picker, loading the cache beside the first scan,
  and quitting.
* `skills`: temporaries left by a killed command, and which component of a path
  was rejected: both are failures of a call.
* `cli`: flags and output, state and history commands as far as they only call
  the stores, the editor for administrator rules, plan batches.

Not planned: text formatting and parsing, rendering, flags, `/proc` reading,
the Windows and macOS variants of system calls.
