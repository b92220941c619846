------------------------------- MODULE Session -------------------------------
(***************************************************************************)
(* The interactive session (internal/tui): one loop handles the keys and   *)
(* the answers of the commands it has started, which run beside it: scans, *)
(* inspections of what is to be staged, an apply or a dry run, the export  *)
(* of a plan, and saves of the cache.  An action is one call of Update, or *)
(* one step of a command.                                                  *)
(*                                                                         *)
(* The tree on the screen is what each entry adds to the total: a directory*)
(* grows with the number of its entries, a file with several names counts  *)
(* under the smallest.  A scan that runs while the disk changes may find   *)
(* any of what was there meanwhile.  The screen is drawn after every call. *)
(* Marks, filters, sorting, previews and the analyses are left out.        *)
(***************************************************************************)
EXTENDS Queue, Functions

CONSTANT Setups    \* disks with the options of a session, and bounds:
                   \* may counts the keys and faults of each kind

\* The keys and faults that are bounded.
Bounded == {"progress", "fault", "refresh", "stop", "review", "edit", "resize", "input",
            "stage", "dryRun", "export", "shell", "apply", "cancel"}

\* Where the path p goes; dest is a directory for several paths.
DestIn(staging, p) ==
    IF staging.dest = NoPath \/ Len(staging.paths) = 1 THEN staging.dest
    ELSE Append(staging.dest, Last(p))

ASSUME SessionAssumption ==
    \A s \in Setups :
        /\ <<>> \in s.items /\ s.dirs \subseteq s.known
        /\ s.items \cup s.loose \cup s.cached \cup {s.planPath} \subseteq s.known
        /\ s.auditPath \in s.known \cup {NoPath}
        \* What contains something is a directory.
        /\ IsFiniteSet(s.known) /\ s.known \subseteq Seq(Int)
        /\ \A p \in s.known \ {<<>>} : Front(p) \in s.dirs
        /\ s.heights \subseteq Nat /\ \E top \in s.heights : \A h \in s.heights : h <= top
        /\ \A t \in s.stagings :
              /\ t.action \in {"delete", "mkdir", "copy", "move"} /\ t.paths \in Seq(s.known)
              /\ t.action \in {"copy", "move"} =>
                    \A i \in DOMAIN t.paths : DestIn(t, t.paths[i]) \in s.known
        /\ s.maxQueue \in Nat \ {0}
        /\ DOMAIN s.may = Bounded /\ \A k \in Bounded : s.may[k] \in Nat

VARIABLES
    setup,       \* what this session meets; it does not change
    disk,        \* the paths that exist, <<>> for the root
    tree,        \* root and completeTree
    scan,        \* scanning, retainDuringScan, scanGeneration, applyNeedsScan
    scans,       \* scans under way, those canceled included
    latest,      \* cacheSaves.latestSuccessful
    saves,       \* saves under way
    cache,       \* what the store holds of this root
    view,        \* management and the state of the review
    queue,       \* the operations staged
    job,         \* the apply or dry run under way, or NoJob
    pending,     \* stagings, exports and shells that have not answered
    history,     \* what the properties remember
    left         \* what remains of the bounds

sessionVars == <<setup, disk, tree, scan, scans, latest, saves, cache, view,
                 queue, job, pending, history, left>>

data == <<tree, scan, scans>>
store == <<latest, saves, cache>>

NoJob == [kind |-> "none", plan |-> <<>>, results |-> <<>>, canceled |-> FALSE]

Spend(k) == left[k] > 0 /\ left' = [left EXCEPT ![k] = @ - 1]

-----------------------------------------------------------------------------
(* What a scan measures. *)

IsDirectory(p) == p \in setup.dirs
ChildrenIn(S, p) == {c \in S : Len(c) = Len(p) + 1 /\ IsPrefix(p, c)}
SameFile(S, p) == {f \in S \ setup.dirs : setup.file[f] = setup.file[p]}

OwnBytes(S, p) ==
    IF IsDirectory(p) THEN 1 + Cardinality(ChildrenIn(S, p))
    ELSE IF \E f \in SameFile(S, p) : PathLess(f, p) THEN 0 ELSE 10

Measure(S) == [p \in S |-> OwnBytes(S, p)]

\* The scanner's mark of a name whose bytes another name owns.
IsHardlink(own, p) == own[p] = 0

Subtree(S, p) == {q \in S : Within(p, q)}
TotalOf(own, p) == MapThenSumSet(LAMBDA q : own[q], Subtree(DOMAIN own, p))

Whole(S) == \A p \in S \ {<<>>} : Front(p) \in S

\* The disk becomes S, under the scans that run.
DiskBecomes(S) ==
    /\ disk' = S
    /\ scans' = {IF s.canceled THEN s
                 ELSE [s EXCEPT !.always = @ \cap S, !.ever = @ \cup S] : s \in scans}

-----------------------------------------------------------------------------
(* Scans. *)

\* Of the scans that were canceled only the last may still answer.
Canceled(ss) ==
    {[s EXCEPT !.canceled = TRUE, !.always = {}, !.ever = {}] :
        s \in {x \in ss : ~x.canceled \/ \A o \in ss : o.canceled}}

\* startScan: what is complete stays on the screen until the scan answers.
StartScan(own, complete) ==
    LET generation == scan.generation + 1 IN
    /\ scan' = [on |-> TRUE, retain |-> complete, generation |-> generation,
                restart |-> FALSE]
    /\ scans' = Canceled(scans) \cup
                {[generation |-> generation, canceled |-> FALSE,
                  always |-> disk', ever |-> disk']}
    /\ tree' = [own |-> own, complete |-> complete]

Refresh == UNCHANGED disk /\ StartScan(tree.own, tree.complete)

\* Slip: the scan is canceled and the badge stays.
DropScanQuietly(restart) ==
    /\ scan' = [scan EXCEPT !.generation = @ + 1, !.restart = restart]
    /\ scans' = Canceled(scans)

\* cancelScan with a new generation, so that its answer is stale.
DropScan(restart) ==
    /\ scan' = [on |-> FALSE, retain |-> FALSE, generation |-> scan.generation + 1,
                restart |-> restart]
    /\ scans' = Canceled(scans)

\* progressMsg: a shallow picture, unless a complete one is being refreshed.
ScanShows ==
    /\ Spend("progress")
    /\ \E s \in scans :
          /\ s.generation = scan.generation
          /\ scan' = [scan EXCEPT !.on = TRUE]
          /\ tree' = IF scan.retain THEN tree
                     ELSE [own |-> Measure({p \in s.always : Len(p) <= 1}), complete |-> FALSE]
    /\ UNCHANGED <<setup, disk, scans, store, view, queue, job, pending>>

\* scanDoneMsg with a complete tree, which is saved.
ScanCompletes(s) ==
    /\ \E some \in SUBSET (s.ever \ s.always) :
          LET found == s.always \cup some IN
          /\ Whole(found)
          /\ tree' = [own |-> Measure(found), complete |-> TRUE]
    /\ latest' = Max({latest, s.generation})
    /\ saves' = IF setup.store = "writable"
                THEN saves \cup {[generation |-> s.generation, own |-> tree'.own, writing |-> FALSE]}
                ELSE saves
    /\ UNCHANGED <<cache, left>>

\* scanDoneMsg with errors: the tree lacks what could not be read.
ScanFallsShort(s) ==
    /\ Spend("fault")
    /\ \E p \in ChildrenIn(s.always, <<>>) :
          tree' = [own |-> Measure(s.always \ Subtree(s.always, p)), complete |-> FALSE]
    /\ UNCHANGED store

\* scanDoneMsg with an error and no tree: the old one stays.
ScanFails == Spend("fault") /\ UNCHANGED <<tree, store>>

ScanAnswers ==
    /\ \E s \in scans :
          /\ scans' = scans \ {s}
          /\ IF s.generation # scan.generation
             THEN UNCHANGED <<tree, scan, store, left>>
             ELSE /\ scan' = [scan EXCEPT !.on = FALSE, !.retain = FALSE]
                  /\ ScanCompletes(s) \/ ScanFallsShort(s) \/ ScanFails
    /\ UNCHANGED <<setup, disk, view, queue, job, pending>>

\* Pressed r and c of the main view.
PressRefresh ==
    /\ view.mode = "none" /\ Spend("refresh")
    /\ Refresh
    /\ UNCHANGED <<setup, store, view, queue, job, pending>>

PressStop ==
    /\ view.mode = "none" /\ scan.on /\ Spend("stop")
    /\ DropScan(scan.restart)
    /\ UNCHANGED <<setup, disk, tree, store, view, queue, job, pending>>

-----------------------------------------------------------------------------
(* Saves of the cache: cacheSaveCoordinator.save holds its mutex from the  *)
(* check to the end of the write.                                          *)

\* Slip: the generation is not compared again once the mutex is held.
SaveAnyway ==
    /\ \E v \in saves :
          /\ \A o \in saves : ~o.writing
          /\ saves' = (saves \ {v}) \cup {[v EXCEPT !.writing = TRUE]}
    /\ UNCHANGED <<setup, disk, data, latest, cache, view, queue, job, pending, left>>

SaveBegins ==
    /\ \E v \in saves :
          /\ \A o \in saves : ~o.writing
          /\ saves' = IF v.generation < latest THEN saves \ {v}
                      ELSE (saves \ {v}) \cup {[v EXCEPT !.writing = TRUE]}
    /\ UNCHANGED <<setup, disk, data, latest, cache, view, queue, job, pending, left>>

SaveEnds ==
    /\ \E v \in saves :
          /\ v.writing
          /\ saves' = saves \ {v}
          /\ \/ cache' = [generation |-> v.generation, own |-> v.own, failed |-> FALSE]
                /\ UNCHANGED left
             \/ Spend("fault") /\ cache' = [cache EXCEPT !.failed = TRUE]
    /\ UNCHANGED <<setup, disk, data, latest, view, queue, job, pending>>

-----------------------------------------------------------------------------
(* The review of the queue. *)

\* reviewPageSize, and the positions whose lines are drawn: four lines come
\* before them, and what exceeds the screen is cut off.
Page(v) == Max({1, v.height - 6})
Visible(v, q) ==
    LET first == Min({v.offset, Len(q) - 1})
    IN IF v.mode # "review" \/ q = <<>> THEN {}
       ELSE {i \in DOMAIN q : i > first /\ i <= first + Page(v) /\ i <= first + v.height - 4}

ResetReview(v, q) ==
    [v EXCEPT !.cursor = 0, !.offset = 0, !.seen = Min({Len(q), Page(v)}), !.dryRun = FALSE]

\* Slip: what a jump leaves out counts as seen.
ClampAndSee(v, q) ==
    LET cursor == Min({Max({0, v.cursor}), Len(q) - 1})
        offset == Max({0, cursor - Page(v) + 1})
    IN IF q = <<>> THEN [v EXCEPT !.cursor = 0, !.offset = 0, !.seen = 0]
       ELSE [v EXCEPT !.cursor = cursor, !.offset = offset,
                      !.seen = Max({@, Min({Len(q), offset + Page(v)})})]

\* clampQueueReview
ClampReview(v, q) ==
    IF q = <<>> THEN [v EXCEPT !.cursor = 0, !.offset = 0, !.seen = 0]
    ELSE LET cursor == Min({Max({0, v.cursor}), Len(q) - 1})
             follow == IF cursor < v.offset THEN cursor
                       ELSE IF cursor >= v.offset + Page(v) THEN cursor - Page(v) + 1
                       ELSE v.offset
             offset == Min({Max({0, follow}), Max({0, Len(q) - Page(v)})})
             end == Min({Len(q), offset + Page(v)})
         IN [v EXCEPT !.cursor = cursor, !.offset = offset,
                      !.seen = IF offset <= @ THEN Max({@, end}) ELSE @]

Mode(m) == [view EXCEPT !.mode = m]

\* queueReclaimBytes of an entry that is no longer shown is what was inspected.
ExpectedBytes(p) == IF p \in DOMAIN tree.own THEN TotalOf(tree.own, p) ELSE 10

WithinPolicy(q) ==
    /\ Len(q) <= setup.maxQueue
    /\ setup.maxReclaim > 0 => Reclaim(q, [p \in setup.known |-> ExpectedBytes(p)]) <= setup.maxReclaim

\* Only these touch the review and the queue.
ReviewOnly == UNCHANGED <<setup, disk, data, store, job, pending>>

PressReview ==
    /\ view.mode = "none" /\ Spend("review")
    /\ view' = ResetReview(Mode("review"), queue)
    /\ UNCHANGED queue /\ ReviewOnly

\* Arrows, pages, home and end.
PressMove ==
    /\ view.mode = "review"
    /\ \E cursor \in {view.cursor + d : d \in {-1, 1, -Page(view), Page(view)}}
                     \cup {0, Max({0, Len(queue) - 1})} :
          view' = ClampReview([view EXCEPT !.cursor = cursor], queue)
    /\ UNCHANGED <<queue, left>> /\ ReviewOnly

\* x: the program panics where the cursor is behind the end.
PressRemove ==
    /\ view.mode = "review" /\ queue # <<>> /\ Spend("edit")
    /\ IF view.cursor < Len(queue)
       THEN /\ queue' = RemoveAt(queue, view.cursor + 1)
            /\ view' = ResetReview(view, queue')
       ELSE UNCHANGED queue /\ view' = Mode("panic")
    /\ ReviewOnly

\* [ and ]
PressReorder ==
    /\ view.mode = "review" /\ Spend("edit")
    /\ \E to \in {view.cursor - 1, view.cursor + 1} \cap 0..(Len(queue) - 1) :
          IF view.cursor < Len(queue)
          THEN /\ queue' = [queue EXCEPT ![view.cursor + 1] = queue[to + 1],
                                         ![to + 1] = queue[view.cursor + 1]]
               /\ view' = ResetReview(view, queue)
          ELSE UNCHANGED queue /\ view' = Mode("panic")
    /\ ReviewOnly

PressDiscard ==
    /\ view.mode = "review" /\ Spend("edit")
    /\ queue' = <<>> /\ view' = Mode("none")
    /\ ReviewOnly

\* Esc, and Enter on a result.
PressClose ==
    /\ view.mode \in {"input", "review", "export", "confirm", "result"}
    /\ view' = Mode(IF view.mode = "export" THEN "review" ELSE "none")
    /\ UNCHANGED <<queue, left>> /\ ReviewOnly

\* Enter: the queue is normalised again, which finds nothing to do, and has to
\* be seen to its end before it is confirmed.
PressEnter ==
    /\ view.mode = "review" /\ queue # <<>> /\ ~setup.readOnly /\ ~Conflicting(Collapsed(queue))
    /\ IF Len(Collapsed(queue)) # Len(queue)
       THEN queue' = Collapsed(queue) /\ view' = ResetReview(view, queue')
       ELSE /\ WithinPolicy(queue)
            /\ UNCHANGED queue
            /\ view' = IF view.seen < Len(queue)
                       THEN ClampReview([view EXCEPT !.cursor = Min({view.seen, Len(queue) - 1})], queue)
                       ELSE Mode("confirm")
    /\ UNCHANGED left /\ ReviewOnly

Resize ==
    /\ Spend("resize")
    /\ \E h \in setup.heights \ {view.height} :
          LET v == [view EXCEPT !.height = h]
          IN view' = IF v.mode = "review" THEN ClampReview(v, queue) ELSE v
    /\ UNCHANGED queue /\ ReviewOnly

-----------------------------------------------------------------------------
(* Staging. *)

\* startInput: F5, F6 and F7 ask for a destination first.
PressInput ==
    /\ view.mode = "none" /\ ~setup.readOnly /\ Spend("input")
    /\ view' = Mode("input")
    /\ UNCHANGED queue /\ ReviewOnly

\* stageCmd for what is selected on the screen; the root is refused.
PressStage ==
    /\ ~setup.readOnly /\ Spend("stage")
    /\ \E t \in setup.stagings :
          /\ view.mode = IF t.action = "delete" THEN "none" ELSE "input"
          /\ t.action # "mkdir" => ToSet(t.paths) \subseteq DOMAIN tree.own
          /\ t.action = "delete" => <<>> \notin ToSet(t.paths)
          /\ pending' = pending \cup {[kind |-> "stage", what |-> t, id |-> left.stage]}
    /\ UNCHANGED <<setup, disk, data, store, view, queue, job>>

\* The operations staged.
StagedBy(ask) ==
    [i \in DOMAIN ask.what.paths |->
        LET p == ask.what.paths[i] IN
        [id |-> <<ask.id, i>>, action |-> ask.what.action, source |-> p,
         dest |-> DestIn(ask.what, p),
         recursive |-> ask.what.action = "delete" /\ IsDirectory(p),
         linked |-> ~IsDirectory(p) /\ Cardinality(SameFile(disk, p)) > 1]]

\* stagedMsg: whatever the screen shows, it turns to the review.
Staged ==
    /\ \E ask \in pending :
          LET candidate == queue \o StagedBy(ask)
              normalized == Collapsed(candidate)
          IN
          /\ ask.kind = "stage"
          /\ pending' = pending \ {ask}
          /\ IF ask.what.action # "mkdir" /\ ~(ToSet(ask.what.paths) \subseteq disk)
             THEN UNCHANGED <<queue, view>>
             ELSE IF Conflicting(normalized) \/ ~WithinPolicy(normalized)
             THEN UNCHANGED queue /\ view' = Mode("review")
             ELSE queue' = normalized /\ view' = ResetReview(Mode("review"), normalized)
    /\ UNCHANGED <<setup, disk, data, store, job, left>>

-----------------------------------------------------------------------------
(* Dry runs, exports and shells. *)

PressDryRun ==
    /\ view.mode = "review" /\ queue # <<>> /\ Spend("dryRun")
    /\ view' = Mode("dryRun")
    /\ job' = [NoJob EXCEPT !.kind = "dryRun", !.plan = queue]
    /\ UNCHANGED <<setup, disk, data, store, queue, pending>>

\* Whether op can be done where the paths S exist.
Possible(S, op) ==
    /\ op.action # "mkdir" => op.source \in S
    /\ TargetOf(op) # NoPath => TargetOf(op) \notin S /\ Front(TargetOf(op)) \in S

\* dryRunMsg: every operation can be done after those before it, which are
\* looked at as a prediction.
DryRun ==
    /\ job.kind = "dryRun"
    /\ LET made(i) == {TargetOf(job.plan[j]) : j \in 1..(i - 1)} \ {NoPath}
           passes == \A i \in DOMAIN job.plan : Possible(disk \cup made(i), job.plan[i])
       IN view' = [Mode("review") EXCEPT
                     !.dryRun = ~job.canceled /\ passes /\ Len(job.plan) = Len(queue)]
    /\ job' = NoJob
    /\ UNCHANGED <<setup, disk, data, store, queue, pending, left>>

PressExport ==
    /\ view.mode = "review" /\ queue # <<>> /\ ~setup.readOnly /\ Spend("export")
    /\ view' = Mode("export")
    /\ UNCHANGED queue /\ ReviewOnly

\* Enter sends the plan to a file; the screen stays as it is.
PressSave ==
    /\ view.mode = "export"
    /\ \A ask \in pending : ask.kind # "export"
    /\ pending' = pending \cup {[kind |-> "export", what |-> "a plan", id |-> 0]}
    /\ UNCHANGED <<setup, disk, data, store, view, queue, job, left>>

\* exportedPlanMsg: the file is new, or nothing was written.
Exported ==
    /\ \E ask \in pending : ask.kind = "export" /\ pending' = pending \ {ask}
    /\ view' = Mode("review")
    /\ \/ setup.planPath \notin disk
          /\ disk' = disk \cup {setup.planPath}
          /\ StartScan(tree.own, tree.complete)
       \/ UNCHANGED <<disk, data>>
    /\ UNCHANGED <<setup, store, queue, job, left>>

\* An editor or a shell holds the session while it changes the disk.
PressShell ==
    /\ view.mode = "none" /\ ~setup.readOnly /\ Spend("shell")
    /\ \E p \in setup.loose :
          DiskBecomes(IF p \in disk THEN disk \ Subtree(disk, p) ELSE disk \cup {p})
    /\ pending' = pending \cup {[kind |-> "shell", what |-> "a shell", id |-> left.shell]}
    /\ UNCHANGED <<setup, tree, scan, store, view, queue, job>>

\* externalDoneMsg
ShellDone ==
    /\ \E ask \in pending : ask.kind = "shell" /\ pending' = pending \ {ask}
    /\ Refresh
    /\ UNCHANGED <<setup, store, view, queue, job, left>>

-----------------------------------------------------------------------------
(* Applying the queue. *)

\* APPLY: pauseScanForApply, then the plan is a copy of the queue.
PressApply ==
    /\ view.mode = "confirm" /\ Spend("apply")
    /\ IF scan.on THEN DropScan(TRUE) ELSE scan' = [scan EXCEPT !.restart = FALSE] /\ UNCHANGED scans
    /\ view' = Mode("applying")
    /\ job' = [NoJob EXCEPT !.kind = "apply", !.plan = queue]
    /\ UNCHANGED <<setup, disk, tree, store, queue, pending>>

\* Esc or ctrl+c while it runs.
PressCancel ==
    /\ view.mode \in {"applying", "dryRun"} /\ ~job.canceled /\ Spend("cancel")
    /\ job' = [job EXCEPT !.canceled = TRUE]
    /\ UNCHANGED <<setup, disk, data, store, view, queue, pending>>

Stopped == job.results # <<>> /\ Last(job.results).status # "ok"
NextOp == job.plan[Len(job.results) + 1]
Audited(S) == IF setup.auditPath = NoPath THEN S ELSE S \cup {setup.auditPath}

\* What an operation that succeeds leaves of the disk.
Done(op) ==
    CASE op.action = "delete" -> disk \ Subtree(disk, op.source)
      [] op.action = "mkdir" -> disk \cup {op.source}
      [] op.action = "copy" -> disk \cup {op.dest}
      [] OTHER -> (disk \ {op.source}) \cup {op.dest}

\* fsops.Apply, one operation: it succeeds, is refused or fails before it has
\* begun, is done but not audited, or stops in the middle of a deletion.
ApplyOne ==
    /\ job.kind = "apply" /\ ~job.canceled /\ ~Stopped
    /\ Len(job.results) < Len(job.plan)
    /\ \E status \in {"ok", "error", "completed", "partial"} :
          /\ job' = [job EXCEPT !.results = Append(@, [id |-> NextOp.id, status |-> status])]
          /\ CASE status = "ok" ->
                    Possible(disk, NextOp) /\ DiskBecomes(Audited(Done(NextOp))) /\ UNCHANGED left
               [] status = "error" /\ ~Possible(disk, NextOp) ->
                    DiskBecomes(Audited(disk)) /\ UNCHANGED left
               [] status = "error" /\ Possible(disk, NextOp) ->
                    DiskBecomes(Audited(disk)) /\ Spend("fault")
               [] status = "completed" ->
                    Possible(disk, NextOp) /\ DiskBecomes(Done(NextOp)) /\ Spend("fault")
               [] OTHER ->
                    /\ NextOp.action = "delete" /\ Possible(disk, NextOp) /\ Spend("fault")
                    /\ \E c \in ChildrenIn(disk, NextOp.source) :
                          DiskBecomes(Audited(disk \ Subtree(disk, c)))
    /\ UNCHANGED <<setup, tree, scan, store, view, queue, pending>>

\* Slip: a directory is exact although names elsewhere share its files.
FilesNeedReconciliation(own, op) ==
    \/ setup.follow
    \/ ~IsDirectory(op.source) /\ ~IsHardlink(own, op.source) /\ op.linked

\* deleteNeedsReconciliation
NeedsReconciliation(own, op) ==
    \/ setup.follow
    \/ ~IsDirectory(op.source) /\ ~IsHardlink(own, op.source) /\ op.linked
    \/ IsDirectory(op.source) /\ \E p \in DOMAIN own : ~IsDirectory(p) /\ IsHardlink(own, p)

\* removeDeletedNode: the entry leaves the tree, and its parent is measured
\* again; that may fail.
Patched(own, op) ==
    LET rest == Restrict(own, DOMAIN own \ Subtree(DOMAIN own, op.source))
        parent == Front(op.source)
    IN IF parent \in disk THEN [rest EXCEPT ![parent] = OwnBytes(disk, parent)] ELSE rest

OpOf(id) == CHOOSE op \in ToSet(queue) : op.id = id

\* What the result r makes of what is reconciled.
Reconcile(was, r) ==
    LET op == OpOf(r.id) IN
    IF r.status \notin {"ok", "completed"} THEN was
    ELSE IF op.action # "delete" \/ op.source \notin DOMAIN was.own
    THEN [was EXCEPT !.needsScan = TRUE]
    ELSE [own |-> Patched(was.own, op), changed |-> TRUE,
          needsScan |-> was.needsScan \/ NeedsReconciliation(was.own, op)
                                      \/ Front(op.source) \notin disk]

\* applyCompletedOperations
Reconciled ==
    LET start == [own |-> tree.own, changed |-> FALSE, needsScan |-> ~tree.complete]
        after[i \in 0..Len(job.results)] ==
            IF i = 0 THEN start ELSE Reconcile(after[i - 1], job.results[i])
    IN after[Len(job.results)]

AuditInside == setup.auditPath # NoPath

\* resultNeedsReconciliation of the last result, or the plan was not finished.
ApplyFailed == Stopped \/ Len(job.results) < Len(job.plan)

\* afterFilesystemMutation: a scan, or the exact delta as a generation of its
\* own.
AfterMutation(own, changed, needsScan) ==
    LET generation == scan.generation + 1 IN
    IF needsScan
    THEN UNCHANGED <<disk, store>> /\ StartScan(own, tree.complete)
    ELSE /\ tree' = [tree EXCEPT !.own = own]
         /\ UNCHANGED <<disk, scans, cache>>
         /\ IF changed /\ setup.store = "writable"
            THEN /\ scan' = [scan EXCEPT !.generation = generation, !.restart = FALSE]
                 /\ latest' = Max({latest, generation})
                 /\ saves' = saves \cup {[generation |-> generation, own |-> own,
                                          writing |-> FALSE]}
            ELSE scan' = [scan EXCEPT !.restart = FALSE] /\ UNCHANGED <<latest, saves>>

\* appliedMsg: what was completed leaves the queue.
Applied ==
    LET completed == {r.id : r \in {x \in ToSet(job.results) : x.status \in {"ok", "completed"}}}
    IN
    /\ job.kind = "apply"
    /\ job.canceled \/ Stopped \/ Len(job.results) = Len(job.plan)
    /\ job' = NoJob
    /\ queue' = IF ApplyFailed
                THEN AtPositions(queue, {i \in DOMAIN queue : queue[i].id \notin completed})
                ELSE <<>>
    /\ view' = Mode("result")
    /\ \E r \in {Reconciled} :
          AfterMutation(r.own, r.changed, r.needsScan \/ scan.restart \/ AuditInside \/ ApplyFailed)
    /\ UNCHANGED <<setup, pending, left>>

-----------------------------------------------------------------------------

\* An answer has come between a job and the screen that waits for it.  The
\* session is followed no further; the documentation says what it may do.
Late ==
    /\ job.kind # "none"
    /\ view.mode \notin {"applying", "dryRun"} \/ (scan.on /\ job.kind = "apply")

SessionInit ==
    /\ setup \in Setups
    /\ disk = setup.items
    /\ tree = IF setup.store = "none" \/ setup.cached = {}
              THEN [own |-> Measure({<<>>}), complete |-> FALSE]
              ELSE [own |-> Measure(setup.cached), complete |-> TRUE]
    /\ scan = [on |-> TRUE, retain |-> tree.complete, generation |-> 1, restart |-> FALSE]
    /\ scans = {[generation |-> 1, canceled |-> FALSE, always |-> disk, ever |-> disk]}
    /\ latest = 0 /\ saves = {}
    /\ cache = [generation |-> 0, own |-> Measure(setup.cached), failed |-> FALSE]
    /\ view = [mode |-> "none", height |-> Max(setup.heights), cursor |-> 0, offset |-> 0,
               seen |-> 0, dryRun |-> FALSE]
    /\ queue = <<>> /\ job = NoJob /\ pending = {}
    /\ history = [displayed |-> {}, unsettled |-> FALSE, relinked |-> FALSE]
    /\ left = setup.may

Pressed ==
    \/ PressRefresh \/ PressStop \/ PressReview \/ PressMove \/ PressRemove
    \/ PressReorder \/ PressDiscard \/ PressClose \/ PressEnter \/ Resize
    \/ PressInput \/ PressStage \/ PressDryRun \/ PressExport \/ PressSave
    \/ PressShell \/ PressApply \/ PressCancel

Answers ==
    \/ ScanShows \/ ScanAnswers \/ SaveBegins \/ SaveEnds \/ Staged \/ DryRun
    \/ Exported \/ ShellDone \/ ApplyOne \/ Applied

\* An operation takes one of several names of a file that had one when it was
\* staged.
LinkedSince ==
    /\ job.kind = "apply" /\ job'.kind = "apply" /\ job'.results # job.results
    /\ ~IsDirectory(NextOp.source) /\ ~NextOp.linked
    /\ Cardinality(SameFile(disk, NextOp.source)) > 1

\* displayed: the operations drawn in the review since the queue was edited
\* or staged to; unsettled: a scan was stopped or failed since the last one;
\* relinked: since then something staged was linked and applied all the same.
Remember ==
    LET over == scan.on /\ ~scan'.on /\ ~scan'.restart IN
    history' =
        [displayed |->
            (IF queue' = queue \/ job' # job THEN history.displayed ELSE {})
                \cup {queue'[i] : i \in Visible(view', queue')},
         unsettled |-> IF over THEN latest' = latest ELSE history.unsettled,
         relinked |-> (history.relinked \/ LinkedSince) /\ ~(over /\ latest' # latest)]

SessionNext == ~Late /\ view.mode # "panic" /\ (Pressed \/ Answers) /\ Remember

\* The user may leave it at that.
SessionRests == UNCHANGED sessionVars

SessionSpec == SessionInit /\ [][SessionNext \/ SessionRests]_sessionVars

-----------------------------------------------------------------------------

SessionTypeOK ==
    /\ setup \in Setups
    /\ disk \subseteq setup.known
    /\ DOMAIN tree.own \subseteq setup.known /\ tree.complete \in BOOLEAN
    /\ scan.on \in BOOLEAN /\ scan.retain \in BOOLEAN /\ scan.restart \in BOOLEAN
    /\ scan.generation \in Nat \ {0} /\ latest \in 0..scan.generation
    /\ \A s \in scans : s.generation \in 1..scan.generation
    /\ \A v \in saves : v.generation \in 1..latest
    /\ view.mode \in {"none", "input", "review", "export", "dryRun", "confirm",
                      "applying", "result", "panic"}
    /\ view.height \in setup.heights /\ view.cursor \in Nat /\ view.offset \in Nat
    /\ view.seen \in Nat /\ view.dryRun \in BOOLEAN
    /\ \A i \in DOMAIN queue : queue[i].source \in setup.known
    /\ job.kind \in {"none", "apply", "dryRun"}
    /\ \A k \in DOMAIN left : left[k] \in 0..setup.may[k]

\* What APPLY starts is the queue as it is; every operation of it has been
\* drawn in the review since the queue was last edited or staged to, however
\* the keys, the answers and the sizes of the terminal alternated; it has no
\* conflicts and respects the cap.  The terminal has five lines or more for
\* the review.
AppliedWasReviewed ==
    [][job.kind = "none" /\ job'.kind = "apply" =>
        /\ job'.plan = queue /\ queue # <<>>
        /\ (\A h \in setup.heights : h >= 5) => ToSet(queue) \subseteq history.displayed
        /\ ~Conflicting(queue) /\ Collapsed(queue) = queue
        /\ Len(queue) <= setup.maxQueue]_sessionVars

\* The session never waits for what nobody will answer: a screen that takes
\* no keys has its job, and "scanning" has a scan whose answer will be taken.
StaysResponsive ==
    ~Late =>
        /\ view.mode = "applying" <=> job.kind = "apply"
        /\ view.mode = "dryRun" <=> job.kind = "dryRun"
        /\ scan.on => \E s \in scans : s.generation = scan.generation /\ ~s.canceled
        /\ scan.restart => view.mode = "applying"

Settled == scan.on = FALSE /\ job.kind = "none" /\ pending = {} /\ saves = {}

\* Once nothing is under way a complete tree is the one a scan would measure
\* now, whatever was deleted, copied, edited or interrupted, and so is the
\* cache of the next session unless a save has failed.  Names given to a file
\* whose deletion had been staged are left out: see DeletesAreExact.
SettledViewIsTrue ==
    Settled /\ tree.complete /\ ~history.unsettled /\ ~history.relinked =>
        /\ tree.own = Measure(disk)
        /\ setup.store = "writable" /\ ~cache.failed => cache.own = tree.own

\* The saves of overlapping scans and of exact deletions leave in the store
\* the newest generation that was written, never an older one.
Promise == INSTANCE NewestWins WITH accepted <- latest, stored <- cache.generation
CacheNeverGoesBack == Promise!Spec

\* README.md:623-627: deletes update the tree, and where an exact delta is not
\* available because of hard links a scan reconciles it.
DeletesAreExact ==
    Settled /\ tree.complete /\ ~history.unsettled => tree.own = Measure(disk)

\* README.md:613: "`x` removes the selected operation".  The cursor of a
\* review that is not empty is on an operation.
SelectionExists == view.mode # "panic"

=============================================================================
