-------------------------------- MODULE Scan --------------------------------
(***************************************************************************)
(* The concurrent scanner (internal/scan): directories are walked by the   *)
(* goroutine that found them or, while a slot is free, by one of their     *)
(* own; every batch is recorded under the lock of the live tree; what is   *)
(* reachable under several names is claimed by whoever comes first, and    *)
(* its owner is settled after the walk.                                    *)
(*                                                                         *)
(* A step is what one lock, one read or one claim makes atomic.  The I/O   *)
(* semaphore and the pool of stat workers are never held across a step:    *)
(* a stat is part of the classification of its entry.  Sizes stand for     *)
(* both the apparent and the allocated ones; times, depths and the order   *)
(* of children are left out.                                               *)
(***************************************************************************)
EXTENDS Scope, FiniteSets, FiniteSetsExt, Functions

CONSTANTS
    Dirs, Files,   \* the identities of directories and of files
    Worlds         \* file systems, each with the policy and options of a scan:
                   \* slots (Concurrency - 1) and batch (directoryBatchSize),
                   \* and maxFaults, a bound on the calls that fail

NoDir == "no directory"
ALink == "a link"   \* what an alias is that is not followed

ASSUME ScanAssumption ==
    /\ IsFiniteSet(Dirs) /\ IsFiniteSet(Files) /\ Dirs \cap Files = {}
    /\ NoDir \notin Dirs /\ ALink \notin Dirs \cup Files
    /\ Worlds # {}
    /\ \A w \in Worlds :
        /\ w.root \in Dirs /\ w.follow \in BOOLEAN
        /\ w.slots \in Nat /\ w.batch \in Nat \ {0} /\ w.maxFaults \in Nat
        /\ \A x \in Dirs \cup Files : w.size[x] \in Nat
        \* home is the path without aliases: every directory has one of its own.
        /\ \A d \in Dirs :
            /\ w.home[d] \in Seq(Int)
            /\ \A x \in Dirs \ {d} : w.home[x] # w.home[d]
            /\ IsFiniteSet(DOMAIN w.entries[d]) /\ DOMAIN w.entries[d] \subseteq Int
            /\ \A n \in DOMAIN w.entries[d] :
                  LET e == w.entries[d][n] IN
                  /\ e.to \in Dirs \cup Files /\ e.alias \in BOOLEAN
                  /\ e.to \in Dirs /\ ~e.alias => w.home[e.to] = Append(w.home[d], n)

VARIABLES
    world,      \* what this scan meets; it does not change while it runs
    phase,      \* of ScanStream: start, walk, final, drain, returned, refused
    cancelled,  \* ctx.Err() # nil
    faults,     \* calls that failed
    frame,      \* one call of scanDir for each directory
    node,       \* the live tree's directories
    leaves,     \* the live tree's other entries
    claimed,    \* dirGroups: directories somebody scans or has scanned
    edges,      \* dirGroup.edges: the directory entries that reach them
    counted,    \* fileGroups: files whose bytes some entry owns
    tally,      \* the counters files, dirs and errors
    out, shown, \* the channel of snapshots, and the last one delivered
    settled     \* canonicalizeDirectoryOwners: pending, ok or failed

scanVars == <<world, phase, cancelled, faults, frame, node, leaves, claimed,
              edges, counted, tally, out, shown, settled>>

Root == world.root
Follow == world.follow

-----------------------------------------------------------------------------
(* What an entry is to the scan. *)

Target(d, n) == world.entries[d][n].to
IsAlias(d, n) == world.entries[d][n].alias

\* The path an entry has once its aliases are resolved.
Physical(d, n) ==
    IF IsAlias(d, n) /\ Target(d, n) \in Dirs THEN world.home[Target(d, n)]
    ELSE Append(world.home[d], n)

\* statEntry: an alias is followed, or it is a small file of its own.
ReachesDir(d, n) == Target(d, n) \in Dirs /\ (Follow \/ ~IsAlias(d, n))
Identity(d, n) == IF IsAlias(d, n) /\ ~Follow THEN ALink ELSE Target(d, n)
SizeOf(d, n) == IF IsAlias(d, n) /\ ~Follow THEN 1 ELSE world.size[Target(d, n)]
DeviceOf(d, n) == IF IsAlias(d, n) /\ ~Follow THEN world.device[d]
                  ELSE world.device[Target(d, n)]

\* classifyEntry: the complete boundary policy on what the entry reaches.
TargetAllowed(d, n, path) ==
    LET resolved == IsAlias(d, n) /\ Follow
        target == IF resolved THEN Physical(d, n) ELSE path
        fstype == IF resolved \/ DeviceOf(d, n) # world.device[d]
                  THEN FSOf(world.mounts, target) ELSE frame[d].fstype
    IN AllowsTarget(world.policy, target, Physical(d, n), DeviceOf(d, n),
                    world.device[d], fstype)

\* fileIdentity: whose bytes may be met more than once.
Deduplicated(d, n) ==
    IF Follow THEN TRUE ELSE ~IsAlias(d, n) /\ world.links[Target(d, n)] > 1

-----------------------------------------------------------------------------
(* The live tree. *)

NoNode == [live |-> FALSE, parent |-> NoDir, name |-> 0, self |-> 0,
           bytes |-> 0, files |-> 0, dirs |-> 0, err |-> FALSE]

\* The proper ancestors of d in the tree nd.
Above(nd, d) ==
    LET above[x \in Dirs] ==
          LET parent == nd[x].parent IN
          IF parent = NoDir THEN {} ELSE {parent} \cup above[parent]
    IN above[d]

Upwards(nd, d) == {d} \cup Above(nd, d)

\* Node.Path: the names from the root down to d.
PathIn(nd, d) ==
    LET path[x \in Dirs] ==
          IF nd[x].parent = NoDir THEN <<>>
          ELSE Append(path[nd[x].parent], nd[x].name)
    IN path[d]

LeafPath(nd, l) == Append(PathIn(nd, l.dir), l.name)

BytesOf(ls) == MapThenSumSet(LAMBDA l : l.bytes, ls)

\* propagateSelf, propagateFile and bumpDirCount: what is new below d
\* reaches d and every ancestor.
Propagate(nd, d, bytes, files, dirs) ==
    [x \in Dirs |->
        IF x \in Upwards(nd, d)
        THEN [nd[x] EXCEPT !.bytes = @ + bytes, !.files = @ + files,
                           !.dirs = @ + dirs]
        ELSE nd[x]]

Snapshot(nd, t, complete) ==
    [bytes |-> nd[Root].bytes, inTree |-> nd[Root].files, files |-> t.files,
     dirs |-> t.dirs, errors |-> t.errors, complete |-> complete]

\* record: a change of the tree under its lock, and a snapshot of the result
\* when the throttle is open and the channel is empty.
Record(nd, t) ==
    /\ node' = nd /\ tally' = t
    /\ \/ out' = out
       \/ world.stream /\ out = <<>> /\ out' = <<Snapshot(nd, t, FALSE)>>

MarkFailed(nd, d) == [nd EXCEPT ![d].err = TRUE]

-----------------------------------------------------------------------------
(* scanDir *)

NoFrame == [pc |-> "idle", path |-> <<>>, fstype |-> "unknown", unread |-> {},
            batch |-> {}, plans |-> {}, todo |-> {}, caller |-> NoDir,
            spawned |-> FALSE]

Goto(d, pc) == frame' = [frame EXCEPT ![d].pc = pc]

\* d is given up or finished: every early return of scanDir.
Abandon(d, t) ==
    /\ Goto(d, "done")
    /\ Record(MarkFailed(node, d), t)

Fault == faults < world.maxFaults /\ faults' = faults + 1
OneMoreError == [tally EXCEPT !.errors = @ + 1]

\* The root, once the policy has admitted it.
Start ==
    LET home == world.home[Root]
        fstype == FSOf(world.mounts, home)
    IN
    /\ phase = "start"
    /\ UNCHANGED <<world, cancelled, faults, leaves, edges, counted, tally,
                   out, shown, settled>>
    /\ \/ /\ cancelled \/ ~AllowsFilesystem(world.policy, fstype)
                      \/ ~AllowsPath(world.policy, <<>>, home)
          /\ phase' = "refused"
          /\ UNCHANGED <<frame, node, claimed>>
       \/ /\ ~cancelled
          /\ AllowsFilesystem(world.policy, fstype)
          /\ AllowsPath(world.policy, <<>>, home)
          /\ phase' = "walk"
          /\ frame' = [frame EXCEPT ![Root].pc = "begin", ![Root].fstype = fstype]
          /\ node' = [node EXCEPT ![Root].live = TRUE]
          /\ claimed' = {Root}

\* The directory's own size is known from its stat and published first.
BeginDir(d) ==
    LET self == world.size[d] IN
    /\ frame[d].pc = "begin"
    /\ Goto(d, "open")
    /\ Record(Propagate([node EXCEPT ![d].self = self], d, self, 0, 0),
              [tally EXCEPT !.dirs = @ + 1])
    /\ UNCHANGED <<world, phase, cancelled, faults, leaves, claimed, edges,
                   counted, shown, settled>>

\* Open, and compare what was opened with what was measured.
OpenDir(d) ==
    /\ frame[d].pc = "open"
    /\ UNCHANGED <<world, phase, cancelled, leaves, claimed, edges, counted,
                   shown, settled>>
    /\ \/ cancelled /\ Abandon(d, tally) /\ UNCHANGED faults
       \/ ~cancelled /\ Fault /\ Abandon(d, OneMoreError)
       \/ /\ ~cancelled
          /\ frame' = [frame EXCEPT ![d].pc = "read",
                                    ![d].unread = DOMAIN world.entries[d]]
          /\ UNCHANGED <<faults, node, tally, out>>

\* The next batch in the directory's own order, filtered by name and path.
ReadBatch(d) ==
    LET f == frame[d]
        size == Min({Cardinality(f.unread), world.batch})
    IN
    /\ f.pc = "read"
    /\ UNCHANGED <<world, phase, cancelled, leaves, claimed, edges, counted,
                   shown, settled>>
    /\ \/ cancelled /\ Abandon(d, tally) /\ UNCHANGED faults
       \/ ~cancelled /\ Fault /\ Abandon(d, OneMoreError)
       \/ /\ ~cancelled /\ f.unread = {}
          /\ Goto(d, "done")
          /\ Record(node, tally)
          /\ UNCHANGED faults
       \/ /\ ~cancelled
          /\ \E batch \in kSubset(size, f.unread) \ {{}} :
                frame' = [frame EXCEPT
                    ![d].pc = "classify", ![d].unread = @ \ batch, ![d].plans = {},
                    ![d].batch = {n \in batch :
                        AllowsEntry(world.policy, Append(f.path, n), Physical(d, n))}]
          /\ UNCHANGED <<faults, node, tally, out>>

Plan(d, n, kind, bytes, link) ==
    [name |-> n, kind |-> kind, bytes |-> bytes, link |-> link]

Planned(d, n, plans) ==
    frame' = [frame EXCEPT ![d].batch = @ \ {n}, ![d].plans = @ \cup plans]

\* A stat, an alias's target or its second look failed.
ClassifyFails(d, n) ==
    /\ Fault
    /\ Planned(d, n, {Plan(d, n, "error", 0, FALSE)})
    /\ tally' = OneMoreError
    /\ UNCHANGED <<claimed, counted>>

\* claimDirectory: the first to come scans it.
ClassifyDir(d, n) ==
    LET first == ~Follow \/ Target(d, n) \notin claimed IN
    /\ ReachesDir(d, n) /\ TargetAllowed(d, n, Append(frame[d].path, n))
    /\ Planned(d, n, {Plan(d, n, IF first THEN "dir" ELSE "seen", 0, FALSE)})
    /\ claimed' = IF Follow THEN claimed \cup {Target(d, n)} ELSE claimed
    /\ UNCHANGED <<faults, tally, counted>>

\* Slip: a file counts as met once it is recorded.
ClassifyFileLate(d, n) ==
    LET again == Deduplicated(d, n) /\ \E l \in leaves : l.id = Identity(d, n) IN
    /\ ~ReachesDir(d, n) /\ TargetAllowed(d, n, Append(frame[d].path, n))
    /\ AllowsFile(world.policy, SizeOf(d, n))
    /\ Planned(d, n, {Plan(d, n, "file", IF again THEN 0 ELSE SizeOf(d, n), again)})
    /\ counted' = IF Deduplicated(d, n) THEN counted \cup {Identity(d, n)} ELSE counted
    /\ tally' = [tally EXCEPT !.files = @ + 1]
    /\ UNCHANGED <<faults, claimed>>

\* deduplicatedFile: the first to come owns the bytes, for now.
ClassifyFile(d, n) ==
    LET again == Deduplicated(d, n) /\ Identity(d, n) \in counted IN
    /\ ~ReachesDir(d, n) /\ TargetAllowed(d, n, Append(frame[d].path, n))
    /\ AllowsFile(world.policy, SizeOf(d, n))
    /\ Planned(d, n, {Plan(d, n, "file", IF again THEN 0 ELSE SizeOf(d, n), again)})
    /\ counted' = IF Deduplicated(d, n) THEN counted \cup {Identity(d, n)} ELSE counted
    /\ tally' = [tally EXCEPT !.files = @ + 1]
    /\ UNCHANGED <<faults, claimed>>

ClassifyFiltered(d, n) ==
    /\ \/ ~TargetAllowed(d, n, Append(frame[d].path, n))
       \/ ~ReachesDir(d, n) /\ ~AllowsFile(world.policy, SizeOf(d, n))
    /\ Planned(d, n, {})
    /\ UNCHANGED <<faults, tally, claimed, counted>>

\* The directory's own order decides which entry is next.
Classify(d) ==
    /\ frame[d].pc = "classify" /\ ~cancelled
    /\ \E n \in frame[d].batch :
          \/ ClassifyFails(d, n)
          \/ ClassifyDir(d, n)
          \/ ClassifyFile(d, n)
          \/ ClassifyFiltered(d, n)
    /\ UNCHANGED <<world, phase, cancelled, node, leaves, edges, out, shown, settled>>

\* The batch enters the tree in one step; a cancellation keeps what is there.
RecordBatch(d) ==
    LET f == frame[d]
        files == {p \in f.plans : p.kind \in {"file", "error"}}
        entered == {p \in f.plans : p.kind = "dir"}
        new == {[dir |-> d, name |-> p.name, id |-> Identity(d, p.name),
                 bytes |-> p.bytes, link |-> p.link,
                 err |-> p.kind = "error"] : p \in files}
        grown == Propagate(node, d, BytesOf(new),
                    Cardinality({l \in new : ~l.err}), Cardinality(entered))
        placed == [x \in Dirs |->
            IF \E p \in entered : Target(d, p.name) = x
            THEN [NoNode EXCEPT !.live = TRUE, !.parent = d,
                    !.name = (CHOOSE p \in entered : Target(d, p.name) = x).name]
            ELSE grown[x]]
    IN
    /\ f.pc = "classify" /\ (f.batch = {} \/ cancelled)
    /\ leaves' = leaves \cup new
    /\ edges' = IF Follow
                THEN edges \cup {[from |-> d, name |-> p.name, to |-> Target(d, p.name)] :
                                    p \in f.plans \ files}
                ELSE edges
    /\ Record(IF cancelled THEN MarkFailed(placed, d) ELSE placed, tally)
    /\ frame' = [frame EXCEPT
                    ![d].pc = IF cancelled THEN "done" ELSE "children",
                    ![d].batch = {}, ![d].plans = {},
                    ![d].todo = IF cancelled THEN {} ELSE {p.name : p \in entered}]
    /\ UNCHANGED <<world, phase, cancelled, faults, claimed, counted, shown, settled>>

Running == {d \in Dirs : frame[d].spawned /\ frame[d].pc # "done"}

\* Slip: a child waits for a slot.
ScanChildOnSlot(d) ==
    /\ frame[d].pc = "children" /\ Cardinality(Running) < world.slots
    /\ \E n \in frame[d].todo :
          frame' = [frame EXCEPT
            ![d].todo = @ \ {n},
            ![Target(d, n)] = [NoFrame EXCEPT !.pc = "begin", !.caller = d,
                !.spawned = TRUE, !.path = Append(frame[d].path, n)]]
    /\ UNCHANGED <<world, phase, cancelled, faults, node, tally, out, leaves, claimed,
                   edges, counted, shown, settled>>

\* scanDirectoryChildren: a goroutine while a slot is free, a call otherwise.
ScanChild(d) ==
    /\ frame[d].pc = "children"
    /\ UNCHANGED <<world, phase, cancelled, faults, leaves, claimed, edges,
                   counted, shown, settled>>
    /\ \E n \in frame[d].todo :
          LET c == Target(d, n)
              free == Cardinality(Running) < world.slots
              rest == [frame EXCEPT ![d].todo = @ \ {n}]
          IN
          \/ /\ cancelled
             /\ frame' = rest
             /\ Record(MarkFailed(node, c), tally)
          \/ /\ ~cancelled
             /\ frame' = [rest EXCEPT
                    ![d].pc = IF free THEN "children" ELSE "call",
                    ![c] = [NoFrame EXCEPT !.pc = "begin", !.caller = d,
                              !.spawned = free,
                              !.path = Append(frame[d].path, n),
                              !.fstype = IF world.device[c] # world.device[d] \/ IsAlias(d, n)
                                         THEN FSOf(world.mounts, Physical(d, n))
                                         ELSE frame[d].fstype]]
             /\ UNCHANGED <<node, tally, out>>

\* The call has returned.
ChildReturns(d) ==
    /\ frame[d].pc = "call"
    /\ \A c \in Dirs : frame[c].caller = d /\ ~frame[c].spawned => frame[c].pc = "done"
    /\ Goto(d, "children")
    /\ UNCHANGED <<world, phase, cancelled, faults, node, leaves, claimed, edges,
                   counted, tally, out, shown, settled>>

\* wg.Wait, then the next batch.
AwaitChildren(d) ==
    /\ frame[d].pc = "children" /\ frame[d].todo = {}
    /\ \A c \in Dirs : frame[c].caller = d => frame[c].pc = "done"
    /\ IF cancelled THEN Abandon(d, tally)
       ELSE Goto(d, "read") /\ UNCHANGED <<node, tally, out>>
    /\ UNCHANGED <<world, phase, cancelled, faults, leaves, claimed, edges,
                   counted, shown, settled>>

ScanDir(d) ==
    \/ BeginDir(d) \/ OpenDir(d) \/ ReadBatch(d) \/ Classify(d)
    \/ RecordBatch(d) \/ ScanChild(d) \/ ChildReturns(d) \/ AwaitChildren(d)

-----------------------------------------------------------------------------
(* Settling who owns what is reachable under several names. *)

\* pushDirectoryEdges
EdgesOf(d, path) ==
    {[path |-> Append(path, e.name), name |-> e.name, parent |-> d, group |-> e.to] :
        e \in {x \in edges : x.from = d}}

\* MoveTo refuses the root and a move below oneself.
CanMove(nd, d, parent) == nd[d].parent # NoDir /\ d \notin Upwards(nd, parent)

\* The group is where the edge leads to, and what is in it comes next.
Assigned(was, c, tree) ==
    [was EXCEPT !.frontier = (@ \ {c}) \cup EdgesOf(c.group, c.path),
                !.assigned = @ \cup {c.group}, !.tree = tree]

Visited(was, c) ==
    IF c.group \in was.assigned THEN [was EXCEPT !.frontier = @ \ {c}]
    ELSE IF ~was.tree[c.group].live
    THEN [was EXCEPT !.frontier = @ \ {c}, !.assigned = @ \cup {c.group}]
    ELSE IF was.tree[c.group].parent = c.parent /\ was.tree[c.group].name = c.name
    THEN Assigned(was, c, was.tree)
    ELSE IF CanMove(was.tree, c.group, c.parent)
    THEN Assigned(was, c, [was.tree EXCEPT ![c.group].parent = c.parent,
                                           ![c.group].name = c.name])
    ELSE [was EXCEPT !.failed = TRUE]

NextOwner(was) ==
    IF was.failed \/ was.frontier = {} THEN was
    ELSE Visited(was, CHOOSE c \in was.frontier : \A o \in was.frontier :
                        o = c \/ PathLess(c.path, o.path))

\* Each edge is taken once, the smallest path first.
OwnersInTurn ==
    LET best[k \in 0..Cardinality(edges)] ==
          IF k = 0 THEN [frontier |-> EdgesOf(Root, <<>>), assigned |-> {Root},
                         tree |-> node, failed |-> FALSE]
          ELSE CHOOSE s \in {NextOwner(was) : was \in {best[k - 1]}} : TRUE
    IN best

\* canonicalizeDirectoryOwners: from the root.
Canonical ==
    LET end == OwnersInTurn[Cardinality(edges)]
    IN [tree |-> end.tree,
        failed |-> end.failed \/ \E d \in Dirs : node[d].live /\ d \notin end.assigned]

Below(nd, d) == {x \in Dirs : nd[x].live /\ d \in Upwards(nd, x)}

\* normalizeFileOwners: the smallest path of a file owns its bytes.
Shared(l) ==
    IF l.err THEN {} ELSE {o \in leaves : ~o.err /\ o.id = l.id /\ Deduplicated(o.dir, o.name)}
Owner(nd, l) == CHOOSE o \in Shared(l) : \A x \in Shared(l) :
                    x = o \/ PathLess(LeafPath(nd, o), LeafPath(nd, x))
\* Slip: whoever came first keeps the bytes.
FirstCome(nd) == leaves
Normalized(nd) ==
    {IF Cardinality(Shared(l)) < 2 \/ l \notin Shared(l) THEN l
     ELSE [l EXCEPT !.link = Owner(nd, l) # l,
                    !.bytes = IF Owner(nd, l) = l THEN BytesOf(Shared(l)) ELSE 0] :
        l \in leaves}
Moved(nd, ls) ==
    [d \in Dirs |-> LET here == {x.dir : x \in ls} \cap Below(nd, d) IN
        [nd[d] EXCEPT !.bytes = @ + BytesOf({l \in ls : l.dir \in here})
                                  - BytesOf({l \in leaves : l.dir \in here})]]

\* recomputeDirectory: the aggregates of what is below each directory now.
Measured(nd, ls, d) ==
    LET below == Below(nd, d)
        own == {l \in ls : l.dir \in below}
    IN [bytes |-> BytesOf(own) + MapThenSumSet(LAMBDA x : nd[x].self, below),
        files |-> Cardinality({l \in own : ~l.err}),
        dirs |-> Cardinality(below) - 1]
Recomputed(nd, ls) ==
    [d \in Dirs |->
        IF ~nd[d].live THEN nd[d]
        ELSE LET m == Measured(nd, ls, d) IN
             [nd[d] EXCEPT !.bytes = m.bytes, !.files = m.files, !.dirs = m.dirs]]

\* One change of the tree: owners of directories, owners of files, totals.
Settle ==
    /\ phase = "walk" /\ frame[Root].pc = "done"
    /\ phase' = "final"
    /\ \E canon \in {IF Follow THEN Canonical ELSE [tree |-> node, failed |-> FALSE]} :
       \E tree \in {IF canon.failed THEN MarkFailed(canon.tree, Root) ELSE canon.tree} :
          /\ leaves' = Normalized(tree)
          /\ settled' = IF canon.failed THEN "failed" ELSE "ok"
          /\ Record(IF Follow THEN Recomputed(tree, leaves') ELSE Moved(tree, leaves'),
                    IF canon.failed THEN OneMoreError ELSE tally)
    /\ UNCHANGED <<world, cancelled, faults, frame, claimed, edges, counted, shown>>

\* emitFinal, dropped when the channel is full, and the channel is closed.
EmitFinal ==
    /\ phase = "final"
    /\ phase' = "drain"
    /\ out' = IF world.stream /\ out = <<>>
              THEN <<Snapshot(node, tally, ~cancelled /\ tally.errors = 0)>> ELSE out
    /\ UNCHANGED <<world, cancelled, faults, frame, node, leaves, claimed, edges,
                   counted, tally, shown, settled>>

\* pump: the consumer is called for one snapshot after the other.
Deliver ==
    /\ out # <<>>
    /\ shown' = out /\ out' = <<>>
    /\ UNCHANGED <<world, phase, cancelled, faults, frame, node, leaves, claimed,
                   edges, counted, tally, settled>>

\* Slip: what is still in the channel is not waited for.
ReturnAtOnce ==
    /\ phase = "drain"
    /\ phase' = "returned"
    /\ UNCHANGED <<world, cancelled, faults, frame, node, leaves, claimed, edges,
                   counted, tally, out, shown, settled>>

\* The pump has ended; what is returned is the tree with its counters.
Return ==
    /\ phase = "drain" /\ out = <<>>
    /\ phase' = "returned"
    /\ UNCHANGED <<world, cancelled, faults, frame, node, leaves, claimed, edges,
                   counted, tally, out, shown, settled>>

\* The caller cancels the context.
CancelScan ==
    /\ world.mayCancel /\ ~cancelled /\ phase \notin {"returned", "refused"}
    /\ cancelled' = TRUE
    /\ UNCHANGED <<world, phase, faults, frame, node, leaves, claimed, edges,
                   counted, tally, out, shown, settled>>

ScanInit ==
    /\ world \in Worlds
    /\ phase = "start" /\ cancelled = FALSE /\ faults = 0
    /\ frame = [d \in Dirs |-> NoFrame] /\ node = [d \in Dirs |-> NoNode]
    /\ leaves = {} /\ claimed = {} /\ edges = {} /\ counted = {}
    /\ tally = [files |-> 0, dirs |-> 0, errors |-> 0]
    /\ out = <<>> /\ shown = <<>> /\ settled = "pending"

ScanStep ==
    \/ Start \/ (\E d \in Dirs : ScanDir(d)) \/ Settle \/ EmitFinal \/ Return

ScanNext == ScanStep \/ Deliver \/ CancelScan

ScanOver == phase \in {"returned", "refused"} /\ UNCHANGED scanVars

ScanSpec ==
    /\ ScanInit /\ [][ScanNext \/ ScanOver]_scanVars
    /\ WF_scanVars(ScanStep) /\ WF_scanVars(Deliver)

-----------------------------------------------------------------------------

ScanTypeOK ==
    /\ world \in Worlds
    /\ phase \in {"start", "walk", "final", "drain", "returned", "refused"}
    /\ cancelled \in BOOLEAN /\ faults \in 0..world.maxFaults
    /\ \A d \in Dirs :
        /\ frame[d].pc \in {"idle", "begin", "open", "read", "classify",
                            "children", "call", "done"}
        /\ frame[d].caller \in Dirs \cup {NoDir}
        /\ node[d].parent \in Dirs \cup {NoDir}
        /\ node[d].bytes \in Nat /\ node[d].files \in Nat /\ node[d].dirs \in Nat
    /\ claimed \subseteq Dirs
    /\ Len(out) <= 1 /\ Len(shown) <= 1
    /\ settled \in {"pending", "ok", "failed"}

Complete == phase = "returned" /\ ~cancelled /\ tally.errors = 0

\* What the policy admits of d at the place d has in the tree at the end.
Admitted(d) ==
    {n \in DOMAIN world.entries[d] :
        LET path == Append(PathIn(node, d), n) IN
        /\ AllowsEntry(world.policy, path, Physical(d, n))
        /\ TargetAllowed(d, n, path)
        /\ ReachesDir(d, n) \/ AllowsFile(world.policy, SizeOf(d, n))}
Entered(d) == {n \in Admitted(d) : ReachesDir(d, n)}

Live == {d \in Dirs : node[d].live}

\* Every directory is in the tree once, at the smallest path that leads to it
\* through the places of the others, and nothing else is.
DirectoriesAreRight ==
    /\ Root \in Live
    /\ \A p \in Live : \A n \in Entered(p) :
          LET d == Target(p, n) IN
          /\ d \in Live
          /\ d # Root => ~PathLess(Append(PathIn(node, p), n), PathIn(node, d))
    /\ \A d \in Live \ {Root} :
          /\ node[d].parent \in Live
          /\ node[d].name \in Entered(node[d].parent)
          /\ Target(node[d].parent, node[d].name) = d

\* Every other entry is there once, and the smallest path of a file met
\* under several owns its bytes.
FilesAreRight ==
    /\ {<<l.dir, l.name>> : l \in leaves}
         = UNION {{<<d, n>> : n \in Admitted(d) \ Entered(d)} : d \in Live}
    /\ \A l \in leaves :
          LET met == {o \in leaves : o.id = l.id /\ Deduplicated(o.dir, o.name)}
              smallest == \A o \in met :
                    ~PathLess(LeafPath(node, o), LeafPath(node, l))
          IN /\ l.bytes = IF l \in met /\ ~smallest THEN 0 ELSE SizeOf(l.dir, l.name)
             /\ l.link = (l \in met /\ ~smallest)

TotalsAreRight(ls) ==
    \A d \in Live :
        [bytes |-> node[d].bytes, files |-> node[d].files, dirs |-> node[d].dirs]
            = Measured(node, ls, d)

\* However far a scan came, and whatever failed in it: settling the owners does
\* not fail, no entry that was seen leads to a directory on a smaller path than
\* its own, and of a file with several names the smallest path has the bytes.
OwnersAreFirst ==
    /\ settled # "failed"
    /\ settled = "ok" =>
        /\ \A e \in edges :
              /\ e.to \in Live
              /\ e.to # Root => ~PathLess(Append(PathIn(node, e.from), e.name),
                                         PathIn(node, e.to))
        /\ \A l, o \in leaves :
              l.bytes > 0 /\ o # l /\ ~o.err /\ o.id = l.id /\ Deduplicated(l.dir, l.name)
                 => PathLess(LeafPath(node, l), LeafPath(node, o))

\* Whatever the scheduling of the goroutines and the order in which the
\* system lists a directory, a complete scan returns the one right tree with
\* its totals and counters, and the settling of owners never fails.
FinalTree ==
    /\ OwnersAreFirst
    /\ Complete =>
        /\ DirectoriesAreRight /\ FilesAreRight /\ TotalsAreRight(leaves)
        /\ tally.files = Cardinality(leaves) /\ tally.dirs = Cardinality(Live)

\* While the walk is under way every total is the sum of what is recorded
\* below it, the bytes of a file are in it at most once, and a snapshot is a
\* moment of that tree.
LiveTotals ==
    /\ TotalsAreRight(leaves)
    /\ \A l, o \in leaves :
          l.bytes > 0 /\ o.bytes > 0 /\ l.id = o.id /\ Deduplicated(l.dir, l.name)
             => l = o
    /\ \A s \in ToSet(out) \cup ToSet(shown) :
          s.inTree <= s.files /\ s.bytes <= node[Root].bytes

\* Snapshots arrive in the order in which they were made, and none after
\* ScanStream has returned.
SnapshotsInOrder ==
    [][shown' # shown =>
        /\ phase # "returned"
        /\ shown # <<>> => \A k \in {"bytes", "inTree", "files", "dirs", "errors"} :
                               shown[1][k] <= shown'[1][k]]_scanVars

\* A scan returns, cancelled or not, whoever finds no slot free.
ScanEnds == <>(phase \in {"returned", "refused"})

=============================================================================
