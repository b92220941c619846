--------------------------- MODULE GuardedReplace ---------------------------
(***************************************************************************)
(* One operation of internal/fsops that writes a destination: copy, move,  *)
(* rename, archive or extract, from the checks of execute to the result    *)
(* status that applyPlan derives from its error.  withDestinationGuarded   *)
(* moves an existing destination aside, builds the replacement, and either *)
(* drops or restores what it moved.  Every system call is a step that may  *)
(* fail, and between any two steps another process may change the          *)
(* destination or the source.  The private names that MkdirTemp and        *)
(* CreateTemp reserve are touched by nobody else.                          *)
(*                                                                         *)
(* A build is one of                                                       *)
(*   copyFile   copyRegular, straight into the destination                 *)
(*   archive    archivePathNew, straight into the destination              *)
(*   copyDir    copyDirectoryStaged                                        *)
(*   moveSame   movePathNew, the rename succeeds                           *)
(*   moveCross  movePathNew, the rename reports another device             *)
(*   extract    extractArchiveNew                                          *)
(***************************************************************************)
EXTENDS Naturals

CONSTANTS
    Builds,      \* the builds this instance explores
    MaxForeign   \* bound: steps another process takes during the operation

AllBuilds == {"copyFile", "archive", "copyDir", "moveSame", "moveCross", "extract"}

ASSUME BuildsAssumption == Builds \subseteq AllBuilds
ASSUME ForeignAssumption == MaxForeign \in Nat

VARIABLES
    op,          \* the operation: its build, conflict policy and guard
    pc,          \* the next step of the operation
    fs,          \* the object each path names
    err,         \* {} is a nil error; otherwise "failed" and its wrappers
    backed,      \* withDestinationGuarded moved a destination aside
    snap,        \* the source object captureSourceSnapshot saw
    foreignLeft, \* steps the other process may still take
    (*********************************************************************)
    (* History, read by the properties alone.                            *)
    (*********************************************************************)
    destroyed,   \* objects the operation itself unlinked or replaced
    placed,      \* the replacement was completed at the destination
    events       \* unusual events: cleanupFailed, closeFailed, displaced

vars == <<op, pc, fs, err, backed, snap, foreignLeft, destroyed, placed, events>>
history == <<destroyed, placed, events>>

Paths == {"src", "dst", "backup", "stage"}
Ours == {"incomplete", "complete"}
\* An empty directory is told apart: rename(2) itself replaces one.
Foreign == {"foreign", "foreignEmptyDir", "edited", "editedAgain"}
Objects == {"none", "source", "reviewed", "placeholder"} \union Ours \union Foreign

Direct == {"copyFile", "archive"}
Staged == {"copyDir", "moveCross", "extract"}
Moves == {"moveSame", "moveCross"}
ErrorTags == {"failed", "partial", "published", "owned"}

Checks == {"precheck", "recheck", "guard", "lstat", "reserve", "reguard", "displace"}
Steps == Checks \union {"unreserve", "identify", "giveBack", "build", "stage", "fill",
            "undo", "verify", "publish", "rename", "finalize", "close", "inspectSource",
            "unlinkSource", "unstage", "settle", "restore", "done"}

Operations == [build : Builds, policy : {"fail", "overwrite"},
               guard : {"none", "absent", "reviewed"}]

\* The guard was captured when the plan was made, from what dst was then.
Init ==
    /\ op \in Operations
    /\ \E d \in {"none", "reviewed"} :
        /\ op.guard = "absent" => d = "none"
        /\ op.guard = "reviewed" => d = "reviewed"
        /\ fs = [p \in Paths |-> IF p = "src" THEN "source"
                                 ELSE IF p = "dst" THEN d ELSE "none"]
    /\ pc = "precheck"
    /\ err = {}
    /\ backed = FALSE
    /\ snap = "none"
    /\ foreignLeft = MaxForeign
    /\ destroyed = {} /\ placed = FALSE /\ events = {}

-----------------------------------------------------------------------------
(***************************************************************************)
(* Checks before anything is touched                                       *)
(***************************************************************************)

\* checkDestinationExpectation
GuardHolds ==
    /\ op.guard = "absent" => fs["dst"] = "none"
    /\ op.guard = "reviewed" => fs["dst"] = "reviewed"

Goto(step) == pc' = step
Unbuilt == UNCHANGED <<op, backed, snap, foreignLeft>>

\* Every check may also fail on its own: an I/O error or a cancellation.
Refuse ==
    /\ pc \in Checks
    /\ err' = {"failed"}
    /\ Goto("done")
    /\ UNCHANGED fs /\ Unbuilt /\ UNCHANGED history

\* execute: guards, then preflight with destinationReady.
Precheck ==
    /\ pc = "precheck"
    /\ GuardHolds
    /\ fs["src"] = "source"
    /\ op.policy = "fail" => fs["dst"] = "none"
    /\ Goto("recheck")
    /\ UNCHANGED <<fs, err>> /\ Unbuilt /\ UNCHANGED history

\* execute: the same guards again after preflight.
Recheck ==
    /\ pc = "recheck"
    /\ GuardHolds
    /\ fs["src"] = "source"
    /\ Goto("guard")
    /\ UNCHANGED <<fs, err>> /\ Unbuilt /\ UNCHANGED history

CheckGuard ==
    /\ pc = "guard"
    /\ GuardHolds
    /\ Goto("lstat")
    /\ UNCHANGED <<fs, err>> /\ Unbuilt /\ UNCHANGED history

\* An absent destination is built in place; an existing one needs overwrite.
LstatDestination ==
    /\ pc = "lstat"
    /\ \/ fs["dst"] = "none" /\ Goto("build")
       \/ fs["dst"] # "none" /\ op.policy = "overwrite" /\ Goto("reserve")
    /\ UNCHANGED <<fs, err>> /\ Unbuilt /\ UNCHANGED history

-----------------------------------------------------------------------------
(***************************************************************************)
(* Moving the reviewed destination aside                                   *)
(***************************************************************************)

ReserveBackup ==
    /\ pc = "reserve"
    /\ fs' = [fs EXCEPT !["backup"] = "placeholder"]
    /\ Goto("unreserve")
    /\ UNCHANGED err /\ Unbuilt /\ UNCHANGED history

\* A failed Close or remove gives up, with or without the placeholder.
UnreserveBackup ==
    /\ pc = "unreserve"
    /\ \/ /\ fs' = [fs EXCEPT !["backup"] = "none"]
          /\ Goto("reguard")
          /\ UNCHANGED err
       \/ /\ fs' \in {fs, [fs EXCEPT !["backup"] = "none"]}
          /\ Goto("done")
          /\ err' = {"failed"}
    /\ Unbuilt /\ UNCHANGED history

CheckGuardAgain ==
    /\ pc = "reguard"
    /\ GuardHolds
    /\ Goto("displace")
    /\ UNCHANGED <<fs, err>> /\ Unbuilt /\ UNCHANGED history

MoveAside(from, to) == [fs EXCEPT ![to] = fs[from], ![from] = "none"]

DisplaceDestination ==
    /\ pc = "displace"
    /\ fs["dst"] # "none"
    /\ fs' = MoveAside("dst", "backup")
    /\ backed' = TRUE
    /\ Goto("identify")
    /\ UNCHANGED <<op, err, snap, foreignLeft>> /\ UNCHANGED history

\* What was moved aside must be the object the guard describes.
IdentifyBackup ==
    /\ pc = "identify"
    /\ \/ /\ op.guard = "reviewed" => fs["backup"] = "reviewed"
          /\ Goto("build")
       \/ /\ op.guard = "reviewed"
          /\ Goto("giveBack")
    /\ UNCHANGED <<fs, err>> /\ Unbuilt /\ UNCHANGED history

\* publish refuses to replace; its failure strands the object at backup.
GiveBack ==
    /\ pc = "giveBack"
    /\ \/ /\ fs["dst"] = "none"
          /\ fs' = MoveAside("backup", "dst")
          /\ err' = {"failed"}
       \/ /\ UNCHANGED fs
          /\ err' = {"failed", "partial"}
    /\ Goto("done")
    /\ Unbuilt /\ UNCHANGED history

-----------------------------------------------------------------------------
(***************************************************************************)
(* The build                                                               *)
(***************************************************************************)

\* Wrapping an error keeps the wrappers it already has.
Fails(tags) == err' = err \union {"failed"} \union tags

\* A build step before anything of the build's own exists.
BuildRefused ==
    /\ pc \in {"build", "stage"}
    /\ Fails({})
    /\ Goto("settle")
    /\ UNCHANGED fs /\ Unbuilt /\ UNCHANGED history

\* rename within one filesystem: no replacing, nothing staged.
PublishSource ==
    /\ pc = "build" /\ op.build = "moveSame"
    /\ fs["src"] # "none" /\ fs["dst"] = "none"
    /\ fs' = MoveAside("src", "dst")
    /\ placed' = TRUE
    /\ Goto("settle")
    /\ UNCHANGED <<err, destroyed, events>> /\ Unbuilt

\* O_CREATE|O_EXCL on the destination itself.
CreateDirect ==
    /\ pc = "build" /\ op.build \in Direct
    /\ fs["src"] # "none" /\ fs["dst"] = "none"
    /\ fs' = [fs EXCEPT !["dst"] = "incomplete"]
    /\ Goto("fill")
    /\ UNCHANGED err /\ Unbuilt /\ UNCHANGED history

\* The data goes to the open file, whatever its name denotes by now.
FillDirect ==
    /\ pc = "fill" /\ op.build \in Direct
    /\ \/ /\ fs' = [fs EXCEPT !["dst"] = IF @ = "incomplete" THEN "complete" ELSE @]
          /\ placed' = TRUE
          /\ UNCHANGED err
          /\ Goto("settle")
       \/ /\ Fails({})
          /\ Goto("undo")
          /\ UNCHANGED <<fs, placed>>
    /\ Unbuilt /\ UNCHANGED <<destroyed, events>>

\* Both remove the destination by name. Only copyRegular reports a failure.
UndoDirect ==
    /\ pc = "undo"
    /\ \/ /\ fs' = [fs EXCEPT !["dst"] = "none"]
          /\ destroyed' = destroyed \union ({fs["dst"]} \ {"none"})
          /\ UNCHANGED <<err, events>>
       \/ /\ fs["dst"] # "none"
          /\ events' = events \union {"cleanupFailed"}
          /\ IF op.build = "copyFile" THEN Fails({"owned", "partial"}) ELSE UNCHANGED err
          /\ UNCHANGED <<fs, destroyed>>
    /\ Goto("settle")
    /\ Unbuilt /\ UNCHANGED placed

\* captureSourceSnapshot; an extraction relies on the validated layout instead.
CaptureSource ==
    /\ pc = "build" /\ op.build \in Staged
    /\ fs["src"] # "none"
    /\ snap' = fs["src"]
    /\ Goto("stage")
    /\ UNCHANGED <<op, fs, err, backed, foreignLeft>> /\ UNCHANGED history

MakeStage ==
    /\ pc = "stage"
    /\ fs' = [fs EXCEPT !["stage"] = "incomplete"]
    /\ Goto("fill")
    /\ UNCHANGED err /\ Unbuilt /\ UNCHANGED history

\* A nested copyRegular that cannot remove its own file reports "owned" too,
\* and the wrapping keeps it.
FillStage ==
    /\ pc = "fill" /\ op.build \in Staged
    /\ \/ /\ fs' = [fs EXCEPT !["stage"] = "complete"]
          /\ Goto("verify")
          /\ UNCHANGED <<err, events>>
       \/ /\ Fails({})
          /\ Goto("unstage")
          /\ UNCHANGED <<fs, events>>
       \/ /\ op.build # "extract"
          /\ Fails({"owned", "partial"})
          /\ events' = events \union {"cleanupFailed"}
          /\ Goto("unstage")
          /\ UNCHANGED fs
    /\ Unbuilt /\ UNCHANGED <<destroyed, placed>>

\* verifySourceSnapshot and the last look at the context.
VerifyStage ==
    /\ pc = "verify"
    /\ \/ /\ op.build = "extract" \/ fs["src"] = snap
          /\ Goto("publish")
          /\ UNCHANGED err
       \/ /\ Fails({})
          /\ Goto("unstage")
    /\ UNCHANGED fs /\ Unbuilt /\ UNCHANGED history

\* os.Rename looks for a directory first and refuses to replace one.
CheckRename ==
    /\ pc = "publish" /\ op.build = "extract"
    /\ \/ /\ fs["dst"] # "foreignEmptyDir"
          /\ Goto("rename")
          /\ UNCHANGED err
       \/ /\ Fails({})
          /\ Goto("unstage")
    /\ UNCHANGED fs /\ Unbuilt /\ UNCHANGED history

\* Slip: publishing with a replacing rename.
PublishableByRename == TRUE

\* renameNoReplace replaces nothing; rename(2) replaces an empty directory.
Publishable ==
    \/ fs["dst"] = "none"
    \/ op.build = "extract" /\ fs["dst"] = "foreignEmptyDir"

AfterPublish ==
    CASE op.build = "copyDir" -> "finalize"
      [] op.build = "moveCross" -> "inspectSource"
      [] OTHER -> "settle"

PublishStage ==
    /\ pc = IF op.build = "extract" THEN "rename" ELSE "publish"
    /\ \/ /\ Publishable
          /\ fs' = MoveAside("stage", "dst")
          /\ destroyed' = destroyed \union ({fs["dst"]} \ {"none"})
          /\ placed' = TRUE
          /\ Goto(AfterPublish)
          /\ UNCHANGED err
       \/ /\ Fails({})
          /\ Goto("unstage")
          /\ UNCHANGED <<fs, destroyed, placed>>
    /\ Unbuilt /\ UNCHANGED events

\* The final mode and the parent's sync come after publication.
FinalizeCopy ==
    /\ pc = "finalize"
    /\ \/ UNCHANGED err
       \/ Fails({"published", "partial"})
    /\ Goto("close")
    /\ UNCHANGED fs /\ Unbuilt /\ UNCHANGED history

\* The deferred close of the staging handle joins a plain error.
CloseStage ==
    /\ pc = "close"
    /\ \/ UNCHANGED <<err, events>>
       \/ Fails({}) /\ events' = events \union {"closeFailed"}
    /\ Goto("settle")
    /\ UNCHANGED fs /\ Unbuilt /\ UNCHANGED <<destroyed, placed>>

\* cleanupSourceSnapshot: the captured object, or nothing.
InspectSource ==
    /\ pc = "inspectSource"
    /\ \/ fs["src"] = snap /\ Goto("unlinkSource") /\ UNCHANGED err
       \/ Goto("settle") /\ Fails({"published", "partial"})
    /\ UNCHANGED fs /\ Unbuilt /\ UNCHANGED history

UnlinkSource ==
    /\ pc = "unlinkSource"
    /\ \/ /\ fs["src"] # "none"
          /\ fs' = [fs EXCEPT !["src"] = "none"]
          /\ destroyed' = destroyed \union {fs["src"]}
          /\ UNCHANGED err
       \/ /\ Fails({"published", "partial"})
          /\ UNCHANGED <<fs, destroyed>>
    /\ Goto("settle")
    /\ Unbuilt /\ UNCHANGED <<placed, events>>

\* Only a directory copy reports that its stage could not be removed.
Unstage ==
    /\ pc = "unstage"
    /\ \/ /\ fs' = [fs EXCEPT !["stage"] = "none"]
          /\ UNCHANGED <<err, events>>
       \/ /\ events' = events \union {"cleanupFailed"}
          /\ IF op.build = "copyDir" THEN Fails({"partial"}) ELSE UNCHANGED err
          /\ UNCHANGED fs
    /\ Goto("settle")
    /\ Unbuilt /\ UNCHANGED <<destroyed, placed>>

-----------------------------------------------------------------------------
(***************************************************************************)
(* What withDestinationGuarded does with the outcome of the build          *)
(***************************************************************************)

\* Nothing was moved aside: the build's error is the operation's.
SettleInPlace ==
    /\ pc = "settle" /\ ~backed
    /\ Goto("done")
    /\ UNCHANGED <<fs, err>> /\ Unbuilt /\ UNCHANGED history

\* Slip: any partial failure is taken for a published replacement.
BuildStandsIfPartial == err = {} \/ "partial" \in err

\* The replacement is in place, its build finished or failed afterwards.
BuildStands == err = {} \/ "published" \in err

\* Slip: a backup that cannot be removed is not reported.
DropBackupQuietly ==
    /\ pc = "settle" /\ backed /\ BuildStands
    /\ \/ /\ fs' = [fs EXCEPT !["backup"] = "none"]
          /\ destroyed' = destroyed \union {fs["backup"]}
       \/ UNCHANGED <<fs, destroyed>>
    /\ Goto("done")
    /\ UNCHANGED err /\ Unbuilt /\ UNCHANGED <<placed, events>>

DropBackup ==
    /\ pc = "settle" /\ backed /\ BuildStands
    /\ \/ /\ fs' = [fs EXCEPT !["backup"] = "none"]
          /\ destroyed' = destroyed \union {fs["backup"]}
          /\ UNCHANGED err
       \/ /\ Fails({"partial"})
          /\ UNCHANGED <<fs, destroyed>>
    /\ Goto("done")
    /\ Unbuilt /\ UNCHANGED <<placed, events>>

\* removeAll(dst) when the build says that what is there is its own.
ClearOwned ==
    /\ pc = "settle" /\ backed /\ ~BuildStands /\ "owned" \in err
    /\ \/ /\ fs' = [fs EXCEPT !["dst"] = "none"]
          /\ destroyed' = destroyed \union ({fs["dst"]} \ {"none"})
          /\ Goto("restore")
          /\ UNCHANGED err
       \/ /\ fs["dst"] # "none"
          /\ Fails({"partial"})
          /\ Goto("done")
          /\ UNCHANGED <<fs, destroyed>>
    /\ Unbuilt /\ UNCHANGED <<placed, events>>

\* Otherwise an occupied destination is somebody else's and stays.
ProbeDestination ==
    /\ pc = "settle" /\ backed /\ ~BuildStands /\ "owned" \notin err
    /\ \/ fs["dst"] = "none" /\ Goto("restore") /\ UNCHANGED err
       \/ Goto("done") /\ Fails({"partial"})
    /\ UNCHANGED fs /\ Unbuilt /\ UNCHANGED history

\* Slip: a failed restore is reported like the build's own failure.
RestoreBackupQuietly ==
    /\ pc = "restore"
    /\ fs' \in {fs, MoveAside("backup", "dst")}
    /\ fs["dst"] # "none" => fs' = fs
    /\ Goto("done")
    /\ UNCHANGED err /\ Unbuilt /\ UNCHANGED history

RestoreBackup ==
    /\ pc = "restore"
    /\ \/ /\ fs["dst"] = "none"
          /\ fs' = MoveAside("backup", "dst")
          /\ UNCHANGED err
       \/ /\ Fails({"partial"})
          /\ UNCHANGED fs
    /\ Goto("done")
    /\ Unbuilt /\ UNCHANGED history

\* applyPlan's classification of the error.
Status ==
    CASE pc # "done" -> "running"
      [] pc = "done" /\ err = {} -> "ok"
      [] pc = "done" /\ "partial" \in err -> "partial"
      [] OTHER -> "error"

-----------------------------------------------------------------------------
(***************************************************************************)
(* Another process                                                         *)
(***************************************************************************)

\* It took away what the operation had put at p, or was about to unlink.
Displaced(p) ==
    \/ fs[p] \in Ours
    \/ p = "src" /\ pc = "unlinkSource"

Interfere(p, object) ==
    /\ pc # "done"
    /\ foreignLeft > 0
    /\ fs' = [fs EXCEPT ![p] = object]
    /\ foreignLeft' = foreignLeft - 1
    /\ events' = IF Displaced(p) THEN events \union {"displaced"} ELSE events
    /\ UNCHANGED <<op, pc, err, backed, snap, destroyed, placed>>

ForeignCreate ==
    fs["dst"] = "none" /\ \E o \in {"foreign", "foreignEmptyDir"} : Interfere("dst", o)

ForeignReplace == fs["dst"] \notin {"none", "foreign"} /\ Interfere("dst", "foreign")

ForeignRemove == \E p \in {"src", "dst"} : fs[p] # "none" /\ Interfere(p, "none")

ForeignEdit ==
    \/ fs["src"] = "source" /\ Interfere("src", "edited")
    \/ fs["src"] = "edited" /\ Interfere("src", "editedAgain")

-----------------------------------------------------------------------------
Checking ==
    Refuse \/ Precheck \/ Recheck \/ CheckGuard \/ LstatDestination \/ CheckGuardAgain

Displacing ==
    ReserveBackup \/ UnreserveBackup \/ DisplaceDestination \/ IdentifyBackup \/ GiveBack

BuildingDirectly ==
    BuildRefused \/ PublishSource \/ CreateDirect \/ FillDirect \/ UndoDirect

BuildingStaged ==
    CaptureSource \/ MakeStage \/ FillStage \/ VerifyStage \/ CheckRename \/ PublishStage
        \/ Unstage

AfterPublishing == FinalizeCopy \/ CloseStage \/ InspectSource \/ UnlinkSource

Settling == SettleInPlace \/ DropBackup \/ ClearOwned \/ ProbeDestination \/ RestoreBackup

Program ==
    Checking \/ Displacing \/ BuildingDirectly \/ BuildingStaged \/ AfterPublishing \/ Settling

Others == ForeignCreate \/ ForeignReplace \/ ForeignRemove \/ ForeignEdit

Terminated == pc = "done" /\ UNCHANGED vars

Next == Program \/ Others \/ Terminated

Spec == Init /\ [][Next]_vars

-----------------------------------------------------------------------------
\* Types of the variables, and a nil error carries no tag.
TypeOK ==
    /\ op \in Operations
    /\ pc \in Steps
    /\ fs \in [Paths -> Objects]
    /\ err \in SUBSET ErrorTags
    /\ err # {} => "failed" \in err
    /\ backed \in BOOLEAN
    /\ snap \in Objects
    /\ foreignLeft \in 0..MaxForeign
    /\ destroyed \in SUBSET Objects
    /\ placed \in BOOLEAN
    /\ events \in SUBSET {"cleanupFailed", "closeFailed", "displaced"}

\* The reviewed destination is never unlinked before its replacement was
\* completed, at whatever step a failure, a cancellation or a crash falls.
ReviewedSurvives == "reviewed" \in destroyed => placed

\* What the operation destroyed although another process made it. A source
\* that a move unlinks after copying it, edits included, has not been lost.
Lost == (destroyed \intersect Foreign) \ {snap}

\* Under a destination guard, no object another process made or edited is
\* lost, unless that process took away the operation's own file, or one of
\* three known holes is open: an extraction whose rename(2) meets an empty
\* directory made since os.Rename looked, a failed cleanup inside a staging
\* area, and a guard for an absent destination that found one to move aside
\* after all.
ForeignKept ==
    /\ op.guard # "none"
    /\ op.guard = "absent" => ~backed
    /\ op.build # "extract"
    /\ "displaced" \notin events
    /\ op.build \in Staged => "cleanupFailed" \notin events
    => Lost = {}

\* Status "error" promises an untouched destination: nothing of ours stands
\* there, the reviewed object is not stranded under the backup name, and a
\* move did not unlink its source.
ErrorLeavesNothing ==
    /\ Status = "error"
    /\ ~ (op.build = "archive" /\ "cleanupFailed" \in events)
    /\ ~ (op.build = "copyDir" /\ "closeFailed" \in events)
    => /\ fs["dst"] \notin Ours
       /\ fs["backup"] # "reviewed"
       /\ "source" \notin destroyed

\* Status "ok" promises the whole replacement: completed at the destination,
\* no backup and no stage left behind, and a move's source gone.
OkMeansReplaced ==
    Status = "ok" =>
        /\ placed
        /\ fs["backup"] = "none" /\ fs["stage"] = "none"
        /\ op.build \in Moves => fs["src"] # "source"

\* README: a destination that another process creates during a replacement is
\* kept.
CreatedDestinationKept ==
    op.guard = "reviewed" /\ "displaced" \notin events
        => Lost = {}
=============================================================================
