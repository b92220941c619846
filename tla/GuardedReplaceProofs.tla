------------------------ MODULE GuardedReplaceProofs ------------------------
(***************************************************************************)
(* What GuardedReplace.tla promises, whatever the build and however often  *)
(* another process interferes.  One inductive invariant carries the        *)
(* properties: it says which objects each path may name, what the error    *)
(* says at each step of the build, and where the objects that must not be  *)
(* lost are at that moment.                                                *)
(***************************************************************************)
EXTENDS GuardedReplace, TLAPS

SourceObjects == {"source", "edited", "editedAgain"}
Strangers == {"foreign", "foreignEmptyDir"}

\* Before the build, during the part of it that leaves the destination alone,
\* and after publication.
BeforeBuild == Checks \union {"unreserve", "identify", "giveBack"}
AfterPublication == {"finalize", "close", "inspectSource", "unlinkSource"}

\* What a path may name.
Names ==
    /\ fs["src"] \in SourceObjects \union {"none"}
    /\ snap \in SourceObjects \union {"none"}
    /\ fs["stage"] \in Ours \union {"none"}
    /\ fs["backup"] \in Strangers \union {"none", "placeholder", "reviewed"}
    /\ fs["dst"] # "placeholder"
    /\ fs["dst"] \in SourceObjects =>
           /\ op.build = "moveSame"
           /\ pc = "done" \/ (pc = "settle" /\ BuildStands)

\* A step belongs to some builds only.
BuildSteps ==
    /\ pc = "undo" => op.build \in Direct
    /\ pc \in {"stage", "verify", "publish", "rename", "unstage"} \union AfterPublication
           => op.build \in Staged
    /\ pc \in {"finalize", "close"} => op.build = "copyDir"
    /\ pc \in {"inspectSource", "unlinkSource"} => op.build = "moveCross"

\* What the error says.
Errors ==
    /\ pc \in BeforeBuild \union {"build", "stage", "fill", "verify", "publish", "rename",
                                  "finalize", "inspectSource", "unlinkSource"} => err = {}
    /\ pc = "close" => err \in {{}, {"failed", "published", "partial"}}
    /\ pc \in {"undo", "unstage"} => "failed" \in err /\ "published" \notin err
    /\ pc = "undo" => err = {"failed"}
    /\ pc = "restore" => "failed" \in err
    /\ "owned" \in err => "cleanupFailed" \in events /\ op.build # "moveSame"
    /\ "published" \in err => "partial" \in err

\* Publication, and the success that follows it, come after completion.
Placements ==
    /\ pc \in AfterPublication => placed
    /\ pc = "settle" /\ BuildStands => placed
    /\ pc = "done" /\ err = {} => placed

\* Where the reviewed object and the backup are.
Backups ==
    /\ fs["dst"] = "reviewed" => pc \in Checks \union {"unreserve", "done"}
    /\ ~backed => fs["backup"] \in {"none", "placeholder"}
    /\ ~backed /\ pc \notin {"unreserve", "done"} => fs["backup"] = "none"
    /\ backed => pc \notin Checks \union {"unreserve"}
    /\ pc \in {"identify", "giveBack", "restore"} => backed
    /\ backed => fs["backup"] # "placeholder"
    /\ backed /\ op.guard = "reviewed" /\ pc \notin {"identify", "giveBack", "done"}
           => fs["backup"] = "reviewed"
    /\ pc = "done" /\ fs["backup"] = "reviewed" => "partial" \in err
    /\ pc = "done" /\ err = {} => fs["backup"] = "none"

\* Where what the build makes is.
Stages ==
    /\ pc \in BeforeBuild \union {"build", "stage"} \union AfterPublication
           => fs["stage"] = "none"
    /\ pc = "fill" /\ op.build \in Direct => fs["stage"] = "none"
    /\ pc \in {"settle", "done"} /\ err = {} => fs["stage"] = "none"

Targets ==
    /\ fs["dst"] \in Ours => pc \in {"fill", "undo", "settle", "done"} \union AfterPublication
    /\ fs["dst"] \in Ours /\ pc = "fill" => op.build \in Direct
    /\ fs["dst"] \in Ours /\ pc \in {"settle", "done"} =>
           \/ err = {} \/ "partial" \in err
           \/ op.build = "archive" /\ "cleanupFailed" \in events
           \/ op.build = "copyDir" /\ "closeFailed" \in events
    /\ pc \in {"fill", "undo"} /\ op.build \in Direct /\ "displaced" \notin events
           => fs["dst"] \in Ours
    /\ pc = "settle" /\ op.build \in Direct /\ "owned" \in err /\ "displaced" \notin events
           => fs["dst"] \in Ours

\* What has been destroyed so far.
Destructions ==
    /\ pc \in BeforeBuild \union {"build", "stage"} => destroyed = {}
    /\ "source" \in destroyed =>
           \/ pc \in {"settle", "done"} /\ err = {}
           \/ pc = "done" /\ "partial" \in err
    /\ pc = "unlinkSource" /\ "displaced" \notin events => fs["src"] = snap
    /\ pc \in {"settle", "done"} /\ err = {} /\ op.build \in Moves => fs["src"] # "source"

IInv ==
    /\ TypeOK /\ Names /\ BuildSteps /\ Errors /\ Placements /\ Backups /\ Stages
    /\ Targets /\ Destructions /\ ReviewedSurvives /\ ForeignKept

-----------------------------------------------------------------------------
(***************************************************************************)
(* Type correctness                                                        *)
(***************************************************************************)

LEMMA InitTypeOK == Init => TypeOK
<1> SUFFICES ASSUME Init PROVE TypeOK
  OBVIOUS
<1>1. fs \in [Paths -> Objects]
  BY DEF Init, Paths, Objects
<1>2. pc \in Steps /\ snap \in Objects
  BY DEF Init, Steps, Checks, Objects
<1>3. err \in SUBSET ErrorTags /\ destroyed \in SUBSET Objects
  BY DEF Init
<1>4. foreignLeft \in 0..MaxForeign
  BY ForeignAssumption DEF Init
<1>5. backed \in BOOLEAN /\ placed \in BOOLEAN
  BY DEF Init
<1> QED
  BY <1>1, <1>2, <1>3, <1>4, <1>5 DEF Init, TypeOK

\* Whatever the other process puts somewhere, the types hold.
LEMMA InterfereTypes ==
    ASSUME TypeOK, NEW p \in Paths, NEW o \in Objects, Interfere(p, o)
    PROVE  TypeOK'
<1>1. fs' \in [Paths -> Objects]
  BY DEF TypeOK, Interfere
<1>2. foreignLeft' \in 0..MaxForeign
  BY ForeignAssumption DEF TypeOK, Interfere
<1>3. events' \in SUBSET {"cleanupFailed", "closeFailed", "displaced"}
  BY DEF TypeOK, Interfere
<1> QED
  BY <1>1, <1>2, <1>3 DEF TypeOK, Interfere

\* Every step keeps the types: the program's by group, then the other process.
LEMMA TypeStep == TypeOK /\ [Next]_vars => TypeOK'
<1> SUFFICES ASSUME TypeOK, [Next]_vars PROVE TypeOK'
  OBVIOUS
<1>0. CASE Terminated \/ UNCHANGED vars
  BY <1>0 DEF Terminated, vars, TypeOK
<1> USE DEF TypeOK, Steps, Checks, Objects, Paths, Ours, Foreign, ErrorTags, Unbuilt, history,
        Goto
<1>1. CASE Checking
  <2>1. CASE Refuse
    BY <2>1 DEF Refuse
  <2>2. CASE Precheck
    BY <2>2 DEF Precheck
  <2>3. CASE Recheck
    BY <2>3 DEF Recheck
  <2>4. CASE CheckGuard
    BY <2>4 DEF CheckGuard
  <2>5. CASE LstatDestination
    BY <2>5 DEF LstatDestination
  <2>6. CASE CheckGuardAgain
    BY <2>6 DEF CheckGuardAgain
  <2> QED
    BY <1>1, <2>1, <2>2, <2>3, <2>4, <2>5, <2>6 DEF Checking
<1>2. CASE Displacing
  <2>1. CASE ReserveBackup
    BY <2>1 DEF ReserveBackup
  <2>2. CASE UnreserveBackup
    <3>1. fs' \in [Paths -> Objects]
      BY <2>2 DEF UnreserveBackup
    <3> QED
      BY <2>2, <3>1 DEF UnreserveBackup
  <2>3. CASE DisplaceDestination
    BY <2>3 DEF DisplaceDestination, MoveAside
  <2>4. CASE IdentifyBackup
    BY <2>4 DEF IdentifyBackup
  <2>5. CASE GiveBack
    BY <2>5 DEF GiveBack, MoveAside
  <2> QED
    BY <1>2, <2>1, <2>2, <2>3, <2>4, <2>5 DEF Displacing
<1>3. CASE BuildingDirectly
  <2>1. CASE BuildRefused
    BY <2>1 DEF BuildRefused, Fails
  <2>2. CASE PublishSource
    BY <2>2 DEF PublishSource, MoveAside
  <2>3. CASE CreateDirect
    BY <2>3 DEF CreateDirect
  <2>4. CASE FillDirect
    <3>1. fs' \in [Paths -> Objects]
      BY <2>4 DEF FillDirect, Fails
    <3>2. err' \in SUBSET ErrorTags /\ (err' # {} => "failed" \in err')
      BY <2>4 DEF FillDirect, Fails
    <3> QED
      BY <2>4, <3>1, <3>2 DEF FillDirect, Fails
  <2>5. CASE UndoDirect
    <3>1. fs' \in [Paths -> Objects]
      BY <2>5 DEF UndoDirect, Fails
    <3>2. destroyed' \in SUBSET Objects
      BY <2>5 DEF UndoDirect
    <3>3. err' \in SUBSET ErrorTags /\ (err' # {} => "failed" \in err')
      BY <2>5 DEF UndoDirect, Fails
    <3> QED
      BY <2>5, <3>1, <3>2, <3>3 DEF UndoDirect, Fails
  <2> QED
    BY <1>3, <2>1, <2>2, <2>3, <2>4, <2>5 DEF BuildingDirectly
<1>4. CASE BuildingStaged
  <2>1. CASE CaptureSource
    BY <2>1 DEF CaptureSource
  <2>2. CASE MakeStage
    BY <2>2 DEF MakeStage
  <2>3. CASE FillStage
    <3>1. fs' \in [Paths -> Objects]
      BY <2>3 DEF FillStage, Fails
    <3>2. err' \in SUBSET ErrorTags /\ (err' # {} => "failed" \in err')
      BY <2>3 DEF FillStage, Fails
    <3>3. events' \in SUBSET {"cleanupFailed", "closeFailed", "displaced"}
      BY <2>3 DEF FillStage
    <3> QED
      BY <2>3, <3>1, <3>2, <3>3 DEF FillStage, Fails
  <2>4. CASE VerifyStage
    BY <2>4 DEF VerifyStage, Fails
  <2>5. CASE CheckRename
    BY <2>5 DEF CheckRename, Fails
  <2>6. CASE PublishStage
    <3>1. fs' \in [Paths -> Objects]
      BY <2>6 DEF PublishStage, Fails, MoveAside, AfterPublish
    <3>2. destroyed' \in SUBSET Objects
      BY <2>6 DEF PublishStage
    <3> QED
      BY <2>6, <3>1, <3>2 DEF PublishStage, Fails, MoveAside, AfterPublish
  <2>7. CASE Unstage
    BY <2>7 DEF Unstage, Fails
  <2> QED
    BY <1>4, <2>1, <2>2, <2>3, <2>4, <2>5, <2>6, <2>7 DEF BuildingStaged
<1>5. CASE AfterPublishing
  <2>1. CASE FinalizeCopy
    BY <2>1 DEF FinalizeCopy, Fails
  <2>2. CASE CloseStage
    BY <2>2 DEF CloseStage, Fails
  <2>3. CASE InspectSource
    BY <2>3 DEF InspectSource, Fails
  <2>4. CASE UnlinkSource
    <3>1. fs' \in [Paths -> Objects]
      BY <2>4 DEF UnlinkSource, Fails
    <3>2. destroyed' \in SUBSET Objects
      BY <2>4 DEF UnlinkSource
    <3> QED
      BY <2>4, <3>1, <3>2 DEF UnlinkSource, Fails
  <2> QED
    BY <1>5, <2>1, <2>2, <2>3, <2>4 DEF AfterPublishing
<1>6. CASE Settling
  <2>1. CASE SettleInPlace
    BY <2>1 DEF SettleInPlace
  <2>2. CASE DropBackup
    <3>1. fs' \in [Paths -> Objects]
      BY <2>2 DEF DropBackup, Fails
    <3>2. destroyed' \in SUBSET Objects
      BY <2>2 DEF DropBackup
    <3> QED
      BY <2>2, <3>1, <3>2 DEF DropBackup, Fails
  <2>3. CASE ClearOwned
    <3>1. fs' \in [Paths -> Objects]
      BY <2>3 DEF ClearOwned, Fails
    <3>2. destroyed' \in SUBSET Objects
      BY <2>3 DEF ClearOwned
    <3>3. err' \in SUBSET ErrorTags /\ (err' # {} => "failed" \in err')
      BY <2>3 DEF ClearOwned, Fails
    <3> QED
      BY <2>3, <3>1, <3>2, <3>3 DEF ClearOwned, Fails
  <2>4. CASE ProbeDestination
    BY <2>4 DEF ProbeDestination, Fails
  <2>5. CASE RestoreBackup
    BY <2>5 DEF RestoreBackup, Fails, MoveAside
  <2> QED
    BY <1>6, <2>1, <2>2, <2>3, <2>4, <2>5 DEF Settling
<1>7. CASE Others
  BY <1>7, InterfereTypes DEF Others, ForeignCreate, ForeignReplace, ForeignRemove, ForeignEdit
<1> QED
  BY <1>0, <1>1, <1>2, <1>3, <1>4, <1>5, <1>6, <1>7 DEF Next, Program

\* Type correctness of one operation, whatever its build and the interference.
THEOREM TypeCorrect == Spec => []TypeOK
  BY InitTypeOK, TypeStep, PTL DEF Spec

-----------------------------------------------------------------------------
(***************************************************************************)
(* The inductive invariant: initially, then kept part by part              *)
(***************************************************************************)

LEMMA InitInv == Init => IInv
<1> SUFFICES ASSUME Init PROVE IInv
  OBVIOUS
<1>1. TypeOK
  BY InitTypeOK
<1>2. /\ fs["src"] = "source" /\ fs["dst"] \in {"none", "reviewed"}
      /\ fs["backup"] = "none" /\ fs["stage"] = "none"
  BY DEF Init, Paths
<1>3. pc = "precheck" /\ err = {} /\ ~backed /\ snap = "none" /\ destroyed = {}
  BY DEF Init
<1>4. Names /\ BuildSteps /\ Errors /\ Placements
  BY <1>2, <1>3 DEF Names, BuildSteps, Errors, Placements, SourceObjects, Ours,
     AfterPublication
<1>5. Backups /\ Stages /\ Targets /\ Destructions
  BY <1>2, <1>3 DEF Backups, Stages, Targets, Destructions, Ours, Checks
<1>6. ReviewedSurvives /\ ForeignKept
  BY <1>3 DEF ReviewedSurvives, ForeignKept, Lost
<1> QED
  BY <1>1, <1>4, <1>5, <1>6 DEF IInv

\* What a path may name does not depend on who wrote it last.
LEMMA NamesStep == IInv /\ [Next]_vars => Names'
<1> SUFFICES ASSUME IInv, [Next]_vars PROVE Names'
  OBVIOUS
<1>0. CASE Terminated \/ UNCHANGED vars
  BY <1>0 DEF Terminated, vars, IInv, Names, BuildStands
<1> USE DEF IInv, TypeOK, Names, BuildSteps, Errors, Backups, Targets, SourceObjects,
        Strangers, Objects, Paths, Ours, Foreign, Checks, BeforeBuild, AfterPublication,
        BuildStands, Staged, Direct, Displaced, Unbuilt, history, Goto, Fails,
        MoveAside, AfterPublish, Interfere
<1>1. CASE Checking
  BY <1>1 DEF Checking, Refuse, Precheck, Recheck, CheckGuard, LstatDestination,
     CheckGuardAgain
<1>2. CASE Displacing
  BY <1>2 DEF Displacing, ReserveBackup, UnreserveBackup, DisplaceDestination,
     IdentifyBackup, GiveBack
<1>3. CASE BuildingDirectly
  BY <1>3 DEF BuildingDirectly, BuildRefused, PublishSource, CreateDirect, FillDirect,
     UndoDirect
<1>4. CASE BuildingStaged
  BY <1>4 DEF BuildingStaged, CaptureSource, MakeStage, FillStage, VerifyStage,
     CheckRename, PublishStage, Unstage
<1>5. CASE AfterPublishing
  BY <1>5 DEF AfterPublishing, FinalizeCopy, CloseStage, InspectSource, UnlinkSource
<1>6. CASE Settling
  BY <1>6 DEF Settling, SettleInPlace, DropBackup, ClearOwned, ProbeDestination,
     RestoreBackup
<1>7. CASE Others
  BY <1>7 DEF Others, ForeignCreate, ForeignReplace, ForeignRemove, ForeignEdit
<1> QED
  BY <1>0, <1>1, <1>2, <1>3, <1>4, <1>5, <1>6, <1>7 DEF Next, Program

\* The control flow of each build.
LEMMA BuildStepsStep == IInv /\ [Next]_vars => BuildSteps'
<1> SUFFICES ASSUME IInv, [Next]_vars PROVE BuildSteps'
  OBVIOUS
<1>0. CASE Terminated \/ UNCHANGED vars
  BY <1>0 DEF Terminated, vars, IInv, BuildSteps, BuildStands
<1> USE DEF IInv, TypeOK, BuildSteps, AfterPublication, Checks, Staged, Direct,
        Displaced, AllBuilds, Operations, Unbuilt, history, Goto, Fails, MoveAside,
        AfterPublish, Interfere
<1>1. CASE Checking
  BY <1>1 DEF Checking, Refuse, Precheck, Recheck, CheckGuard, LstatDestination,
     CheckGuardAgain
<1>2. CASE Displacing
  BY <1>2 DEF Displacing, ReserveBackup, UnreserveBackup, DisplaceDestination,
     IdentifyBackup, GiveBack
<1>3. CASE BuildingDirectly
  BY <1>3 DEF BuildingDirectly, BuildRefused, PublishSource, CreateDirect, FillDirect,
     UndoDirect
<1>4. CASE BuildingStaged
  BY <1>4 DEF BuildingStaged, CaptureSource, MakeStage, FillStage, VerifyStage,
     CheckRename, PublishStage, Unstage
<1>5. CASE AfterPublishing
  BY <1>5 DEF AfterPublishing, FinalizeCopy, CloseStage, InspectSource, UnlinkSource
<1>6. CASE Settling
  BY <1>6 DEF Settling, SettleInPlace, DropBackup, ClearOwned, ProbeDestination,
     RestoreBackup
<1>7. CASE Others
  BY <1>7 DEF Others, ForeignCreate, ForeignReplace, ForeignRemove, ForeignEdit
<1> QED
  BY <1>0, <1>1, <1>2, <1>3, <1>4, <1>5, <1>6, <1>7 DEF Next, Program

\* The error is nil until something failed, and keeps its wrappers.
LEMMA ErrorsStep == IInv /\ [Next]_vars => Errors'
<1> SUFFICES ASSUME IInv, [Next]_vars PROVE Errors'
  OBVIOUS
<1>0. CASE Terminated \/ UNCHANGED vars
  BY <1>0 DEF Terminated, vars, IInv, Errors, BuildStands
<1> USE DEF IInv, TypeOK, Errors, BuildSteps, BeforeBuild, AfterPublication, Checks,
        Staged, Direct, Displaced, BuildStands, Unbuilt, history, Goto, Fails,
        MoveAside, AfterPublish, Interfere
<1>1. CASE Checking
  BY <1>1 DEF Checking, Refuse, Precheck, Recheck, CheckGuard, LstatDestination,
     CheckGuardAgain
<1>2. CASE Displacing
  BY <1>2 DEF Displacing, ReserveBackup, UnreserveBackup, DisplaceDestination,
     IdentifyBackup, GiveBack
<1>3. CASE BuildingDirectly
  BY <1>3 DEF BuildingDirectly, BuildRefused, PublishSource, CreateDirect, FillDirect,
     UndoDirect
<1>4. CASE BuildingStaged
  BY <1>4 DEF BuildingStaged, CaptureSource, MakeStage, FillStage, VerifyStage,
     CheckRename, PublishStage, Unstage
<1>5. CASE AfterPublishing
  BY <1>5 DEF AfterPublishing, FinalizeCopy, CloseStage, InspectSource, UnlinkSource
<1>6. CASE Settling
  BY <1>6 DEF Settling, SettleInPlace, DropBackup, ClearOwned, ProbeDestination,
     RestoreBackup
<1>7. CASE Others
  BY <1>7 DEF Others, ForeignCreate, ForeignReplace, ForeignRemove, ForeignEdit
<1> QED
  BY <1>0, <1>1, <1>2, <1>3, <1>4, <1>5, <1>6, <1>7 DEF Next, Program

\* A build that stands was completed.
LEMMA PlacementsStep == IInv /\ [Next]_vars => Placements'
<1> SUFFICES ASSUME IInv, [Next]_vars PROVE Placements'
  OBVIOUS
<1>0. CASE Terminated \/ UNCHANGED vars
  BY <1>0 DEF Terminated, vars, IInv, Placements, BuildStands
<1> USE DEF IInv, TypeOK, Placements, Errors, BuildSteps, BeforeBuild, AfterPublication,
        Checks, Staged, Direct, Displaced, BuildStands, Unbuilt, history, Goto, Fails,
        MoveAside, AfterPublish, Interfere
<1>1. CASE Checking
  BY <1>1 DEF Checking, Refuse, Precheck, Recheck, CheckGuard, LstatDestination,
     CheckGuardAgain
<1>2. CASE Displacing
  BY <1>2 DEF Displacing, ReserveBackup, UnreserveBackup, DisplaceDestination,
     IdentifyBackup, GiveBack
<1>3. CASE BuildingDirectly
  BY <1>3 DEF BuildingDirectly, BuildRefused, PublishSource, CreateDirect, FillDirect,
     UndoDirect
<1>4. CASE BuildingStaged
  BY <1>4 DEF BuildingStaged, CaptureSource, MakeStage, FillStage, VerifyStage,
     CheckRename, PublishStage, Unstage
<1>5. CASE AfterPublishing
  BY <1>5 DEF AfterPublishing, FinalizeCopy, CloseStage, InspectSource, UnlinkSource
<1>6. CASE Settling
  BY <1>6 DEF Settling, SettleInPlace, DropBackup, ClearOwned, ProbeDestination,
     RestoreBackup
<1>7. CASE Others
  BY <1>7 DEF Others, ForeignCreate, ForeignReplace, ForeignRemove, ForeignEdit
<1> QED
  BY <1>0, <1>1, <1>2, <1>3, <1>4, <1>5, <1>6, <1>7 DEF Next, Program

\* The reviewed object is at dst, then at backup, and back again.
LEMMA BackupsStep == IInv /\ [Next]_vars => Backups'
<1> SUFFICES ASSUME IInv, [Next]_vars PROVE Backups'
  OBVIOUS
<1>0. CASE Terminated \/ UNCHANGED vars
  BY <1>0 DEF Terminated, vars, IInv, Backups, BuildStands
<1> USE DEF IInv, TypeOK, Names, Errors, Backups, BuildSteps, Targets, BeforeBuild,
        AfterPublication, SourceObjects, Strangers, BuildStands, Direct, Staged, Checks,
        Paths, Objects, Ours, Foreign, Displaced, GuardHolds, Publishable, Unbuilt,
        history, Goto, Fails, MoveAside, AfterPublish, Interfere
<1>1. CASE Checking
  BY <1>1 DEF Checking, Refuse, Precheck, Recheck, CheckGuard, LstatDestination,
     CheckGuardAgain
<1>2. CASE Displacing
  BY <1>2 DEF Displacing, ReserveBackup, UnreserveBackup, DisplaceDestination,
     IdentifyBackup, GiveBack
<1>3. CASE BuildingDirectly
  BY <1>3 DEF BuildingDirectly, BuildRefused, PublishSource, CreateDirect, FillDirect,
     UndoDirect
<1>4. CASE BuildingStaged
  BY <1>4 DEF BuildingStaged, CaptureSource, MakeStage, FillStage, VerifyStage,
     CheckRename, PublishStage, Unstage
<1>5. CASE AfterPublishing
  BY <1>5 DEF AfterPublishing, FinalizeCopy, CloseStage, InspectSource, UnlinkSource
<1>6. CASE Settling
  BY <1>6 DEF Settling, SettleInPlace, DropBackup, ClearOwned, ProbeDestination,
     RestoreBackup
<1>7. CASE Others
  BY <1>7 DEF Others, ForeignCreate, ForeignReplace, ForeignRemove, ForeignEdit
<1> QED
  BY <1>0, <1>1, <1>2, <1>3, <1>4, <1>5, <1>6, <1>7 DEF Next, Program

\* No stage outlives a success.
LEMMA StagesStep == IInv /\ [Next]_vars => Stages'
<1> SUFFICES ASSUME IInv, [Next]_vars PROVE Stages'
  OBVIOUS
<1>0. CASE Terminated \/ UNCHANGED vars
  BY <1>0 DEF Terminated, vars, IInv, Stages, BuildStands
<1> USE DEF IInv, TypeOK, Stages, Errors, BuildSteps, BeforeBuild, AfterPublication,
        Checks, Direct, Staged, Paths, Displaced, BuildStands, Unbuilt, history, Goto,
        Fails, MoveAside, AfterPublish, Interfere
<1>1. CASE Checking
  BY <1>1 DEF Checking, Refuse, Precheck, Recheck, CheckGuard, LstatDestination,
     CheckGuardAgain
<1>2. CASE Displacing
  BY <1>2 DEF Displacing, ReserveBackup, UnreserveBackup, DisplaceDestination,
     IdentifyBackup, GiveBack
<1>3. CASE BuildingDirectly
  BY <1>3 DEF BuildingDirectly, BuildRefused, PublishSource, CreateDirect, FillDirect,
     UndoDirect
<1>4. CASE BuildingStaged
  BY <1>4 DEF BuildingStaged, CaptureSource, MakeStage, FillStage, VerifyStage,
     CheckRename, PublishStage, Unstage
<1>5. CASE AfterPublishing
  BY <1>5 DEF AfterPublishing, FinalizeCopy, CloseStage, InspectSource, UnlinkSource
<1>6. CASE Settling
  BY <1>6 DEF Settling, SettleInPlace, DropBackup, ClearOwned, ProbeDestination,
     RestoreBackup
<1>7. CASE Others
  BY <1>7 DEF Others, ForeignCreate, ForeignReplace, ForeignRemove, ForeignEdit
<1> QED
  BY <1>0, <1>1, <1>2, <1>3, <1>4, <1>5, <1>6, <1>7 DEF Next, Program

\* What stands at dst is ours only while it is being built, or reported.
LEMMA TargetsStep == IInv /\ [Next]_vars => Targets'
<1> SUFFICES ASSUME IInv, [Next]_vars PROVE Targets'
  OBVIOUS
<1>0. CASE Terminated \/ UNCHANGED vars
  BY <1>0 DEF Terminated, vars, IInv, Targets, BuildStands
<1> USE DEF IInv, TypeOK, Names, Errors, BuildSteps, Backups, Targets, Stages,
        BeforeBuild, AfterPublication, SourceObjects, Strangers, BuildStands, Direct,
        Staged, Checks, Paths, Objects, Ours, Foreign, Displaced, Publishable, Unbuilt,
        history, Goto, Fails, MoveAside, AfterPublish, Interfere
<1>1. CASE Checking
  BY <1>1 DEF Checking, Refuse, Precheck, Recheck, CheckGuard, LstatDestination,
     CheckGuardAgain
<1>2. CASE Displacing
  BY <1>2 DEF Displacing, ReserveBackup, UnreserveBackup, DisplaceDestination,
     IdentifyBackup, GiveBack
<1>3. CASE BuildingDirectly
  BY <1>3 DEF BuildingDirectly, BuildRefused, PublishSource, CreateDirect, FillDirect,
     UndoDirect
<1>4. CASE BuildingStaged
  BY <1>4 DEF BuildingStaged, CaptureSource, MakeStage, FillStage, VerifyStage,
     CheckRename, PublishStage, Unstage
<1>5. CASE AfterPublishing
  BY <1>5 DEF AfterPublishing, FinalizeCopy, CloseStage, InspectSource, UnlinkSource
<1>6. CASE Settling
  BY <1>6 DEF Settling, SettleInPlace, DropBackup, ClearOwned, ProbeDestination,
     RestoreBackup
<1>7. CASE Others
  BY <1>7 DEF Others, ForeignCreate, ForeignReplace, ForeignRemove, ForeignEdit
<1> QED
  BY <1>0, <1>1, <1>2, <1>3, <1>4, <1>5, <1>6, <1>7 DEF Next, Program

\* The source is destroyed by a move that completed, nothing before that.
LEMMA DestructionsStep == IInv /\ [Next]_vars => Destructions'
<1> SUFFICES ASSUME IInv, [Next]_vars PROVE Destructions'
  OBVIOUS
<1>0. CASE Terminated \/ UNCHANGED vars
  BY <1>0 DEF Terminated, vars, IInv, Destructions, BuildStands
<1> USE DEF IInv, TypeOK, Names, Errors, BuildSteps, Destructions, Placements,
        BeforeBuild, AfterPublication, SourceObjects, Strangers, BuildStands, Direct,
        Staged, Moves, Checks, Paths, Objects, Ours, Foreign, Displaced, Unbuilt,
        history, Goto, Fails, MoveAside, AfterPublish, Interfere
<1>1. CASE Checking
  BY <1>1 DEF Checking, Refuse, Precheck, Recheck, CheckGuard, LstatDestination,
     CheckGuardAgain
<1>2. CASE Displacing
  BY <1>2 DEF Displacing, ReserveBackup, UnreserveBackup, DisplaceDestination,
     IdentifyBackup, GiveBack
<1>3. CASE BuildingDirectly
  BY <1>3 DEF BuildingDirectly, BuildRefused, PublishSource, CreateDirect, FillDirect,
     UndoDirect
<1>4. CASE BuildingStaged
  BY <1>4 DEF BuildingStaged, CaptureSource, MakeStage, FillStage, VerifyStage,
     CheckRename, PublishStage, Unstage
<1>5. CASE AfterPublishing
  BY <1>5 DEF AfterPublishing, FinalizeCopy, CloseStage, InspectSource, UnlinkSource
<1>6. CASE Settling
  BY <1>6 DEF Settling, SettleInPlace, DropBackup, ClearOwned, ProbeDestination,
     RestoreBackup
<1>7. CASE Others
  BY <1>7 DEF Others, ForeignCreate, ForeignReplace, ForeignRemove, ForeignEdit
<1> QED
  BY <1>0, <1>1, <1>2, <1>3, <1>4, <1>5, <1>6, <1>7 DEF Next, Program

\* The reviewed object is destroyed as a backup, after completion, or not at all.
LEMMA ReviewedSurvivesStep == IInv /\ [Next]_vars => ReviewedSurvives'
<1> SUFFICES ASSUME IInv, [Next]_vars PROVE ReviewedSurvives'
  OBVIOUS
<1>0. CASE Terminated \/ UNCHANGED vars
  BY <1>0 DEF Terminated, vars, IInv, ReviewedSurvives, BuildStands
<1> USE DEF IInv, TypeOK, ReviewedSurvives, Names, Backups, Placements, SourceObjects,
        Strangers, BuildStands, Checks, Ours, Paths, Foreign, Displaced, Unbuilt,
        history, Goto, Fails, MoveAside, AfterPublish, Interfere
<1>1. CASE Checking
  BY <1>1 DEF Checking, Refuse, Precheck, Recheck, CheckGuard, LstatDestination,
     CheckGuardAgain
<1>2. CASE Displacing
  BY <1>2 DEF Displacing, ReserveBackup, UnreserveBackup, DisplaceDestination,
     IdentifyBackup, GiveBack
<1>3. CASE BuildingDirectly
  BY <1>3 DEF BuildingDirectly, BuildRefused, PublishSource, CreateDirect, FillDirect,
     UndoDirect
<1>4. CASE BuildingStaged
  BY <1>4 DEF BuildingStaged, CaptureSource, MakeStage, FillStage, VerifyStage,
     CheckRename, PublishStage, Unstage
<1>5. CASE AfterPublishing
  BY <1>5 DEF AfterPublishing, FinalizeCopy, CloseStage, InspectSource, UnlinkSource
<1>6. CASE Settling
  BY <1>6 DEF Settling, SettleInPlace, DropBackup, ClearOwned, ProbeDestination,
     RestoreBackup
<1>7. CASE Others
  BY <1>7 DEF Others, ForeignCreate, ForeignReplace, ForeignRemove, ForeignEdit
<1> QED
  BY <1>0, <1>1, <1>2, <1>3, <1>4, <1>5, <1>6, <1>7 DEF Next, Program

\* Every object the operation destroys is its own, the backup or the copied source.
LEMMA ForeignKeptStep == IInv /\ [Next]_vars => ForeignKept'
<1> SUFFICES ASSUME IInv, [Next]_vars PROVE ForeignKept'
  OBVIOUS
<1>0. CASE Terminated \/ UNCHANGED vars
  BY <1>0 DEF Terminated, vars, IInv, ForeignKept, Lost
<1> USE DEF IInv, TypeOK, ForeignKept, Lost, Names, Errors, BuildSteps, Backups,
        Targets, Destructions, BeforeBuild, AfterPublication, SourceObjects, Strangers,
        BuildStands, Direct, Staged, Checks, Paths, Objects, Ours, Foreign, Displaced,
        GuardHolds, Publishable, AllBuilds, Operations, Unbuilt, history, Goto, Fails,
        MoveAside, AfterPublish, Interfere
<1>1. CASE Checking
  BY <1>1 DEF Checking, Refuse, Precheck, Recheck, CheckGuard, LstatDestination,
     CheckGuardAgain
<1>2. CASE Displacing
  BY <1>2 DEF Displacing, ReserveBackup, UnreserveBackup, DisplaceDestination,
     IdentifyBackup, GiveBack
<1>3. CASE BuildingDirectly
  BY <1>3 DEF BuildingDirectly, BuildRefused, PublishSource, CreateDirect, FillDirect,
     UndoDirect
<1>4. CASE BuildingStaged
  BY <1>4 DEF BuildingStaged, CaptureSource, MakeStage, FillStage, VerifyStage,
     CheckRename, PublishStage, Unstage
<1>5. CASE AfterPublishing
  BY <1>5 DEF AfterPublishing, FinalizeCopy, CloseStage, InspectSource, UnlinkSource
<1>6. CASE Settling
  <2>1. CASE SettleInPlace \/ ProbeDestination \/ RestoreBackup
    BY <2>1 DEF SettleInPlace, ProbeDestination, RestoreBackup
  <2>2. CASE DropBackup
    BY <2>2 DEF DropBackup
  <2>3. CASE ClearOwned
    <3>1. op.build \in Direct \union Staged \union {"moveSame"}
      BY BuildsAssumption
    <3> QED
      BY <2>3, <3>1 DEF ClearOwned
  <2> QED
    BY <1>6, <2>1, <2>2, <2>3 DEF Settling
<1>7. CASE Others
  BY <1>7 DEF Others, ForeignCreate, ForeignReplace, ForeignRemove, ForeignEdit
<1> QED
  BY <1>0, <1>1, <1>2, <1>3, <1>4, <1>5, <1>6, <1>7 DEF Next, Program

LEMMA InvStep == IInv /\ [Next]_vars => IInv'
  BY TypeStep, NamesStep, BuildStepsStep, ErrorsStep, PlacementsStep, BackupsStep, StagesStep,
     TargetsStep, DestructionsStep, ReviewedSurvivesStep, ForeignKeptStep DEF IInv

LEMMA Invariance == Spec => []IInv
  BY InitInv, InvStep, PTL DEF Spec

-----------------------------------------------------------------------------
(***************************************************************************)
(* The theorems                                                            *)
(***************************************************************************)

\* The reviewed destination is never destroyed before its replacement was
\* completed, wherever the operation fails or stops.
THEOREM ReviewedSurvivesHolds == Spec => []ReviewedSurvives
<1>1. IInv => ReviewedSurvives
  BY DEF IInv
<1> QED
  BY <1>1, Invariance, PTL

\* A guarded operation destroys nothing another process made, but through the
\* holes ForeignKept names.
THEOREM ForeignKeptHolds == Spec => []ForeignKept
<1>1. IInv => ForeignKept
  BY DEF IInv
<1> QED
  BY <1>1, Invariance, PTL

\* A plain error leaves nothing of ours at the destination, no stranded
\* backup, and the source of a move in place.
THEOREM ErrorLeavesNothingHolds == Spec => []ErrorLeavesNothing
<1>1. IInv => ErrorLeavesNothing
  <2> SUFFICES ASSUME IInv, Status = "error",
                      ~(op.build = "archive" /\ "cleanupFailed" \in events),
                      ~(op.build = "copyDir" /\ "closeFailed" \in events)
               PROVE  /\ fs["dst"] \notin Ours
                      /\ fs["backup"] # "reviewed"
                      /\ "source" \notin destroyed
    BY DEF ErrorLeavesNothing
  <2>1. pc = "done" /\ err # {} /\ "partial" \notin err
    BY DEF Status
  <2> QED
    BY <2>1 DEF IInv, Targets, Backups, Destructions
<1> QED
  BY <1>1, Invariance, PTL

\* Success means the whole replacement, and nothing left beside it.
THEOREM OkMeansReplacedHolds == Spec => []OkMeansReplaced
<1>1. IInv => OkMeansReplaced
  <2> SUFFICES ASSUME IInv, Status = "ok"
               PROVE  /\ placed
                      /\ fs["backup"] = "none" /\ fs["stage"] = "none"
                      /\ op.build \in Moves => fs["src"] # "source"
    BY DEF OkMeansReplaced
  <2>1. pc = "done" /\ err = {}
    BY DEF Status
  <2> QED
    BY <2>1 DEF IInv, Placements, Backups, Stages, Destructions
<1> QED
  BY <1>1, Invariance, PTL
=============================================================================
