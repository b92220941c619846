---------------------------- MODULE PlanValidate ----------------------------
(***************************************************************************)
(* prevalidatePlan of internal/fsops against what applying the plan then   *)
(* does.  The validator goes through the operations once, predicting for   *)
(* every path what earlier operations will have made of it, and dry-runs   *)
(* against the disk those that depend on none.  The accepted plan is then  *)
(* executed, here with no other process and no I/O error, so that whatever *)
(* fails is something the validator did not foresee.                       *)
(*                                                                         *)
(* move stands for rename too, chmod for chown; deleteTree is delete with  *)
(* recursive set.  Archives are regular files that inspectArchive accepts. *)
(***************************************************************************)
EXTENDS Naturals, Sequences

CONSTANTS
    Paths,     \* the paths of this instance, relative to the plan's root
    Disks,     \* what may be at each path at first: a set of functions
    MaxOps     \* bound: operations in the plan

Root == <<>>
Nowhere == <<"nowhere">>
Parent(p) == SubSeq(p, 1, Len(p) - 1)
Contains(p, q) == Len(p) < Len(q) /\ SubSeq(q, 1, Len(p)) = p
Within(p, q) == p = q \/ Contains(p, q)
Rebase(p, from, to) == to \o SubSeq(p, Len(from) + 1, Len(p))

Names == UNION {{p[i] : i \in DOMAIN p} : p \in Paths}

ASSUME PathsAssumption ==
    /\ Paths \subseteq Seq(Names)
    /\ Root \in Paths /\ Nowhere \notin Paths
    /\ \A p \in Paths \ {Root} : Parent(p) \in Paths
ASSUME DisksAssumption ==
    \A d \in Disks :
        /\ d \in [Paths -> {"none", "directory", "file", "archive"}]
        /\ d[Root] = "directory"
        /\ \A p \in Paths \ {Root} : d[p] # "none" => d[Parent(p)] = "directory"
ASSUME BoundAssumption == MaxOps \in Nat

VARIABLES
    policy,   \* the conflict policy
    phase,    \* planning, applying, succeeded or failed
    plan,     \* the operations accepted so far
    predicted,\* what the validator takes each path to be after them
    disk,     \* the object at each path
    created,  \* paths the run has produced (applyPlan's created)
    at,       \* the operation to be executed next
    (*********************************************************************)
    (* History, read by the properties alone.                            *)
    (*********************************************************************)
    trees     \* paths where the run placed or replaced a directory tree

vars == <<policy, phase, plan, predicted, disk, created, at, trees>>

Building == {"copy", "move", "archive", "extract"}
Creating == {"mkdir", "touch"}
Actions == Building \union Creating \union {"delete", "deleteTree", "truncate", "chmod"}

\* expected is the source guard, expectedDst the destination guard.
Operation == [action : Actions, source : Paths, dest : Paths \union {Nowhere},
              expected : BOOLEAN, expectedDst : {"nil", "absent", "present"}]

Kinds == {"none", "directory", "file"}

\* The validator's planPathState; exists is kind # "none".
PathState == [kind : Kinds, fromPlan : BOOLEAN, changed : BOOLEAN, archiveValid : BOOLEAN]

\* An object is the one the plan's guard captured at its origin, or new; dirty
\* tells that its size or modification time changed since.
Object == [kind : Kinds, origin : Paths \union {Nowhere}, dirty : BOOLEAN, archive : BOOLEAN]

Nothing == [kind |-> "none", origin |-> Nowhere, dirty |-> FALSE, archive |-> FALSE]
New(kind) == [Nothing EXCEPT !.kind = kind]
Gone == [kind |-> "none", fromPlan |-> FALSE, changed |-> TRUE, archiveValid |-> FALSE]

KindOf(k) == IF k = "archive" THEN "file" ELSE k

Init ==
    /\ policy \in {"fail", "overwrite"}
    /\ phase = "planning"
    /\ plan = <<>>
    /\ \E d \in Disks :
        /\ disk = [p \in Paths |->
                    IF d[p] = "none" THEN Nothing
                    ELSE [kind |-> KindOf(d[p]), origin |-> p, dirty |-> FALSE,
                          archive |-> d[p] = "archive"]]
        /\ predicted = [p \in Paths |->
                    [kind |-> KindOf(d[p]), fromPlan |-> FALSE, changed |-> FALSE,
                     archiveValid |-> FALSE]]
    /\ created = {}
    /\ at = 1
    /\ trees = {}

-----------------------------------------------------------------------------
(***************************************************************************)
(* execute: guards and preflight, on the disk as it is                     *)
(***************************************************************************)

Exists(p) == disk[p].kind # "none"
IsDirectory(p) == disk[p].kind = "directory"
Parented(p) == p = Root \/ IsDirectory(Parent(p))
Captured(p) == disk[p].origin = p /\ ~disk[p].dirty

SourceGuardHolds(o) == o.expected => Captured(o.source)
DestGuardHolds(o) ==
    /\ o.expectedDst = "absent" => ~Exists(o.dest)
    /\ o.expectedDst = "present" => Captured(o.dest)

\* Slip: a missing source guard is left to the validator.
GuardedOrProducedAlways(o, unguarded) == TRUE

GuardedOrProduced(o, unguarded) == o.expected \/ unguarded \/ ~Exists(o.source)

Preflight(o, unguarded) ==
    /\ o.action \notin Creating => Exists(o.source)
    /\ o.action \in Creating => Parented(o.source)
    /\ GuardedOrProduced(o, unguarded)
    /\ SourceGuardHolds(o)
    /\ o.action \in Building =>
        /\ DestGuardHolds(o)
        /\ policy = "overwrite" /\ o.expectedDst = "nil" => unguarded
        /\ Parented(o.dest)
        /\ policy = "fail" => ~Exists(o.dest)
    /\ o.action \in {"copy", "archive"} /\ IsDirectory(o.source)
            => ~Within(o.source, o.dest)
    /\ o.action = "extract" => disk[o.source].archive

-----------------------------------------------------------------------------
(***************************************************************************)
(* validateOperation                                                       *)
(***************************************************************************)

\* pathState fails below what was no directory when the plan was validated.
Inspectable(p) == \A q \in Paths : Contains(q, p) /\ Exists(q) => IsDirectory(q)
DirectoryAhead(p) == p = Root \/ predicted[Parent(p)].kind = "directory"
ParentFromPlan(p) == p # Root /\ predicted[Parent(p)].fromPlan

Acceptable(o) ==
    LET s == predicted[o.source] IN
    /\ o.source = Root => o.action \notin {"delete", "deleteTree", "move"}
    /\ Inspectable(o.source)
    /\ o.action \notin Creating => s.kind # "none"
    /\ o.action = "mkdir" => s.kind = "none"
    /\ IF o.expected THEN ~s.changed /\ ~s.fromPlan
                     ELSE s.kind = "none" \/ s.fromPlan
    /\ o.action = "extract" => s.kind = "file" /\ (s.fromPlan => s.archiveValid)
    /\ o.action \in Creating => DirectoryAhead(o.source)
    /\ o.action \in Building =>
        /\ o.dest # o.source
        /\ Inspectable(o.dest)
        /\ ~predicted[o.dest].changed
        /\ DirectoryAhead(o.dest)
        /\ policy = "fail" => predicted[o.dest].kind = "none"
        /\ policy = "overwrite" => o.expectedDst # "nil"
        /\ DestGuardHolds(o)
    /\ o.action \in {"copy", "move", "archive"} /\ s.kind = "directory"
            => ~Contains(o.source, o.dest)

\* What the plan itself brings about is not there to be preflighted.
Dependent(o) ==
    \/ predicted[o.source].changed
    \/ o.action \in Creating /\ ParentFromPlan(o.source)
    \/ o.action \in Building /\ ParentFromPlan(o.dest)

\* Slip: a new entry leaves the directories above it as they were.
ProducedHere(state, p, kind, valid) ==
    [state EXCEPT ![p] = [kind |-> kind, fromPlan |-> TRUE, changed |-> TRUE,
                          archiveValid |-> valid]]

\* pathState, one effect at a time.
Produced(state, p, kind, valid) ==
    [q \in Paths |->
        IF q = p THEN [kind |-> kind, fromPlan |-> TRUE, changed |-> TRUE,
                       archiveValid |-> valid]
        ELSE [state[q] EXCEPT !.changed = @ \/ Contains(q, p)]]

Removed(state, p) ==
    [q \in Paths |->
        IF q = p THEN [state[q] EXCEPT !.kind = "none", !.fromPlan = FALSE, !.changed = TRUE]
        ELSE IF state[p].kind = "directory" /\ Contains(p, q) THEN Gone
        ELSE [state[q] EXCEPT !.changed = @ \/ Contains(q, p)]]

Mutated(state, p) == [state EXCEPT ![p].changed = TRUE]

\* operationEffects
Effects(state, o) ==
    LET s == state[o.source] IN
    CASE o.action \in {"delete", "deleteTree"} -> Removed(state, o.source)
      [] o.action = "move" ->
            Produced(Removed(state, o.source), o.dest, s.kind, s.archiveValid)
      [] o.action = "copy" -> Produced(state, o.dest, s.kind, s.archiveValid)
      [] o.action = "mkdir" -> Produced(state, o.source, "directory", FALSE)
      [] o.action = "touch" /\ s.kind = "none" -> Produced(state, o.source, "file", FALSE)
      [] o.action = "archive" -> Produced(state, o.dest, "file", TRUE)
      [] o.action = "extract" -> Produced(state, o.dest, "directory", FALSE)
      [] OTHER -> Mutated(state, o.source)

\* Guards are captured from the disk before anything is applied, and a tree
\* is not moved or copied beyond the paths of the instance.
Writable(o) ==
    /\ o.expected => Exists(o.source)
    /\ o.expectedDst = "absent" => ~Exists(o.dest)
    /\ o.expectedDst = "present" => Exists(o.dest)
    /\ o.action \in Building =>
        \A p \in Paths : Contains(o.source, p) => Rebase(p, o.source, o.dest) \in Paths

\* An operation is added if the plan that ends with it would be accepted. The
\* preflight is the same then as after all operations have been looked at.
Accept(o) ==
    /\ phase = "planning" /\ Len(plan) < MaxOps
    /\ Writable(o)
    /\ Acceptable(o)
    /\ Dependent(o) \/ Preflight(o, FALSE)
    /\ plan' = Append(plan, o)
    /\ predicted' = Effects(predicted, o)
    /\ UNCHANGED <<policy, phase, disk, created, at, trees>>

AddInPlace ==
    \E a \in Actions \ Building, p \in Paths, g \in BOOLEAN :
        Accept([action |-> a, source |-> p, dest |-> Nowhere,
                expected |-> g, expectedDst |-> "nil"])

AddBuilding ==
    \E a \in Building, p \in Paths, d \in Paths, g \in BOOLEAN,
       e \in {"nil", "absent", "present"} :
        Accept([action |-> a, source |-> p, dest |-> d, expected |-> g, expectedDst |-> e])

Apply ==
    /\ phase = "planning" /\ plan # <<>>
    /\ phase' = "applying"
    /\ UNCHANGED <<policy, plan, predicted, disk, created, at, trees>>

-----------------------------------------------------------------------------
(***************************************************************************)
(* applyPlan's loop                                                        *)
(***************************************************************************)

op == plan[at]
Unguarded == op.source \in created

\* Adding or removing a child changes the modification time of its directory.
Stirred(d, p) == IF p = Root THEN d ELSE [d EXCEPT ![Parent(p)].dirty = TRUE]

Without(d, p) ==
    Stirred([q \in Paths |-> IF Within(p, q) THEN Nothing ELSE d[q]], p)

\* The tree that objects show at from takes the place of what is at to.
Placed(d, objects, from, to) ==
    Stirred([q \in Paths |->
                IF ~Within(to, q) THEN d[q]
                ELSE LET o == Rebase(q, to, from)
                     IN  IF o \in Paths THEN objects[o] ELSE Nothing], to)

\* A copy has the kinds and the content of what was copied, and no history.
Copies == [q \in Paths |-> [New(disk[q].kind) EXCEPT !.archive = disk[q].archive]]

\* What the operating system refuses after preflight has passed. A failed
\* build puts a displaced destination back.
Performable ==
    /\ op.action = "delete" => \A p \in Paths : Contains(op.source, p) => ~Exists(p)
    /\ op.action = "mkdir" => ~Exists(op.source)
    /\ op.action = "truncate" => ~IsDirectory(op.source)
    /\ op.action \in Building => ~Contains(op.dest, op.source)
    /\ op.action = "move" => ~Contains(op.source, op.dest)

\* Every disk the action may leave behind; an archive may hold anything.
Outcomes ==
    LET put(p, object) == Stirred([disk EXCEPT ![p] = object], p) IN
    CASE op.action \in {"delete", "deleteTree"} -> {Without(disk, op.source)}
      [] op.action = "copy" -> {Placed(disk, Copies, op.source, op.dest)}
      [] op.action = "move" -> {Placed(Without(disk, op.source), disk, op.source, op.dest)}
      [] op.action = "mkdir" -> {put(op.source, New("directory"))}
      [] op.action = "touch" ->
            {IF Exists(op.source) THEN [disk EXCEPT ![op.source].dirty = TRUE]
                                  ELSE put(op.source, New("file"))}
      [] op.action = "truncate" ->
            {[disk EXCEPT ![op.source].dirty = TRUE, ![op.source].archive = FALSE]}
      [] op.action = "chmod" -> {disk}
      [] op.action = "archive" ->
            {[Without(disk, op.dest) EXCEPT ![op.dest] = [New("file") EXCEPT !.archive = TRUE]]}
      [] op.action = "extract" ->
            {[q \in Paths |->
                IF q = op.dest THEN New("directory")
                ELSE IF q \in content THEN New("file")
                ELSE Without(disk, op.dest)[q]] :
                    content \in SUBSET {q \in Paths : q # Root /\ Parent(q) = op.dest}}

Target == IF op.action \in Creating THEN op.source ELSE op.dest

Perform ==
    /\ phase = "applying"
    /\ Preflight(op, Unguarded) /\ Performable
    /\ disk' \in Outcomes
    /\ created' = created \union ({Target} \ {Nowhere})
    /\ trees' = IF op.action \in Building
                    /\ (IsDirectory(op.dest) \/ disk'[op.dest].kind = "directory")
                THEN trees \union {op.dest} ELSE trees
    /\ at' = at + 1
    /\ phase' = IF at = Len(plan) THEN "succeeded" ELSE "applying"
    /\ UNCHANGED <<policy, plan, predicted>>

\* The run stops; the operations before this one have been carried out.
Fail ==
    /\ phase = "applying"
    /\ ~(Preflight(op, Unguarded) /\ Performable)
    /\ phase' = "failed"
    /\ UNCHANGED <<policy, plan, predicted, disk, created, at, trees>>

Terminated == phase \in {"succeeded", "failed"} /\ UNCHANGED vars

Next == AddInPlace \/ AddBuilding \/ Apply \/ Perform \/ Fail \/ Terminated

Spec == Init /\ [][Next]_vars

-----------------------------------------------------------------------------
\* Types, and the disk is a tree.
TypeOK ==
    /\ policy \in {"fail", "overwrite"}
    /\ phase \in {"planning", "applying", "succeeded", "failed"}
    /\ plan \in Seq(Operation)
    /\ predicted \in [Paths -> PathState]
    /\ disk \in [Paths -> Object]
    /\ \A p \in Paths \ {Root} : Exists(p) => IsDirectory(Parent(p))
    /\ created \subseteq Paths /\ trees \subseteq created
    /\ at \in 1..(Len(plan) + 1)

\* The validator knows nothing of the contents of a tree the plan placed, and
\* takes those of a directory the plan replaced to be still there.
Unknown(p) == \E t \in trees : Contains(t, p)

\* Why an accepted operation may yet fail with nobody else about.
Blind(o) ==
    \/ Unknown(o.source) \/ Unknown(o.dest)
    \/ Contains(o.dest, o.source)
    \/ o.action = "delete" /\ \E p \in Paths : Contains(o.source, p) /\ Exists(p)
    \/ o.action = "truncate" /\ IsDirectory(o.source)
    \/ o.action = "extract" /\ ~disk[o.source].archive

\* An accepted plan runs to its end, but for an operation inside a tree that
\* the plan placed or replaced, a destination that holds its own source, a
\* delete of a directory that is not empty, a truncate of a directory, and an
\* extraction whose archive was not validated, or was truncated after it was
\* made.
FailuresAreKnown == phase = "failed" => Blind(op)

\* Where the plan placed no tree, the disk it leaves is the one predicted.
PredictionHolds ==
    phase = "succeeded" =>
        \A p \in Paths : Unknown(p) \/ predicted[p].kind = disk[p].kind

\* What the validator accepts does on the disk, which stays a tree, what it
\* predicted (prevalidatePlan, plan_validate.go:92): the plan fails only for the
\* known reasons, and leaves what was foreseen.
AcceptedPlansRun == TypeOK /\ FailuresAreKnown /\ PredictionHolds

\* An object that stood there before the plan is changed or removed only by an
\* operation that guards it, or a directory above it, or that acts on what the
\* plan produced.
Altered(p) ==
    /\ Exists(p) /\ disk[p].origin # Nowhere
    /\ \/ disk'[p].origin # disk[p].origin
       \/ op.action # "chmod" /\ p = op.source /\ disk'[p].dirty # disk[p].dirty

ReviewedOnly ==
    [][phase = "applying" =>
        \A p \in Paths : Altered(p) =>
            \/ (op.expected \/ op.source \in created) /\ Within(op.source, p)
            \/ op.expectedDst = "present" /\ Within(op.dest, p)]_vars

\* plan-format.md: a guard that an earlier operation makes stale is rejected.
GuardsStayFresh ==
    phase \in {"applying", "failed"} => SourceGuardHolds(op) /\ DestGuardHolds(op)
=============================================================================
