------------------------------- MODULE Queue -------------------------------
(***************************************************************************)
(* The operations queued in the interactive session before they are        *)
(* applied (internal/tui/management.go, product.go).  A path is the        *)
(* sequence of the names below the scan's root; spelling, case and names   *)
(* outside the root are left out.  An operation is a record: its id, its   *)
(* action, source and dest (NoPath unless it copies or moves), whether it  *)
(* is recursive, and linked, whether the source had several names.         *)
(***************************************************************************)
EXTENDS Scope, FiniteSets, FiniteSetsExt

NoPath == <<0>>

\* The k-th of some positions, and the operations of q at them, in their order.
Nth(keep, k) == CHOOSE i \in keep : Cardinality({j \in keep : j < i}) = k - 1
AtPositions(q, keep) == [k \in 1..Cardinality(keep) |-> q[Nth(keep, k)]]

SameOperation(a, b) ==
    a.action = b.action /\ a.source = b.source /\ a.dest = b.dest

\* normalizeAndValidateQueue: a repetition is dropped, and a deletion that a
\* recursive one of the queue contains, in whatever order they were staged.
Distinct(q) ==
    AtPositions(q, {i \in DOMAIN q : \A j \in 1..(i - 1) : ~SameOperation(q[i], q[j])})

Nested(q, i) ==
    /\ q[i].action = "delete"
    /\ \E j \in DOMAIN q :
          q[j].action = "delete" /\ q[j].recursive /\ IsStrictPrefix(q[j].source, q[i].source)

Collapsed(q) ==
    LET once == Distinct(q) IN AtPositions(once, {i \in DOMAIN once : ~Nested(once, i)})

\* queuedOperationTarget
TargetOf(op) ==
    IF op.dest # NoPath THEN op.dest ELSE IF op.action = "mkdir" THEN op.source ELSE NoPath

Takes(op) == op.action \in {"delete", "move"}

SourcesConflict(a, b) ==
    \/ a.source = b.source /\ ~(a.action = "copy" /\ b.action = "copy")
    \/ /\ IsStrictPrefix(a.source, b.source) \/ IsStrictPrefix(b.source, a.source)
       /\ Takes(a) \/ Takes(b)

TargetConflicts(a, b) ==
    /\ TargetOf(a) # NoPath
    /\ \/ TargetOf(a) = TargetOf(b)
       \/ TargetOf(a) = b.source
       \/ b.action = "delete" /\ IsStrictPrefix(b.source, TargetOf(a))

\* Why a queue is refused.
Conflicting(q) ==
    \/ \E i \in DOMAIN q : q[i].source = <<>> /\ Takes(q[i])
    \/ \E i \in DOMAIN q : q[i].dest # NoPath /\ Within(q[i].source, q[i].dest)
    \/ \E i, j \in DOMAIN q :
          i # j /\ (SourcesConflict(q[i], q[j]) \/ TargetConflicts(q[i], q[j]))

\* queueReclaimBytes: what is deleted within another deletion counts once.
\* Sums stay far below the 64 bits at which the code saturates.
Reclaim(q, bytes) ==
    LET sources == {q[i].source : i \in {k \in DOMAIN q : q[k].action = "delete"}}
    IN MapThenSumSet(LAMBDA p : bytes[p], {p \in sources : \A o \in sources : ~IsStrictPrefix(o, p)})

=============================================================================
