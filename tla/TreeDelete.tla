----------------------------- MODULE TreeDelete -----------------------------
(***************************************************************************)
(* Recursive deletion in internal/fsops: removeTreeCancellable walks the   *)
(* tree once, capturing what it finds, and cleanupSourceSnapshot removes   *)
(* the captured objects from the leaves upward, checking the identity of   *)
(* every ancestor and of the object before each removal.  A move across    *)
(* filesystems removes its source by the same routine.  Other processes    *)
(* change the tree all the while.                                          *)
(*                                                                         *)
(* Paths are numbered in the order filepath.WalkDir visits them, the root  *)
(* of the deletion first.  What a path names is a stamp that no two        *)
(* objects, nor two states of one object, share; 0 is no object.  A        *)
(* directory that another process moves away and replaces by a symbolic    *)
(* link gets a new stamp while the paths below still reach the old         *)
(* objects.                                                                *)
(***************************************************************************)
EXTENDS Integers

CONSTANTS
    Last,        \* the paths are 0..Last
    Parent,      \* the directory of each path but the root
    Above,       \* its ancestors
    Dirs,        \* the paths at which there may be directories
    InitialTree, \* the paths at which there is an object at first
    MaxForeign   \* bound: changes made by other processes

Node == 0..Last

ASSUME LastAssumption == Last \in Nat
ASSUME ParentAssumption ==
    /\ Parent \in [Node -> Node] /\ Parent[0] = 0
    /\ \A n \in Node \ {0} : Parent[n] < n
    /\ \A n \in Node \ {0} : Parent[n] \in Dirs
ASSUME AboveAssumption ==
    /\ Above \in [Node -> SUBSET Node] /\ Above[0] = {}
    /\ \A n \in Node \ {0} : Above[n] = {Parent[n]} \union Above[Parent[n]]
ASSUME TreeAssumption ==
    /\ InitialTree \subseteq Node /\ Dirs \subseteq Node
    /\ \A n \in InitialTree : Parent[n] \in InitialTree
ASSUME ForeignAssumption == MaxForeign \in Nat

VARIABLES
    tree,      \* the stamp at each path
    clock,     \* the last stamp given
    step,      \* the next step of the deletion
    listed,    \* paths the walk has listed and not yet visited
    captured,  \* the snapshot: the stamp inspected at each path, 0 if none
    left,      \* captured paths that have not been removed yet
    item,      \* the path being visited, or being removed
    ancestor,  \* the ancestor of item to be checked next
    removed,   \* the count cleanupSourceSnapshot returns
    failed,    \* an error was returned
    (*********************************************************************)
    (* History, read by the properties alone.                            *)
    (*********************************************************************)
    checked,   \* paths found unchanged for the removal of item
    touched,   \* those of them that changed again before the removal
    gone       \* stamps of the objects the deletion unlinked

deleteVars == <<tree, clock, step, listed, captured, left, item, ancestor, removed, failed,
          checked, touched, gone>>
snapshot == <<listed, captured>>
history == <<checked, touched, gone>>

Steps == {"visit", "list", "item", "ancestor", "inspect", "remove", "done"}
Children(n) == {c \in Node \ {0} : Parent[c] = n}

DeleteInit ==
    /\ tree = [n \in Node |-> IF n \in InitialTree THEN n + 1 ELSE 0]
    /\ clock = Last + 1
    /\ step = "visit"
    /\ listed = {0}
    /\ captured = [n \in Node |-> 0]
    /\ left = {}
    /\ item = 0 /\ ancestor = 0
    /\ removed = 0 /\ failed = FALSE
    /\ checked = {} /\ touched = {} /\ gone = {}

-----------------------------------------------------------------------------
(***************************************************************************)
(* captureSourceSnapshot                                                   *)
(***************************************************************************)

\* Inspect the next path of the walk.
Visit ==
    /\ step = "visit"
    /\ \E n \in listed :
        /\ \A m \in listed : n <= m
        /\ tree[n] # 0
        /\ captured' = [captured EXCEPT ![n] = tree[n]]
        /\ left' = left \union {n}
        /\ listed' = listed \ {n}
        /\ item' = n
        /\ step' = IF n \in Dirs THEN "list" ELSE "visit"
    /\ UNCHANGED <<tree, clock, ancestor, removed, failed>> /\ UNCHANGED history

\* Read the directory; a symbolic link put in its place is followed.
List ==
    /\ step = "list"
    /\ listed' = listed \union {c \in Children(item) : tree[c] # 0}
    /\ step' = "visit"
    /\ UNCHANGED <<tree, clock, captured, left, item, ancestor, removed, failed>>
    /\ UNCHANGED history

Captured ==
    /\ step = "visit" /\ listed = {}
    /\ step' = "item"
    /\ UNCHANGED <<tree, clock, left, item, ancestor, removed, failed>>
    /\ UNCHANGED snapshot /\ UNCHANGED history

-----------------------------------------------------------------------------
(***************************************************************************)
(* cleanupSourceSnapshot                                                   *)
(***************************************************************************)

\* The last captured path first. The root is its own ancestor.
NextItem ==
    /\ step = "item"
    /\ \E n \in left :
        /\ \A m \in left : m <= n
        /\ item' = n
        /\ ancestor' = Parent[n]
    /\ step' = "ancestor"
    /\ checked' = {} /\ touched' = {}
    /\ UNCHANGED <<tree, clock, left, removed, failed, gone>> /\ UNCHANGED snapshot

\* Slip: the ancestors are taken for granted.
SkipAncestors ==
    /\ step = "ancestor"
    /\ step' = "inspect"
    /\ UNCHANGED <<tree, clock, left, item, ancestor, removed, failed, checked, touched, gone>>
    /\ UNCHANGED snapshot

\* Slip: the walk up the ancestors never arrives.
CheckSameAncestor ==
    /\ step = "ancestor"
    /\ captured[ancestor] # 0 /\ tree[ancestor] = captured[ancestor]
    /\ checked' = checked \union {ancestor}
    /\ UNCHANGED <<tree, clock, step, left, item, ancestor, removed, failed, touched, gone>>
    /\ UNCHANGED snapshot

\* validateSourceAncestors: from the parent up to the root.
CheckAncestor ==
    /\ step = "ancestor"
    /\ captured[ancestor] # 0 /\ tree[ancestor] = captured[ancestor]
    /\ checked' = checked \union {ancestor}
    /\ ancestor' = Parent[ancestor]
    /\ step' = IF ancestor = 0 THEN "inspect" ELSE "ancestor"
    /\ UNCHANGED <<tree, clock, left, item, removed, failed, touched, gone>>
    /\ UNCHANGED snapshot

InspectItem ==
    /\ step = "inspect"
    /\ tree[item] = captured[item]
    /\ checked' = checked \union {item}
    /\ step' = "remove"
    /\ UNCHANGED <<tree, clock, left, item, ancestor, removed, failed, touched, gone>>
    /\ UNCHANGED snapshot

\* unlink or rmdir: a directory that is not empty stays.
Removable(n) == tree[n] # 0 /\ \A c \in Children(n) : tree[c] = 0

RemoveItem ==
    /\ step = "remove"
    /\ Removable(item)
    /\ tree' = [tree EXCEPT ![item] = 0]
    /\ gone' = gone \union {tree[item]}
    /\ left' = left \ {item}
    /\ removed' = removed + 1
    /\ step' = "item"
    /\ UNCHANGED <<clock, item, ancestor, failed, checked, touched>> /\ UNCHANGED snapshot

Finish ==
    /\ step = "item" /\ left = {}
    /\ step' = "done"
    /\ UNCHANGED <<tree, clock, left, item, ancestor, removed, failed>>
    /\ UNCHANGED snapshot /\ UNCHANGED history

\* What the deletion needs is not, or no longer, as it was captured.
CheckFails ==
    \/ step = "visit" /\ \E n \in listed : tree[n] = 0 /\ \A m \in listed : n <= m
    \/ step = "ancestor" /\ ~(captured[ancestor] # 0 /\ tree[ancestor] = captured[ancestor])
    \/ step = "inspect" /\ tree[item] # captured[item]
    \/ step = "remove" /\ ~Removable(item)

\* An error stops the deletion where it is.
Stop ==
    /\ failed' = TRUE
    /\ step' = "done"
    /\ UNCHANGED <<tree, clock, left, item, ancestor, removed>>
    /\ UNCHANGED snapshot /\ UNCHANGED history

Refuse == CheckFails /\ Stop

\* A cancellation or an I/O error may come at any step, or never.
Interrupt == step # "done" /\ Stop

\* Slip: a failure is partial only when the last object was reached.
StatusByRoot ==
    CASE step # "done" -> "running"
      [] step = "done" /\ ~failed -> "ok"
      [] step = "done" /\ failed /\ removed > 0 /\ item = 0 -> "partial"
      [] OTHER -> "error"

\* The status applyPlan derives from what removeTreeCancellable returns.
Status ==
    CASE step # "done" -> "running"
      [] step = "done" /\ ~failed -> "ok"
      [] step = "done" /\ failed /\ removed > 0 -> "partial"
      [] OTHER -> "error"

-----------------------------------------------------------------------------
(***************************************************************************)
(* Other processes                                                         *)
(***************************************************************************)

Below(n) == {m \in Node : n \in Above[m]}

\* A change of these paths that gives the first of them a new object.
Disturb(n, paths, newTree) ==
    /\ step # "done"
    /\ clock < Last + 1 + MaxForeign
    /\ clock' = clock + 1
    /\ tree' = newTree
    /\ touched' = touched \union (checked \intersect ({n} \union paths))
    /\ UNCHANGED <<step, listed, captured, left, item, ancestor, removed, failed,
                   checked, gone>>

\* An object appears in an existing directory.
ForeignAdd ==
    \E n \in Node \ {0} :
        /\ tree[n] = 0 /\ tree[Parent[n]] # 0
        /\ Disturb(n, {}, [tree EXCEPT ![n] = clock + 1])

\* An edit, a replacement, or a directory relocated behind a symbolic link.
ForeignChange ==
    \E n \in Node :
        /\ tree[n] # 0
        /\ Disturb(n, {}, [tree EXCEPT ![n] = clock + 1])

\* Another, empty, directory takes the place of one.
ForeignSwap ==
    \E n \in Dirs :
        /\ tree[n] # 0
        /\ Disturb(n, Below(n), [m \in Node |-> IF m = n THEN clock + 1
                                                ELSE IF m \in Below(n) THEN 0
                                                ELSE tree[m]])

ForeignRemove ==
    \E n \in Node :
        /\ tree[n] # 0 /\ \A c \in Children(n) : tree[c] = 0
        /\ Disturb(n, {}, [tree EXCEPT ![n] = 0])

-----------------------------------------------------------------------------
Delete ==
    \/ Visit \/ List \/ Captured
    \/ NextItem \/ CheckAncestor \/ InspectItem \/ RemoveItem \/ Finish \/ Refuse

Others == ForeignAdd \/ ForeignChange \/ ForeignSwap \/ ForeignRemove

DeleteOver == step = "done" /\ UNCHANGED deleteVars

DeleteNext == Delete \/ Interrupt \/ Others \/ DeleteOver

DeleteSpec == DeleteInit /\ [][DeleteNext]_deleteVars

\* A goroutine that can run does run; nothing interrupts it by necessity.
FairSpec == DeleteSpec /\ WF_deleteVars(Delete)

-----------------------------------------------------------------------------
DeleteTypeOK ==
    /\ tree \in [Node -> Nat] /\ captured \in [Node -> Nat]
    /\ clock \in Nat
    /\ step \in Steps
    /\ listed \subseteq Node /\ left \subseteq Node
    /\ item \in Node /\ ancestor \in Node
    /\ removed \in Nat /\ failed \in BOOLEAN
    /\ checked \subseteq Node /\ touched \subseteq checked
    /\ gone \subseteq Nat

\* Every removal takes the captured object, reached through the captured
\* directories, unless one of them changed after it was checked for this very
\* removal.  So nothing that was added or edited meanwhile is taken, and
\* nothing outside the tree through a link put in a directory's place.
RemovesCapturedOnly ==
    [][removed' # removed =>
        \A n \in {item} \union Above[item] :
            n \in touched \/ tree[n] = captured[n]]_deleteVars

\* The result tells the truth: "error" left every object in place, "partial"
\* did not, and after "ok" no captured object is left.
OutcomeIsTrue ==
    /\ Status = "error" => gone = {}
    /\ Status = "partial" => gone # {}
    /\ Status = "ok" => \A n \in Node : captured[n] # 0 => tree[n] # captured[n]

\* The deletion comes to an end.
Ends == <>(step = "done")
=============================================================================
