------------------------------ MODULE IndexStore ------------------------------
(***************************************************************************)
(* The store of cached scans (internal/index/store.go), once it is owned:  *)
(* saves with their retention, and prune, clear and invalidate, by several *)
(* processes that exclude each other with the lock of the store.  A scan   *)
(* is kept under a name of its root and fingerprint; names are numbers, in *)
(* the order in which an inventory lists them.  How a directory becomes an *)
(* owned store is StoreRoot's subject, and so is its lock.                 *)
(***************************************************************************)
EXTENDS Integers, Sequences, SequencesExt, FiniteSets, FiniteSetsExt, Functions

CONSTANTS
    Procs,
    RootOf,        \* of a name a scan may have, the root: in the order of roots
    TempOf,        \* the temporary name of a process
    ForeignNames,  \* names the store does not use
    MaxBytes, MaxAge,
    Contents,      \* what the store may hold at the beginning
    Incoming,      \* what may be saved, with its name, time and size
    MaxClock, MaxMishaps   \* bounds: the clock, and failures and crashes

ScanNames == DOMAIN RootOf
EntryNames == ScanNames \cup {TempOf[p] : p \in Procs} \cup ForeignNames

Nobody == "nobody"
Absent == [kind |-> "absent", time |-> 0, size |-> 0]

\* What a name may hold: a scan that can be read or not, a temporary file, or
\* what is not the store's.
Holdable(n) ==
    [kind : {"absent"} \cup
            IF n \in ScanNames THEN {"snapshot", "broken"}
            ELSE IF n \in ForeignNames THEN {"foreign"} ELSE {"temp"},
     time : Int, size : Nat]

ASSUME IndexAssumption ==
    /\ Nobody \notin Procs
    /\ IsFiniteSet(Procs) /\ IsFiniteSet(ScanNames) /\ IsFiniteSet(ForeignNames)
    /\ EntryNames \subseteq Int /\ \A n \in ScanNames : RootOf[n] \in Int
    /\ IsInjective(TempOf) /\ DOMAIN TempOf = Procs
    /\ ScanNames \cap {TempOf[p] : p \in Procs} = {} /\ ForeignNames \cap (ScanNames \cup Range(TempOf)) = {}
    /\ MaxBytes \in Nat /\ MaxAge \in Nat /\ MaxClock \in Nat /\ MaxMishaps \in Nat
    /\ \A c \in Contents : DOMAIN c = EntryNames /\ \A n \in EntryNames : c[n] \in Holdable(n)
    \* SaveContext checks the size against the quota.
    /\ \A i \in Incoming : i.name \in ScanNames /\ i.time \in Int /\ i.size \in 1..MaxBytes

VARIABLES
    entry,     \* what each name holds
    clock,
    holder,    \* the process that has the lock, or Nobody
    proc,      \* the call each process makes
    mishaps

indexVars == <<entry, clock, holder, proc, mishaps>>

NoCall == [pc |-> "idle", op |-> "none", incoming |-> Absent, listed |-> <<>>,
           plan |-> <<>>, planned |-> 0, actions |-> <<>>, canceled |-> FALSE, result |-> "none"]

Mishap == mishaps < MaxMishaps /\ mishaps' = mishaps + 1
At(p, pc) == proc[p].pc = pc
Goes(p, pc) == proc' = [proc EXCEPT ![p].pc = pc]

\* A call returns, and with it goes the lock.
Returns(p, result, actions) ==
    /\ proc' = [proc EXCEPT ![p].pc = "over", ![p].result = result, ![p].actions = actions]
    /\ holder' = IF holder = p THEN Nobody ELSE holder

-----------------------------------------------------------------------------
(* prunePlan *)

\* What the store may remove: its own names.
Removable(listed) == {n \in EntryNames \ ForeignNames : listed[n].kind # "absent"}
ValidIn(listed, n) == listed[n].kind = "snapshot"
Expired(listed, n, now) == listed[n].time < now - MaxAge

SizeOfAll(listed, names) == MapThenSumSet(LAMBDA n : listed[n].size, names)

\* Newer first, and by name among equals.
Newer(listed, m, n) ==
    \/ listed[m].time > listed[n].time
    \/ listed[m].time = listed[n].time /\ m < n

\* The scans retention lets stay, and of those the newest of each root.
Retained(listed, mine, now) ==
    {n \in Removable(listed) : n \in mine \/ (ValidIn(listed, n) /\ ~Expired(listed, n, now))}
NewestOfRoots(listed, names) ==
    {n \in names : \A m \in names : RootOf[m] = RootOf[n] => m = n \/ Newer(listed, n, m)}

\* Of some names, the last in the order of roots and in that of age.
LastRoot(s) == CHOOSE n \in s : \A m \in s : RootOf[m] <= RootOf[n]
Oldest(listed, s) == CHOOSE n \in s : \A m \in s : m = n \/ Newer(listed, m, n)

\* A scan is kept beside others if the budget still has room for it, and so is
\* each of some names in its turn: "last" is the last of a part of them.
KeptBeside(listed, kept, n) ==
    IF SizeOfAll(listed, kept \cup {n}) <= MaxBytes THEN kept \cup {n} ELSE kept
KeptInTurn(listed, first, last, names) ==
    LET kept[s \in SUBSET names] ==
            IF s = {} THEN first ELSE KeptBeside(listed, kept[s \ {last[s]}], last[s])
    IN kept[names]

ByRoot(names) == [s \in SUBSET names |-> LastRoot(s)]
ByAge(listed, names) == [s \in SUBSET names |-> Oldest(listed, s)]

\* Slip: the budget goes to the scans from new to old, whatever their roots.
KeptByAge(listed, mine, now) ==
    LET all == Retained(listed, mine, now) IN KeptInTurn(listed, mine, ByAge(listed, all), all)

\* What is kept within the budget: the scan just saved, then the newest of
\* each root in the order of roots, then the others from new to old.
Kept(listed, mine, now) ==
    LET all == Retained(listed, mine, now)
        newest == NewestOfRoots(listed, all)
    IN KeptInTurn(listed, KeptInTurn(listed, mine, ByRoot(newest), newest),
                  ByAge(listed, all), all)

PrunePlan(listed, mine, now) ==
    [n \in Removable(listed) \ Kept(listed, mine, now) |->
        IF ~ValidIn(listed, n) THEN "invalid"
        ELSE IF Expired(listed, n, now) THEN "ttl" ELSE "quota"]

ClearPlan(listed) == [n \in Removable(listed) |-> "clear"]
InvalidatePlan(listed) ==
    [n \in {x \in Removable(listed) : ~ValidIn(listed, x)} |-> "invalidate"]

\* The plans of prune and of a save, of clear and of invalidate.
PlanOf(call, listed, now) ==
    CASE call.op = "clear" -> ClearPlan(listed)
      [] call.op = "invalidate" -> InvalidatePlan(listed)
      [] OTHER -> PrunePlan(listed, IF call.op = "save" THEN {call.incoming.name} ELSE {}, now)

-----------------------------------------------------------------------------
(* A call. *)

\* SaveContext's checks come before the lock; a dry run takes no lock.
Call(p) ==
    /\ At(p, "idle")
    /\ \E op \in {"save", "prune", "clear", "invalidate", "dry run"} :
          IF op = "save"
          THEN \E i \in Incoming :
                  /\ i.time <= clock /\ i.time >= clock - MaxAge
                  /\ proc' = [proc EXCEPT ![p].pc = "lock", ![p].op = op, ![p].incoming = i]
          ELSE proc' = [proc EXCEPT ![p].pc = IF op = "dry run" THEN "list" ELSE "lock",
                                    ![p].op = op]
    /\ UNCHANGED <<entry, clock, holder, mishaps>>

\* Slip: the lock is taken whoever has it.
LockAnyway(p) ==
    /\ At(p, "lock") /\ UNCHANGED <<entry, clock, mishaps>>
    /\ \/ /\ ~proc[p].canceled
          /\ holder' = p
          /\ Goes(p, IF proc[p].op = "save" THEN "write" ELSE "list")
       \/ proc[p].canceled /\ Returns(p, "error", <<>>)

Lock(p) ==
    /\ At(p, "lock") /\ UNCHANGED <<entry, clock, mishaps>>
    /\ \/ /\ holder = Nobody /\ ~proc[p].canceled
          /\ holder' = p
          /\ Goes(p, IF proc[p].op = "save" THEN "write" ELSE "list")
       \/ proc[p].canceled /\ Returns(p, "error", <<>>)

\* AtomicWriteContext: a temporary file, then one rename.  A failure removes
\* the temporary file; the one after the rename does not undo it.
WriteTemp(p) ==
    /\ At(p, "write") /\ UNCHANGED clock
    /\ \/ /\ ~proc[p].canceled
          /\ entry' = [entry EXCEPT ![TempOf[p]] = [kind |-> "temp", time |-> clock, size |-> 1]]
          /\ Goes(p, "publish")
          /\ UNCHANGED <<holder, mishaps>>
       \/ proc[p].canceled /\ Returns(p, "error", <<>>) /\ UNCHANGED <<entry, mishaps>>
       \/ Mishap /\ Returns(p, "error", <<>>) /\ UNCHANGED entry

Published(p) ==
    LET i == proc[p].incoming IN
    [entry EXCEPT ![TempOf[p]] = Absent,
                  ![i.name] = [kind |-> "snapshot", time |-> i.time, size |-> i.size]]

\* Slip: the retention goes on although the scan is not in its place.
PublishLast(p) ==
    /\ At(p, "publish") /\ UNCHANGED <<clock, holder, mishaps>>
    /\ Goes(p, "list")
    /\ entry' = entry

Publish(p) ==
    /\ At(p, "publish") /\ UNCHANGED clock
    /\ \/ /\ ~proc[p].canceled
          /\ entry' = Published(p) /\ Goes(p, "list")
          /\ UNCHANGED <<holder, mishaps>>
       \/ /\ proc[p].canceled
          /\ entry' = [entry EXCEPT ![TempOf[p]] = Absent]
          /\ Returns(p, "error", <<>>)
          /\ UNCHANGED mishaps
       \/ /\ Mishap
          /\ entry' \in {Published(p), [entry EXCEPT ![TempOf[p]] = Absent]}
          /\ Returns(p, "error", <<>>)

\* What a dry run reports: the plan in the order of the inventory.
InOrder(plan) == SetToSortSeq(DOMAIN plan, <)
Proposed(plan) ==
    [k \in 1..Cardinality(DOMAIN plan) |->
        [name |-> InOrder(plan)[k], removed |-> FALSE, maybe |-> FALSE]]

\* listRoot, and the plan for what it found; a scan that cannot be read now
\* counts as invalid.
Inventory(p) ==
    /\ At(p, "list") /\ UNCHANGED <<entry, clock>>
    /\ \/ proc[p].canceled /\ Returns(p, "error", <<>>) /\ UNCHANGED mishaps
       \/ \E unread \in {{}} \cup {{n} : n \in {k \in ScanNames : ValidIn(entry, k)}} :
             LET listed == [n \in EntryNames |->
                              IF n \in unread THEN [entry[n] EXCEPT !.kind = "broken"] ELSE entry[n]]
                 plan == PlanOf(proc[p], listed, clock)
             IN
             /\ ~proc[p].canceled
             /\ IF unread = {} THEN UNCHANGED mishaps ELSE Mishap
             /\ IF proc[p].op = "dry run"
                THEN Returns(p, "ok", Proposed(plan))
                ELSE /\ proc' = [proc EXCEPT ![p].pc = "remove", ![p].listed = listed,
                                             ![p].plan = plan, ![p].planned = clock]
                     /\ UNCHANGED holder

Acted(p) == {proc[p].actions[k].name : k \in DOMAIN proc[p].actions}
NextRemoval(p) == Min(DOMAIN proc[p].plan \ Acted(p))
WithAction(p, removed, maybe) ==
    Append(proc[p].actions, [name |-> NextRemoval(p), removed |-> removed, maybe |-> maybe])

\* Slip: what an error has removed all the same is reported as left.
RemoveOneBlindly(p) ==
    /\ At(p, "remove") /\ Acted(p) # DOMAIN proc[p].plan /\ UNCHANGED clock
    /\ \/ /\ entry' = [entry EXCEPT ![NextRemoval(p)] = Absent]
          /\ proc' = [proc EXCEPT ![p].actions = WithAction(p, TRUE, FALSE)]
          /\ UNCHANGED <<holder, mishaps>>
       \/ /\ Mishap
          /\ entry' \in {entry, [entry EXCEPT ![NextRemoval(p)] = Absent]}
          /\ Returns(p, "error", WithAction(p, FALSE, FALSE))

\* applyRemovals: in the order of the inventory, up to the first error.
RemoveOne(p) ==
    /\ At(p, "remove") /\ Acted(p) # DOMAIN proc[p].plan /\ UNCHANGED clock
    /\ \/ /\ ~proc[p].canceled
          /\ entry' = [entry EXCEPT ![NextRemoval(p)] = Absent]
          /\ proc' = [proc EXCEPT ![p].actions = WithAction(p, TRUE, FALSE)]
          /\ UNCHANGED <<holder, mishaps>>
       \/ /\ proc[p].canceled
          /\ Returns(p, "error", proc[p].actions)
          /\ UNCHANGED <<entry, mishaps>>
       \/ /\ ~proc[p].canceled /\ Mishap
          /\ \/ /\ entry' = [entry EXCEPT ![NextRemoval(p)] = Absent]
                /\ Returns(p, "error", WithAction(p, TRUE, FALSE))
             \/ /\ UNCHANGED entry
                /\ Returns(p, "error", WithAction(p, FALSE, TRUE))

\* A save looks once more for what it has published.  A call that is canceled
\* after its last removal may still notice.
Finish(p) ==
    /\ At(p, "remove") /\ Acted(p) = DOMAIN proc[p].plan
    /\ \E result \in IF proc[p].canceled THEN {"ok", "error"} ELSE {"ok"} :
          Returns(p, IF proc[p].op = "save" /\ entry[proc[p].incoming.name].kind = "absent"
                     THEN "error" ELSE result, proc[p].actions)
    /\ UNCHANGED <<entry, clock, mishaps>>

CancelCall(p) ==
    /\ proc[p].pc \notin {"idle", "over", "dead"} /\ ~proc[p].canceled /\ Mishap
    /\ proc' = [proc EXCEPT ![p].canceled = TRUE]
    /\ UNCHANGED <<entry, clock, holder>>

\* The process dies where it is, and the system releases its lock.
Dies(p) ==
    /\ proc[p].pc \notin {"idle", "over", "dead"} /\ Mishap
    /\ Goes(p, "dead")
    /\ holder' = IF holder = p THEN Nobody ELSE holder
    /\ UNCHANGED <<entry, clock>>

Tick == clock < MaxClock /\ clock' = clock + 1 /\ UNCHANGED <<entry, holder, proc, mishaps>>

IndexInit ==
    /\ entry \in Contents
    /\ clock = 0 /\ holder = Nobody /\ mishaps = 0
    /\ proc = [p \in Procs |-> NoCall]

IndexNext ==
    \/ Tick
    \/ \E p \in Procs :
          \/ Call(p) \/ Lock(p) \/ WriteTemp(p) \/ Publish(p) \/ Inventory(p)
          \/ RemoveOne(p) \/ Finish(p) \/ CancelCall(p) \/ Dies(p)

IndexRests == (\A p \in Procs : proc[p].pc \in {"over", "dead"}) /\ UNCHANGED indexVars

IndexSpec == IndexInit /\ [][IndexNext \/ IndexRests]_indexVars

-----------------------------------------------------------------------------

IndexTypeOK ==
    /\ DOMAIN entry = EntryNames
    /\ \A n \in EntryNames : entry[n] \in Holdable(n)
    /\ clock \in 0..MaxClock /\ mishaps \in 0..MaxMishaps
    /\ holder \in Procs \cup {Nobody}
    /\ \A p \in Procs :
        /\ proc[p].pc \in {"idle", "lock", "write", "publish", "list", "remove", "over", "dead"}
        /\ proc[p].op \in {"none", "save", "prune", "clear", "invalidate", "dry run"}
        /\ proc[p].result \in {"none", "ok", "error"}
        /\ proc[p].pc \in {"write", "publish", "remove"} => holder = p

ReturnsNow(p) == proc[p].pc # "over" /\ proc'[p].pc = "over"
Scans == {n \in ScanNames : entry[n].kind = "snapshot"}
ScansThen == {n \in ScanNames : entry'[n].kind = "snapshot"}

\* When a save or a prune has succeeded, the store is within its budget and
\* holds nothing broken or, but for the scan just saved, expired; that scan is
\* there; nothing that could have been read and still fits was given up; and
\* the newest scan of every root, the first by name among equals, is kept when
\* the newest of all of them fit beside the scan just saved.
RetentionHolds ==
    [][\A p \in Procs :
        LET call == proc[p]
            mine == IF call.op = "save" THEN {call.incoming.name} ELSE {}
            fresh == {n \in ScanNames :
                        n \in mine \/ (ValidIn(call.listed, n)
                                      /\ ~Expired(call.listed, n, call.planned))}
            newest == {n \in fresh : \A m \in fresh :
                            RootOf[m] = RootOf[n] => m = n \/ Newer(call.listed, n, m)}
        IN
        ReturnsNow(p) /\ proc'[p].result = "ok" /\ call.op \in {"save", "prune"} =>
            /\ mine \subseteq ScansThen
            /\ SizeOfAll(entry', ScansThen) <= MaxBytes
            /\ \A n \in EntryNames : entry'[n].kind \notin {"broken", "temp"}
            /\ \A n \in ScansThen \ mine : n \in fresh
            /\ \A n \in fresh \ ScansThen :
                  call.listed[n].size + SizeOfAll(entry', ScansThen) > MaxBytes
            /\ SizeOfAll(call.listed, newest \cup mine) <= MaxBytes => newest \subseteq ScansThen]_indexVars

\* What a lifecycle command reports is what has happened to the store: a
\* removed entry is gone, one that may have been touched is named, everything
\* else is as it was, and success leaves nothing of the plan.
ActionsAreTrue ==
    [][\A p \in Procs :
        LET call == proc'[p]
            told == ToSet(call.actions)
            named == {a.name : a \in told}
        IN
        /\ ReturnsNow(p) /\ call.op = "dry run" => entry' = entry /\ \A a \in told : ~a.removed
        /\ ReturnsNow(p) /\ At(p, "remove") =>
            /\ \A a \in told : a.removed => entry'[a.name] = Absent
            /\ \A a \in told : ~a.removed => a.maybe /\ call.result = "error"
            /\ \A n \in EntryNames \ named :
                  entry'[n].kind = "absent" <=> call.listed[n].kind = "absent"
            /\ call.result = "ok" => named = DOMAIN call.plan]_indexVars

\* A save takes nothing from the store before its scan is in place, and no
\* call ever touches what is not the store's, whatever fails or dies.
SavePublishesFirst ==
    [][/\ \A n \in ForeignNames : entry'[n] = entry[n]
       /\ \A p \in Procs :
            holder = p /\ proc[p].op = "save" =>
                \A n \in ScanNames : entry'[n] # entry[n] =>
                    LET i == proc[p].incoming IN
                    /\ entry'[i.name] = [kind |-> "snapshot", time |-> i.time, size |-> i.size]
                    /\ n # i.name => entry[i.name] = entry'[i.name]]_indexVars

=============================================================================
