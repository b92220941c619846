---------------------------- MODULE HistoryStore ----------------------------
(***************************************************************************)
(* The history store (internal/history): recording under a quota, pruning, *)
(* clearing, and MigrateTo, which moves the records of a legacy store to   *)
(* the current one.  Steps are what the locks make atomic: an inventory    *)
(* with its decision, a publication, one removal.  Two processes, a clock  *)
(* that ticks and may be set back, and calls that fail at any step.        *)
(*                                                                         *)
(* A record is named by its key (the scan's root and fingerprint) and the  *)
(* time of its scan; two different records of one name differ in size, the *)
(* one thing about their bytes that matters.  Time 0 is the name of a      *)
(* temporary.  Locks and atomic publication are those of StoreRoot.        *)
(***************************************************************************)
EXTENDS Integers, FiniteSets, FiniteSetsExt

CONSTANTS
    Procs,          \* processes
    NumKeys,        \* key directories, numbered in the order of their names
    MaxTime,        \* bound: the latest reading of the clock
    Sizes,          \* sizes of a record
    MaxBytes,       \* policy.MaxBytes
    MaxAge,         \* policy.MaxAge
    MaxRecords,     \* maxRecords, per key
    Legacy,         \* contents the legacy store may begin with
    Current,        \* contents the current store may begin with
    FirstTime,      \* the clock at the beginning
    MaxOps,         \* bound: operations begun
    MaxMishaps      \* bound: failures and corrections of the clock

ASSUME PolicyAssumption ==
    /\ MaxBytes \in Nat /\ MaxAge \in Nat /\ MaxRecords \in Nat \ {0}
    /\ MaxTime \in Nat /\ FirstTime \in 1..MaxTime
    /\ MaxOps \in Nat /\ MaxMishaps \in Nat
ASSUME NamesAssumption == NumKeys \in Nat /\ Sizes \subseteq Nat \ {0}

Nothing == 0       \* no entry
Broken == -1       \* ours, but not a valid record: damaged, obsolete, temporary
Foreign == -2      \* unsafe: not for us to touch
Keys == 1..NumKeys
Ids == Keys \X (0..MaxTime)
Entries == NumKeys * (MaxTime + 1)
Stores == [Ids -> Sizes \cup {Nothing, Broken, Foreign}]

\* A temporary is no record, even if what is in it could be one.
ASSUME ContentsAssumption ==
    /\ Legacy \subseteq Stores /\ Current \subseteq Stores
    /\ \A store \in Legacy \cup Current, k \in Keys : store[<<k, 0>>] \notin Sizes
ASSUME ProcsAssumption == "nobody" \notin Procs

VARIABLES
    src, dst,    \* the legacy store and the current one
    now,         \* the clock
    srcLock, dstLock,  \* the holder of each store's lock, or "nobody"
    pc,          \* where each process stands
    op,          \* its operation
    item, size,  \* the record it is about to record
    todo,        \* entries of dst it has to remove yet
    batch,       \* records of src it has to migrate yet
    obsolete     \* invalid entries of src it has to remove yet

\* History, for the properties only.
VARIABLES
    ops,         \* operations begun
    mishaps,     \* mishaps so far
    calm,        \* neither clock nor failure has touched this operation
    disturbed,   \* another process has changed dst since the preflight
    sound,       \* the preflight accepted, there was nothing of what it overlooks,
                 \* and the clock has not been set back since
    before,      \* dst as the last decision to remove saw it
    moved,       \* records this migration has taken from src
    excused      \* names whose record dst lost for another reason

disk == <<src, dst>>
locks == <<srcLock, dstLock>>
work == <<op, item, size, todo, batch, obsolete>>
history == <<ops, mishaps, calm, disturbed, sound, before, moved, excused>>
vars == <<disk, now, locks, pc, work, history>>

KeyOf(id) == id[1]
TimeOf(id) == id[2]
NoItem == <<0, 0>>
Ended == {"idle", "ok", "failed"}

-----------------------------------------------------------------------------
(***************************************************************************)
(* Inventory and retention                                                 *)
(***************************************************************************)

\* entry.Safe, and entry.Valid: a record that is not from the future.
Safe(store) == {id \in Ids : store[id] \notin {Nothing, Foreign}}
Valid(store) == {id \in Ids : store[id] \in Sizes /\ TimeOf(id) <= now}
Expired(id) == TimeOf(id) < now - MaxAge
Live(store) == {id \in Valid(store) : ~Expired(id)}
Bytes(store, ids) == MapThenSumSet(LAMBDA id : store[id], ids)

OfKey(ids, k) == {id \in ids : KeyOf(id) = k}
Newer(ids, id) == {i \in ids : KeyOf(i) = KeyOf(id) /\ TimeOf(i) > TimeOf(id)}
NewestPerKey(ids) == {id \in ids : Newer(ids, id) = {}}

\* All names, as the inventory lists them and as the retention ranks them.
ByName ==
    [n \in 1..Entries |-> <<1 + ((n - 1) \div (MaxTime + 1)), (n - 1) % (MaxTime + 1)>>]
NewestFirst ==
    [n \in 1..Entries |-> <<1 + ((n - 1) % NumKeys), MaxTime - ((n - 1) \div NumKeys)>>]
FirstOf(ids) == ByName[Min({n \in 1..Entries : ByName[n] \in ids})]

\* One after another, whoever fits beside those that stay stays too.
StaysBeside(store, kept, id) ==
    IF Bytes(store, kept \cup {id}) <= MaxBytes THEN kept \cup {id} ELSE kept
Fitting(store, first, order, ids) ==
    LET kept[n \in 0..Entries] ==
          IF n = 0 THEN first
          ELSE IF order[n] \in ids THEN StaysBeside(store, kept[n - 1], order[n])
          ELSE kept[n - 1]
    IN kept[Entries]

\* Slip: the newest of each key have no precedence.
AdmitByAge(store, first, ids) == Fitting(store, first, NewestFirst, ids)

\* First the newest of each key, then the rest by age.
Admit(store, first, ids) ==
    Fitting(store, Fitting(store, first, ByName, NewestPerKey(ids)), NewestFirst, ids)

\* pruneGlobalUnlockedContext: what goes.
PrunePlan(store) == Safe(store) \ Admit(store, {}, Live(store))

\* The newest MaxRecords of the key of id.
Slots(ids, id) ==
    {i \in OfKey(ids, KeyOf(id)) : Cardinality(Newer(ids, i)) < MaxRecords}

\* recordReservationPlan: does the record keep its place, and what goes.
Contest(store, id) == Live(store) \cup {id}
Retained(store, id) == id \in Slots(Contest(store, id), id)

\* Slip: the record's key is not cut to its count.
RecordPlanUncounted(store, id) == Safe(store) \ Admit(store, {id}, Contest(store, id))

RecordPlan(store, id) ==
    LET contest == Contest(store, id)
        active == (contest \ OfKey(contest, KeyOf(id))) \cup Slots(contest, id)
    IN Safe(store) \ Admit(store, {id}, active)

\* Slip: only one record at a time is weighed, as preflightMigration does.
BatchUnweighed(from, to) == \A id \in Valid(from) : ~Expired(id)

\* preflightMigrationBatch: all of the source fits the destination at once.
BatchFits(from, to) ==
    LET there == Live(to)
        new == Valid(from) \ there
    IN /\ \A id \in Valid(from) : ~Expired(id)
       /\ \A id \in new : Cardinality(OfKey(there \cup new, KeyOf(id))) <= MaxRecords
       /\ Bytes(to, there) + Bytes(from, new) <= MaxBytes

\* preflightMigration: the record is there already, or it fits.
ItemFits(from, to, id) ==
    IF id \in Live(to) THEN to[id] = from[id]
    ELSE /\ \/ Cardinality(OfKey(Live(to), KeyOf(id))) < MaxRecords
            \/ Cardinality(Newer(Live(to), id)) < MaxRecords
         /\ Bytes(to, Live(to)) + from[id] <= MaxBytes

-----------------------------------------------------------------------------
Init ==
    /\ src \in Legacy /\ dst \in Current
    /\ now = FirstTime
    /\ srcLock = "nobody" /\ dstLock = "nobody"
    /\ pc = [p \in Procs |-> "idle"] /\ op = [p \in Procs |-> "none"]
    /\ item = [p \in Procs |-> NoItem] /\ size = [p \in Procs |-> 0]
    /\ todo = [p \in Procs |-> {}]
    /\ batch = [p \in Procs |-> {}] /\ obsolete = [p \in Procs |-> {}]
    /\ ops = 0 /\ mishaps = 0
    /\ calm = [p \in Procs |-> FALSE] /\ disturbed = [p \in Procs |-> FALSE]
    /\ sound = [p \in Procs |-> FALSE] /\ before = [p \in Procs |-> dst]
    /\ moved = [p \in Procs |-> {}] /\ excused = [p \in Procs |-> {}]

Go(p, step) == pc' = [pc EXCEPT ![p] = step]

\* The deferred unlocks.
Unlock(p) ==
    /\ srcLock' = IF srcLock = p THEN "nobody" ELSE srcLock
    /\ dstLock' = IF dstLock = p THEN "nobody" ELSE dstLock

End(p, how) ==
    /\ Go(p, how) /\ Unlock(p)
    /\ UNCHANGED <<disk, now, work, history>>

\* A record is asked for, by a scan or by a migration.
Ask(p, id, n) ==
    /\ item' = [item EXCEPT ![p] = id]
    /\ size' = [size EXCEPT ![p] = n]

\* RecordSnapshotContext, PruneContext, ClearContext, MigrateToContext.
Begin(p) ==
    /\ pc[p] \in Ended /\ ops < MaxOps
    /\ ops' = ops + 1
    /\ \/ \E id \in Keys \X (1..now), n \in Sizes :
             /\ ~Expired(id) /\ n <= MaxBytes
             /\ Ask(p, id, n)
             /\ op' = [op EXCEPT ![p] = "record"]
       \/ \E o \in {"prune", "clear", "migrate"} :
             op' = [op EXCEPT ![p] = o] /\ Ask(p, NoItem, 0)
    /\ Go(p, IF op'[p] = "migrate" THEN "lockSource" ELSE "lock")
    /\ todo' = [todo EXCEPT ![p] = {}] /\ batch' = [batch EXCEPT ![p] = {}]
    /\ obsolete' = [obsolete EXCEPT ![p] = {}]
    /\ calm' = [calm EXCEPT ![p] = TRUE]
    /\ disturbed' = [disturbed EXCEPT ![p] = FALSE]
    /\ sound' = [sound EXCEPT ![p] = FALSE]
    /\ moved' = [moved EXCEPT ![p] = {}] /\ excused' = [excused EXCEPT ![p] = {}]
    /\ UNCHANGED <<disk, now, locks, mishaps, before>>

Lock(p) ==
    /\ pc[p] = "lock" /\ dstLock = "nobody"
    /\ dstLock' = p
    /\ Go(p, IF op[p] \in {"prune", "clear"} THEN "plan" ELSE "reserve")
    /\ UNCHANGED <<disk, now, srcLock, work, history>>

-----------------------------------------------------------------------------
(***************************************************************************)
(* RecordSnapshotContext, under the lock of dst                            *)
(***************************************************************************)

\* Slip: room is made before the record is published.
ReserveByRemoving(p) ==
    /\ pc[p] = "reserve"
    /\ IF dst[item[p]] \in {Nothing, size[p]} /\ Retained(dst, item[p])
       THEN /\ Go(p, "remove")
            /\ todo' = [todo EXCEPT ![p] =
                  RecordPlan([dst EXCEPT ![item[p]] = size[p]], item[p]) \ {item[p]}]
            /\ UNCHANGED <<disk, now, locks, op, item, size, batch, obsolete, history>>
       ELSE End(p, "failed")

\* Slip: whatever has the record's name is taken for the record.
ReserveByName(p) ==
    /\ pc[p] = "reserve"
    /\ IF Retained(dst, item[p])
       THEN /\ Go(p, IF dst[item[p]] = Nothing THEN "publish" ELSE "enforce")
            /\ UNCHANGED <<disk, now, locks, work, history>>
       ELSE End(p, "failed")

\* What is there decides first, then the preflight of the policy.
Reserve(p) ==
    /\ pc[p] = "reserve"
    /\ IF dst[item[p]] \in {Nothing, size[p]} /\ Retained(dst, item[p])
       THEN /\ Go(p, IF dst[item[p]] = Nothing THEN "publish" ELSE "enforce")
            /\ UNCHANGED <<disk, now, locks, work, history>>
       ELSE End(p, "failed")

\* The others see dst change.
Disturb(p) ==
    disturbed' = [q \in Procs |-> disturbed[q] \/ (q # p /\ sound[q])]

Publish(p) ==
    /\ pc[p] = "publish"
    /\ dst' = [dst EXCEPT ![item[p]] = size[p]]
    /\ Disturb(p)
    /\ Go(p, "enforce")
    /\ UNCHANGED <<src, now, locks, work>>
    /\ UNCHANGED <<ops, mishaps, calm, sound, before, moved, excused>>

\* p decides which entries of dst go.
Decide(p, ids) ==
    /\ todo' = [todo EXCEPT ![p] = ids]
    /\ before' = [before EXCEPT ![p] = dst]
    /\ excused' = [q \in Procs |->
                      IF op[q] # "migrate" THEN {}
                      ELSE IF q # p \/ disturbed[p] \/ ~sound[p] THEN excused[q] \cup ids
                      ELSE excused[q] \cup (ids \ Live(dst))]
    /\ Go(p, "remove")
    /\ UNCHANGED <<disk, now, locks, op, item, size, batch, obsolete>>
    /\ UNCHANGED <<ops, mishaps, calm, disturbed, sound, moved>>

\* The inventory is taken again; the clock may have moved.
Enforce(p) ==
    /\ pc[p] = "enforce"
    /\ IF Retained(dst, item[p])
       THEN Decide(p, RecordPlan(dst, item[p]))
       ELSE End(p, "failed")

\* pruneGlobalUnlockedContext and clearUnlockedContext.
Plan(p) ==
    /\ pc[p] = "plan"
    /\ Decide(p, IF op[p] = "prune" THEN PrunePlan(dst) ELSE Safe(dst))

\* One entry of dst goes.
Drop(p, id) ==
    /\ dst' = [dst EXCEPT ![id] = Nothing]
    /\ todo' = [todo EXCEPT ![p] = @ \ {id}]
    /\ Disturb(p)

\* applyRemovalsContext.
RemoveNext(p) ==
    /\ pc[p] = "remove" /\ todo[p] # {}
    /\ Drop(p, FirstOf(todo[p]))
    /\ UNCHANGED <<src, now, locks, pc, op, item, size, batch, obsolete>>
    /\ UNCHANGED <<ops, mishaps, calm, sound, before, moved, excused>>

RemovedAll(p) ==
    /\ pc[p] = "remove" /\ todo[p] = {}
    /\ IF op[p] \in {"prune", "clear"} THEN End(p, "ok")
       ELSE Go(p, "settle") /\ UNCHANGED <<disk, now, locks, work, history>>

\* The published record must be there still; then the lock is released.
Settle(p) ==
    /\ pc[p] = "settle"
    /\ IF dst[item[p]] = Nothing THEN End(p, "failed")
       ELSE IF op[p] = "record" THEN End(p, "ok")
       ELSE /\ Go(p, "load")
            /\ dstLock' = "nobody"
            /\ UNCHANGED <<disk, now, srcLock, work, history>>

-----------------------------------------------------------------------------
(***************************************************************************)
(* MigrateToContext, under the lock of src                                 *)
(***************************************************************************)

LockSource(p) ==
    /\ pc[p] = "lockSource" /\ srcLock = "nobody"
    /\ srcLock' = p
    /\ Go(p, "preflight")
    /\ UNCHANGED <<disk, now, dstLock, work, history>>

\* The destination is read without its lock.  Three things are overlooked: a
\* damaged or foreign file at a record's name, a key over its count, and a
\* record that seems to be from the future.
Preflight(p) ==
    /\ pc[p] = "preflight"
    /\ IF BatchFits(src, dst) /\ \A id \in Valid(src) : ItemFits(src, dst, id)
       THEN /\ batch' = [batch EXCEPT ![p] = Valid(src)]
            /\ obsolete' = [obsolete EXCEPT ![p] = Safe(src) \ Valid(src)]
            /\ sound' = [sound EXCEPT ![p] =
                  /\ \A id \in Valid(src) : dst[id] \in {Nothing, src[id]}
                  /\ \A id \in Ids : dst[id] \in Sizes => TimeOf(id) <= now
                  /\ \A k \in Keys : Cardinality(OfKey(Live(dst), k)) <= MaxRecords]
            /\ disturbed' = [disturbed EXCEPT ![p] = FALSE]
            /\ Go(p, "next")
            /\ UNCHANGED <<disk, now, locks, op, item, size, todo>>
            /\ UNCHANGED <<ops, mishaps, calm, before, moved, excused>>
       ELSE End(p, "failed")

\* The next entry, in the order of names.
NextEntry(p) ==
    /\ pc[p] = "next"
    /\ LET left == batch[p] \cup obsolete[p]
           id == FirstOf(left)
       IN IF left = {} THEN End(p, "ok")
          ELSE IF id \in batch[p] /\ (TimeOf(id) > now \/ Expired(id))
          THEN End(p, "failed")
          ELSE /\ Ask(p, id, IF id \in batch[p] THEN src[id] ELSE 0)
               /\ Go(p, IF id \in batch[p] THEN "lock" ELSE "unlink")
               /\ UNCHANGED <<disk, now, locks, op, todo, batch, obsolete, history>>

\* LoadContext: the destination must serve the record.
Load(p) ==
    /\ pc[p] = "load"
    /\ IF item[p] \in Live(dst)
       THEN Go(p, "unlink") /\ UNCHANGED <<disk, now, locks, work, history>>
       ELSE End(p, "failed")

\* The entry leaves the source.
Leave(p) ==
    /\ src' = [src EXCEPT ![item[p]] = Nothing]
    /\ batch' = [batch EXCEPT ![p] = @ \ {item[p]}]
    /\ obsolete' = [obsolete EXCEPT ![p] = @ \ {item[p]}]
    /\ moved' = IF item[p] \in batch[p]
                THEN [moved EXCEPT ![p] = @ \cup {<<item[p], size[p]>>}] ELSE moved

Unlink(p) ==
    /\ pc[p] = "unlink"
    /\ Leave(p)
    /\ Go(p, "next")
    /\ UNCHANGED <<dst, now, locks, op, item, size, todo>>
    /\ UNCHANGED <<ops, mishaps, calm, disturbed, sound, before, excused>>

-----------------------------------------------------------------------------
(***************************************************************************)
(* What goes wrong                                                         *)
(***************************************************************************)

Mishap == mishaps < MaxMishaps /\ mishaps' = mishaps + 1

\* A call of p fails, before or after its effect, the caller cancels, or the
\* process dies.
Fail(p) ==
    /\ pc[p] \notin Ended
    /\ Mishap
    /\ calm' = [calm EXCEPT ![p] = FALSE]
    /\ Go(p, "failed") /\ Unlock(p)
    /\ \/ /\ UNCHANGED <<disk, todo, batch, obsolete, moved, excused, disturbed>>
       \/ /\ pc[p] = "publish"
          /\ \/ dst' = [dst EXCEPT ![item[p]] = size[p]]
             \/ dst' = [dst EXCEPT ![<<KeyOf(item[p]), 0>>] = Broken]
          /\ Disturb(p)
          /\ UNCHANGED <<src, todo, batch, obsolete, moved, excused>>
       \/ /\ pc[p] = "remove" /\ todo[p] # {}
          /\ Drop(p, FirstOf(todo[p]))
          /\ UNCHANGED <<src, batch, obsolete, moved, excused>>
       \/ /\ pc[p] = "unlink"
          /\ Leave(p)
          /\ UNCHANGED <<dst, todo, excused, disturbed>>
    /\ UNCHANGED <<now, op, item, size, ops, sound, before>>

\* The clock goes on, or is corrected.
Tick ==
    /\ \/ now < MaxTime /\ now' = now + 1 /\ UNCHANGED mishaps
       \/ now > 1 /\ now' = now - 1 /\ Mishap
    /\ calm' = [p \in Procs |-> FALSE]
    /\ sound' = [p \in Procs |-> sound[p] /\ now' > now]
    /\ UNCHANGED <<disk, locks, pc, work>>
    /\ UNCHANGED <<ops, disturbed, before, moved, excused>>

Record(p) == Reserve(p) \/ Publish(p) \/ Enforce(p) \/ Settle(p)
Retire(p) == Plan(p) \/ RemoveNext(p) \/ RemovedAll(p)
Migrate(p) == LockSource(p) \/ Preflight(p) \/ NextEntry(p) \/ Load(p) \/ Unlink(p)
Advance(p) == Lock(p) \/ Record(p) \/ Retire(p) \/ Migrate(p)

Next == Tick \/ \E p \in Procs : Begin(p) \/ Advance(p) \/ Fail(p)
Spec == Init /\ [][Next]_vars

-----------------------------------------------------------------------------
(***************************************************************************)
(* Properties                                                              *)
(***************************************************************************)

\* Every variable has its type.
TypeOK ==
    /\ src \in Stores /\ dst \in Stores
    /\ now \in 1..MaxTime
    /\ srcLock \in Procs \cup {"nobody"} /\ dstLock \in Procs \cup {"nobody"}
    /\ pc \in [Procs -> Ended \cup {"lock", "reserve", "publish", "enforce", "plan",
                  "remove", "settle", "lockSource", "preflight", "next", "load", "unlink"}]
    /\ op \in [Procs -> {"none", "record", "prune", "clear", "migrate"}]
    /\ item \in [Procs -> Ids \cup {NoItem}] /\ size \in [Procs -> Sizes \cup {0}]
    /\ todo \in [Procs -> SUBSET Ids]
    /\ batch \in [Procs -> SUBSET Ids] /\ obsolete \in [Procs -> SUBSET Ids]
    /\ ops \in 0..MaxOps /\ mishaps \in 0..MaxMishaps
    /\ calm \in [Procs -> BOOLEAN] /\ disturbed \in [Procs -> BOOLEAN]
    /\ sound \in [Procs -> BOOLEAN] /\ before \in [Procs -> Stores]
    /\ moved \in [Procs -> SUBSET (Ids \X Sizes)] /\ excused \in [Procs -> SUBSET Ids]

\* A record that a migration took from the legacy store is in the current one,
\* with the same bytes, whatever fails and whenever, until the clock, another
\* process or what another process recorded makes it go (or something
\* the preflight overlooks).
MovedIsKept ==
    \A p \in Procs : \A m \in moved[p] : dst[m[1]] = m[2] \/ m[1] \in excused[p]

\* A migration whose preflight accepted the batch goes through, unless a call
\* fails, the clock moves or another process changes the destination: no
\* prefix is moved only to find that the rest does not fit.  Exceptions, which
\* the preflight overlooks: a damaged or foreign file at a record's name in
\* the destination, and a key that holds more than its count there.
AcceptedGoesThrough ==
    \A p \in Procs :
        sound[p] /\ calm[p] /\ ~disturbed[p] => pc[p] # "failed"

\* Nor does such a migration cost the destination a live record.
MigrationSpares ==
    [][\A p \in Procs, id \in Ids :
          /\ op[p] = "migrate" /\ sound[p] /\ calm[p] /\ ~disturbed[p]
          /\ dstLock = p /\ id \in Live(dst)
          => dst'[id] = dst[id]]_vars

\* What the preflight of a migration accepts (preflightMigrationBatch,
\* history.go:1184) costs nothing: it goes through, and retires no live record;
\* every state on the way has its types.
MigrationIsFree == [](TypeOK /\ AcceptedGoesThrough) /\ MigrationSpares

\* Nothing goes to make room for a record that is not there: while a record is
\* made, entries are removed only once it is published, so a failed publication
\* costs nothing (history.go:443).
PublishedFirst ==
    [][\A p \in Procs : op[p] \in {"record", "migrate"} /\ dstLock = p =>
          \A id \in Ids : dst[id] # Nothing /\ dst'[id] = Nothing =>
              dst[item[p]] = size[p] /\ dst'[item[p]] = size[p]]_vars

\* When a record is done the whole store is within policy, also if an earlier
\* enforcement was cut short: nothing invalid or expired, the bytes within the
\* quota, and the record's own key within its count, the record included.
RecordRestoresPolicy ==
    \A p \in Procs : pc[p] = "settle" /\ calm[p] =>
        /\ item[p] \in Live(dst)
        /\ Safe(dst) = Live(dst)
        /\ Bytes(dst, Live(dst)) <= MaxBytes
        /\ Cardinality(OfKey(Live(dst), KeyOf(item[p]))) <= MaxRecords

\* A live record goes only for a reason: its key has as many newer records as
\* it may keep (counted before the quota takes any of those), or its bytes do
\* not fit beside what stays; and the newest of a key goes only if it does not
\* fit even beside the newest of the other keys and the record being made,
\* never in favour of an older one.
RemovedForAReason ==
    \A p \in Procs :
        /\ pc[p] = "remove" /\ todo[p] = {} /\ op[p] # "clear" /\ calm[p]
        => \A id \in Live(before[p]) \ Live(dst) :
              \/ /\ KeyOf(id) = KeyOf(item[p])
                 /\ Cardinality(Newer(Live(before[p]), id)) >= MaxRecords
              \/ /\ Bytes(dst, Live(dst)) + before[p][id] > MaxBytes
                 /\ Newer(Live(before[p]), id) = {} =>
                       Bytes(dst, NewestPerKey(Live(dst)) \cup ({item[p]} \cap Ids))
                          + before[p][id] > MaxBytes

\* What history.go:445 and README.md:690-691 say of an explicit prune: it
\* enforces the count per key, and so repairs what a failed enforcement left.
PruneRestoresCount ==
    \A p \in Procs :
        /\ pc[p] = "remove" /\ todo[p] = {} /\ op[p] = "prune" /\ calm[p]
        => \A k \in Keys : Cardinality(OfKey(Live(dst), k)) <= MaxRecords

=============================================================================
