----------------------------- MODULE StoreRoot -----------------------------
(***************************************************************************)
(* One managed store directory (internal/storefs) and the processes that   *)
(* use it: NewStore, which creates the ownership marker without the lock;  *)
(* SaveContext of internal/index, which locks, checks, publishes a record  *)
(* by rename and sweeps abandoned temporaries; AdoptContext, which marks a *)
(* store made before there were markers.  Steps are system calls.  A       *)
(* process may crash at any of them, calls may fail or be cancelled, power *)
(* may be lost, and somebody may remove the lock file.                     *)
(*                                                                         *)
(* A file is an object with an identity, which is what SameFile compares;  *)
(* a name denotes an object or Nothing.  Which snapshots a save retires is *)
(* the subject of IndexStore; here there is one record.                    *)
(***************************************************************************)
EXTENDS Integers, FiniteSets

CONSTANTS
    Procs,        \* processes
    Temps,        \* temporary names (the code draws them at random)
    MaxObjects,   \* bound: files that exist or are held open at a time
    MaxSessions,  \* bound: operations started
    MaxMishaps    \* bound: faults, crashes, power losses, lost lock files

\* The directory may begin with three objects.
ASSUME BoundsAssumption ==
    MaxObjects \in Nat /\ MaxObjects >= 3 /\ MaxSessions \in Nat /\ MaxMishaps \in Nat
ASSUME NamesAssumption ==
    Temps \cap {"lock", "marker", "record", "foreign", "none"} = {}

VARIABLES
    dir,       \* the directory as processes see it
    durable,   \* the directory as of the last Sync
    content,   \* how much of each object is written: part, whole or kept (fsynced)
    private,   \* mode 0700 and owned by the user
    pc,        \* where each process stands
    kind,      \* the operation it carries out
    temp,      \* the temporary name at hand
    listed,    \* temporaries that listRoot saw and the sweep has to remove
    fd,        \* the open lock file
    locked     \* that it is locked through fd

\* History, for the properties only.
VARIABLES
    sessions,  \* operations started so far
    mishaps,   \* faults so far
    origin,    \* the directory and its privacy at the beginning
    clean,     \* nothing has excused a failure of this operation
    promised,  \* records of which one must survive, once a save succeeded
    rolled,    \* a published marker was taken back
    broken     \* the lock file was removed while somebody was inside

files == <<dir, durable, content, private>>
locks == <<fd, locked>>
procs == <<pc, kind, temp, listed>>
history == <<sessions, mishaps, origin, clean, promised, rolled, broken>>
vars == <<files, locks, procs, history>>

Nothing == 0
Objects == 1..MaxObjects
Known == {"lock", "marker", "record", "foreign"}
Names == Known \cup Temps
Ended == {"idle", "ok", "failed"}
\* Steps inside createAtomicContext.
Creating == {"lookMarker", "tempMarker", "fillMarker", "link", "syncLink",
             "dropTemp", "syncDrop", "rollMarker", "rollTemp"}
Locking == {"lockLook", "lockMake", "lockOpen", "lockTry", "lockCheck"}
Writing == {"tempRecord", "fillRecord", "publish", "syncPublish", "list",
            "sweep", "unlink", "verify"}
Step == Ended \cup Creating \cup Locking \cup Writing \cup
        {"forNew", "emptyForNew", "chmod", "ensure", "empty", "confirm",
         "check", "checkEmpty", "inside"}

\* The named objects, and an object of no name that nobody holds.
Named(d) == {d[n] : n \in Names} \ {Nothing}
InUse == Named(dir) \cup Named(durable) \cup {fd[p] : p \in Procs} \cup promised
Fresh == CHOOSE o \in Objects : o \notin InUse /\ \A q \in Objects \ InUse : o <= q

\* markerOwnership: the marker is missing, ours, or something else.
Marker ==
    IF dir["marker"] = Nothing THEN "missing"
    ELSE IF content[dir["marker"]] = "part" THEN "foreign" ELSE "ours"
Owned == private /\ Marker = "ours"

\* Slip: the lock file counts as content.
NothingAtAll == \A n \in Names : dir[n] = Nothing

\* ReadDir shows nothing besides the lock file.
OnlyLock == \A n \in Names \ {"lock"} : dir[n] = Nothing
\* validateLegacyStore: records and temporaries are recognised.
Legacy == dir["marker"] = Nothing /\ dir["foreign"] = Nothing
Inside(p) == locked[p] /\ pc[p] # "lockCheck"
Quiet == \A p \in Procs : pc[p] \in Ended

Init ==
    /\ \E there \in SUBSET {"marker", "record", "foreign"} :
          dir = [n \in Names |->
                    IF n \notin there THEN Nothing
                    ELSE IF n = "marker" THEN 1 ELSE IF n = "record" THEN 2 ELSE 3]
    /\ durable = dir
    /\ content = [o \in Objects |-> "kept"]
    /\ private \in BOOLEAN
    /\ pc = [p \in Procs |-> "idle"] /\ kind = [p \in Procs |-> "none"]
    /\ temp = [p \in Procs |-> "none"] /\ listed = [p \in Procs |-> {}]
    /\ fd = [p \in Procs |-> Nothing] /\ locked = [p \in Procs |-> FALSE]
    /\ sessions = 0 /\ mishaps = 0
    /\ origin = [dir |-> dir, private |-> private]
    /\ clean = [p \in Procs |-> FALSE]
    /\ promised = {} /\ rolled = FALSE /\ broken = FALSE

Go(p, step) == pc' = [pc EXCEPT ![p] = step]

\* A step that changes nothing but where the process stands.
Turn(p, step) ==
    /\ Go(p, step)
    /\ UNCHANGED <<kind, temp, listed>> /\ UNCHANGED files
    /\ UNCHANGED locks /\ UNCHANGED history

\* Slip: an ended operation keeps its lock.
ReleaseLeaking(p) ==
    /\ UNCHANGED locks
    /\ temp' = [temp EXCEPT ![p] = "none"]
    /\ listed' = [listed EXCEPT ![p] = {}]

\* The deferred unlock and closes.
Release(p) ==
    /\ fd' = [fd EXCEPT ![p] = Nothing]
    /\ locked' = [locked EXCEPT ![p] = FALSE]
    /\ temp' = [temp EXCEPT ![p] = "none"]
    /\ listed' = [listed EXCEPT ![p] = {}]

End(p, how) ==
    /\ Go(p, how) /\ Release(p)
    /\ UNCHANGED kind /\ UNCHANGED files /\ UNCHANGED history

-----------------------------------------------------------------------------
(***************************************************************************)
(* The operations begin                                                    *)
(***************************************************************************)

Begin(p) ==
    /\ pc[p] \in Ended /\ sessions < MaxSessions
    /\ sessions' = sessions + 1
    /\ clean' = [clean EXCEPT ![p] = Owned /\ \A q \in Procs : pc[q] \notin Creating]
    /\ \E k \in {"create", "save", "adopt"} :
          /\ kind' = [kind EXCEPT ![p] = k]
          /\ Go(p, IF k = "create" THEN "forNew" ELSE "check")
    /\ UNCHANGED <<temp, listed, mishaps, origin, promised, rolled, broken>>
    /\ UNCHANGED files /\ UNCHANGED locks

\* EnsureOwnershipForNewStoreContext may tighten an empty directory.
ForNewStore(p) ==
    /\ pc[p] = "forNew"
    /\ Turn(p, IF Marker # "missing" \/ private THEN "ensure" ELSE "emptyForNew")

TightenIfEmpty(p) ==
    /\ pc[p] = "emptyForNew"
    /\ Turn(p, IF OnlyLock THEN "chmod" ELSE "ensure")

MakePrivate(p) ==
    /\ pc[p] = "chmod"
    /\ private' = TRUE
    /\ Go(p, IF kind[p] = "create" THEN "ensure" ELSE "lookMarker")
    /\ UNCHANGED <<dir, durable, content, kind, temp, listed>>
    /\ UNCHANGED locks /\ UNCHANGED history

\* What follows once the store is known to be owned.
Established(p) ==
    IF kind[p] = "save" THEN Turn(p, "tempRecord") ELSE End(p, "ok")

\* EnsureOwnershipContext; adopt is the authority of an explicit migration.
EnsureOwnership(p) ==
    /\ pc[p] = "ensure"
    /\ CASE Marker = "foreign" -> End(p, "failed")
         [] kind[p] = "adopt" /\ ~Owned -> Turn(p, "chmod")
         [] Owned -> Established(p)
         [] OTHER -> IF private THEN Turn(p, "empty") ELSE End(p, "failed")

RequireEmpty(p) ==
    /\ pc[p] = "empty"
    /\ IF OnlyLock THEN Turn(p, "lookMarker") ELSE End(p, "failed")

\* The marker appeared first: Ownership decides.
Confirm(p) ==
    /\ pc[p] = "confirm"
    /\ IF Owned THEN Established(p) ELSE End(p, "failed")

-----------------------------------------------------------------------------
(***************************************************************************)
(* createAtomicContext: the marker is published by a hard link             *)
(***************************************************************************)

LookMarker(p) ==
    /\ pc[p] = "lookMarker"
    /\ Turn(p, IF dir["marker"] = Nothing THEN "tempMarker" ELSE "confirm")

\* A random name is one that nobody has in mind; which one does not matter.
FreeTemps ==
    {t \in Temps : dir[t] = Nothing /\ \A q \in Procs : t # temp[q] /\ t \notin listed[q]}

\* createTemp, with O_EXCL, for the marker and for a record.
CreateTemp(p) ==
    /\ pc[p] \in {"tempMarker", "tempRecord"}
    /\ FreeTemps # {} /\ InUse \cap Objects # Objects
    /\ LET t == CHOOSE t \in FreeTemps : TRUE
       IN dir' = [dir EXCEPT ![t] = Fresh] /\ temp' = [temp EXCEPT ![p] = t]
    /\ content' = [content EXCEPT ![Fresh] = "part"]
    /\ Go(p, IF pc[p] = "tempMarker" THEN "fillMarker" ELSE "fillRecord")
    /\ UNCHANGED <<durable, private, kind, listed>>
    /\ UNCHANGED locks /\ UNCHANGED history

\* Write, Chmod, Sync, Close.
Filled == "kept"

\* The handle keeps the file even if its name is swept meanwhile.
Fill(p) ==
    /\ pc[p] \in {"fillMarker", "fillRecord"}
    /\ content' = IF dir[temp[p]] = Nothing THEN content
                  ELSE [content EXCEPT ![dir[temp[p]]] = Filled]
    /\ Go(p, IF pc[p] = "fillMarker" THEN "link" ELSE "publish")
    /\ UNCHANGED <<dir, durable, private, kind, temp, listed>>
    /\ UNCHANGED locks /\ UNCHANGED history

Without(d, n) == [d EXCEPT ![n] = Nothing]
DropTemp(p) == dir' = Without(dir, temp[p])

Link(p) ==
    /\ pc[p] = "link"
    /\ IF dir[temp[p]] # Nothing /\ dir["marker"] = Nothing
       THEN /\ dir' = [dir EXCEPT !["marker"] = dir[temp[p]]]
            /\ Go(p, "syncLink")
            /\ UNCHANGED <<durable, content, private, kind, temp, listed>>
            /\ UNCHANGED locks /\ UNCHANGED history
       ELSE /\ DropTemp(p)
            /\ UNCHANGED <<durable, content, private, kind>> /\ UNCHANGED history
            /\ IF dir[temp[p]] = Nothing
               THEN Go(p, "failed") /\ Release(p)
               ELSE /\ Go(p, "confirm")
                    /\ temp' = [temp EXCEPT ![p] = "none"]
                    /\ UNCHANGED listed /\ UNCHANGED locks

SyncLink(p) ==
    /\ pc[p] = "syncLink"
    /\ durable' = dir
    /\ Go(p, "dropTemp")
    /\ UNCHANGED <<dir, content, private, kind, temp, listed>>
    /\ UNCHANGED locks /\ UNCHANGED history

DropLinkedTemp(p) ==
    /\ pc[p] = "dropTemp"
    /\ DropTemp(p)
    /\ Go(p, "syncDrop")
    /\ UNCHANGED <<durable, content, private, kind, temp, listed>>
    /\ UNCHANGED locks /\ UNCHANGED history

SyncDrop(p) ==
    /\ pc[p] = "syncDrop"
    /\ durable' = dir
    /\ UNCHANGED <<dir, content, private, kind>> /\ UNCHANGED history
    /\ IF kind[p] = "save"
       THEN /\ Go(p, "tempRecord")
            /\ temp' = [temp EXCEPT ![p] = "none"]
            /\ UNCHANGED listed /\ UNCHANGED locks
       ELSE Go(p, "ok") /\ Release(p)

\* rollbackLink: the marker and the temporary go, by name.
RollMarker(p) ==
    /\ pc[p] = "rollMarker"
    /\ \/ dir' = Without(dir, "marker") /\ rolled' = TRUE
       \/ UNCHANGED <<dir, rolled>>
    /\ Go(p, "rollTemp")
    /\ UNCHANGED <<durable, content, private, kind, temp, listed>>
    /\ UNCHANGED <<sessions, mishaps, origin, clean, promised, broken>>
    /\ UNCHANGED locks

RollTemp(p) ==
    /\ pc[p] = "rollTemp"
    /\ DropTemp(p) \/ UNCHANGED dir
    /\ durable' \in {durable, dir'}
    /\ Go(p, "failed") /\ Release(p)
    /\ UNCHANGED <<content, private, kind>> /\ UNCHANGED history

-----------------------------------------------------------------------------
(***************************************************************************)
(* WithLock                                                                *)
(***************************************************************************)

\* Slip: the store is checked under the lock only.
CheckLater(p) ==
    /\ pc[p] = "check"
    /\ Turn(p, "lockLook")

\* canInitializeIndexStore, and the preflight of AdoptContext: nothing is
\* written to a store that will be refused.
Check(p) ==
    /\ pc[p] = "check"
    /\ IF kind[p] = "adopt"
       THEN IF Owned THEN End(p, "ok")
            ELSE IF Legacy THEN Turn(p, "lockLook") ELSE End(p, "failed")
       ELSE IF Owned THEN Turn(p, "lockLook")
            ELSE IF private THEN Turn(p, "checkEmpty") ELSE End(p, "failed")

CheckEmpty(p) ==
    /\ pc[p] = "checkEmpty"
    /\ IF OnlyLock THEN Turn(p, "lockLook") ELSE End(p, "failed")

LockLook(p) ==
    /\ pc[p] = "lockLook"
    /\ Turn(p, IF dir["lock"] = Nothing THEN "lockMake" ELSE "lockOpen")

\* Slip: losing the race to create the lock file is an error.
LockMakeOnce(p) ==
    /\ pc[p] = "lockMake"
    /\ \/ dir["lock"] # Nothing /\ End(p, "failed")
       \/ /\ dir["lock"] = Nothing /\ InUse \cap Objects # Objects
          /\ dir' = [dir EXCEPT !["lock"] = Fresh]
          /\ fd' = [fd EXCEPT ![p] = Fresh]
          /\ Go(p, "lockTry")
          /\ UNCHANGED <<durable, content, private, kind, temp, listed, locked>>
          /\ UNCHANGED history

LockMake(p) ==
    /\ pc[p] = "lockMake"
    /\ \/ dir["lock"] # Nothing /\ Turn(p, "lockLook")
       \/ /\ dir["lock"] = Nothing /\ InUse \cap Objects # Objects
          /\ dir' = [dir EXCEPT !["lock"] = Fresh]
          /\ fd' = [fd EXCEPT ![p] = Fresh]
          /\ Go(p, "lockTry")
          /\ UNCHANGED <<durable, content, private, kind, temp, listed, locked>>
          /\ UNCHANGED history

LockOpen(p) ==
    /\ pc[p] = "lockOpen"
    /\ \/ dir["lock"] = Nothing /\ Turn(p, "lockLook")
       \/ /\ dir["lock"] # Nothing
          /\ fd' = [fd EXCEPT ![p] = dir["lock"]]
          /\ Go(p, "lockTry")
          /\ UNCHANGED <<kind, temp, listed, locked>> /\ UNCHANGED files
          /\ UNCHANGED history

\* tryLock, until it succeeds: flock is per open file.
LockTry(p) ==
    /\ pc[p] = "lockTry"
    /\ \A q \in Procs : ~(locked[q] /\ fd[q] = fd[p])
    /\ locked' = [locked EXCEPT ![p] = TRUE]
    /\ Go(p, "lockCheck")
    /\ UNCHANGED <<kind, temp, listed, fd>> /\ UNCHANGED files /\ UNCHANGED history

\* Slip: a lock that was waited for is not compared with the name again.
LockUnchecked(p) ==
    /\ pc[p] = "lockCheck"
    /\ Turn(p, "inside")

LockCheck(p) ==
    /\ pc[p] = "lockCheck"
    /\ IF dir["lock"] = fd[p] THEN Turn(p, "inside") ELSE End(p, "failed")

Enter(p) ==
    /\ pc[p] = "inside"
    /\ IF kind[p] = "save"
       THEN Turn(p, IF Owned THEN "tempRecord" ELSE "ensure")
       ELSE IF Legacy THEN Turn(p, "ensure") ELSE End(p, "failed")

-----------------------------------------------------------------------------
(***************************************************************************)
(* AtomicWritePreparedContext and the sweep of a save                      *)
(***************************************************************************)

\* The rename fails only if the temporary is gone.
Publish(p) ==
    /\ pc[p] = "publish"
    /\ IF dir[temp[p]] = Nothing THEN End(p, "failed")
       ELSE /\ dir' = [Without(dir, temp[p]) EXCEPT !["record"] = dir[temp[p]]]
            /\ promised' = IF promised = {} THEN {} ELSE promised \cup {dir[temp[p]]}
            /\ temp' = [temp EXCEPT ![p] = "none"]
            /\ Go(p, "syncPublish")
            /\ UNCHANGED <<durable, content, private, kind, listed>>
            /\ UNCHANGED <<sessions, mishaps, origin, clean, rolled, broken>>
            /\ UNCHANGED locks

\* Slip: the directory is not synced after the rename.
PublishUnsynced(p) ==
    /\ pc[p] = "syncPublish"
    /\ Turn(p, "list")

SyncPublish(p) ==
    /\ pc[p] = "syncPublish"
    /\ durable' = dir
    /\ Go(p, "list")
    /\ UNCHANGED <<dir, content, private, kind, temp, listed>>
    /\ UNCHANGED locks /\ UNCHANGED history

\* listRoot reports every temporary as abandoned, if the store is owned.
List(p) ==
    /\ pc[p] = "list"
    /\ IF Owned
       THEN /\ listed' = [listed EXCEPT ![p] = {t \in Temps : dir[t] # Nothing}]
            /\ Go(p, "sweep")
            /\ UNCHANGED <<kind, temp>> /\ UNCHANGED files
            /\ UNCHANGED locks /\ UNCHANGED history
       ELSE End(p, "failed")

\* RemoveRegularContext looks first: what is gone already is no error.
Sweep(p) ==
    /\ pc[p] = "sweep"
    /\ IF listed[p] = {} THEN Turn(p, "verify")
       ELSE \E t \in listed[p] :
              /\ listed' = [listed EXCEPT ![p] = @ \ {t}]
              /\ temp' = IF dir[t] = Nothing THEN temp ELSE [temp EXCEPT ![p] = t]
              /\ Go(p, IF dir[t] = Nothing THEN "sweep" ELSE "unlink")
              /\ UNCHANGED kind /\ UNCHANGED files
              /\ UNCHANGED locks /\ UNCHANGED history

Unlink(p) ==
    /\ pc[p] = "unlink"
    /\ IF dir[temp[p]] = Nothing THEN End(p, "failed")
       ELSE /\ DropTemp(p)
            /\ durable' = dir'
            /\ temp' = [temp EXCEPT ![p] = "none"]
            /\ Go(p, "sweep")
            /\ UNCHANGED <<content, private, kind, listed>>
            /\ UNCHANGED locks /\ UNCHANGED history

\* The published record must still be there.
Verify(p) ==
    /\ pc[p] = "verify"
    /\ IF dir["record"] = Nothing THEN End(p, "failed")
       ELSE /\ Go(p, "ok") /\ Release(p)
            /\ promised' = {dir["record"]}
            /\ UNCHANGED kind /\ UNCHANGED files
            /\ UNCHANGED <<sessions, mishaps, origin, clean, rolled, broken>>

-----------------------------------------------------------------------------
(***************************************************************************)
(* What goes wrong                                                         *)
(***************************************************************************)

Mishap == mishaps < MaxMishaps /\ mishaps' = mishaps + 1

\* A call of p fails or is cancelled.  createAtomicContext takes back what it
\* linked; otherwise only the deferred removal of the temporary is left to do,
\* which may fail as well.
Fault(p) ==
    /\ pc[p] \notin Ended \cup {"rollMarker", "rollTemp"}
    /\ Mishap
    /\ clean' = [clean EXCEPT ![p] = FALSE]
    /\ UNCHANGED <<kind, durable, content, private, sessions, origin, promised>>
    /\ UNCHANGED <<rolled, broken>>
    /\ IF pc[p] \in {"syncLink", "dropTemp", "syncDrop"}
       THEN Go(p, "rollMarker") /\ UNCHANGED <<dir, temp, listed>> /\ UNCHANGED locks
       ELSE /\ Go(p, "failed") /\ Release(p)
            /\ \/ UNCHANGED dir
               \/ /\ pc[p] \in {"fillMarker", "link", "fillRecord", "publish", "unlink"}
                  /\ DropTemp(p)

\* The process dies; the kernel closes its files, which unlocks.
Crash(p) ==
    /\ pc[p] \notin Ended
    /\ Mishap
    /\ Go(p, "idle") /\ Release(p)
    /\ UNCHANGED kind /\ UNCHANGED files
    /\ UNCHANGED <<sessions, origin, clean, promised, rolled, broken>>

\* Every name is as it was synced or as it was last; what was not fsynced may
\* be damaged.
PowerLoss ==
    /\ Mishap
    /\ \E last \in SUBSET {n \in Names : dir[n] # durable[n]} :
          dir' = [n \in Names |-> IF n \in last THEN dir[n] ELSE durable[n]]
    /\ durable' = dir'
    /\ content' \in {content, [o \in Objects |->
                                  IF content[o] = "kept" THEN "kept" ELSE "part"]}
    /\ pc' = [p \in Procs |-> "idle"]
    /\ temp' = [p \in Procs |-> "none"] /\ listed' = [p \in Procs |-> {}]
    /\ fd' = [p \in Procs |-> Nothing] /\ locked' = [p \in Procs |-> FALSE]
    /\ UNCHANGED <<private, kind, sessions, origin, clean, promised, rolled, broken>>

\* Somebody removes the lock file.
LoseLock ==
    /\ Mishap
    /\ dir["lock"] # Nothing
    /\ dir' = Without(dir, "lock")
    /\ broken' = (broken \/ \E p \in Procs : Inside(p))
    /\ clean' = [p \in Procs |-> FALSE]
    /\ UNCHANGED <<durable, content, private, sessions, origin, promised, rolled>>
    /\ UNCHANGED locks /\ UNCHANGED procs

Initialise(p) ==
    \/ ForNewStore(p) \/ TightenIfEmpty(p) \/ MakePrivate(p)
    \/ EnsureOwnership(p) \/ RequireEmpty(p) \/ Confirm(p)
CreateMarker(p) ==
    \/ LookMarker(p) \/ CreateTemp(p) \/ Fill(p) \/ Link(p) \/ SyncLink(p)
    \/ DropLinkedTemp(p) \/ SyncDrop(p) \/ RollMarker(p) \/ RollTemp(p)
Lock(p) ==
    \/ Check(p) \/ CheckEmpty(p) \/ LockLook(p) \/ LockMake(p) \/ LockOpen(p)
    \/ LockTry(p) \/ LockCheck(p) \/ Enter(p)
Save(p) ==
    \/ Publish(p) \/ SyncPublish(p) \/ List(p) \/ Sweep(p) \/ Unlink(p) \/ Verify(p)
Advance(p) == Initialise(p) \/ CreateMarker(p) \/ Lock(p) \/ Save(p)

Next ==
    \/ \E p \in Procs : Begin(p) \/ Advance(p) \/ Fault(p) \/ Crash(p)
    \/ PowerLoss \/ LoseLock

Spec == Init /\ [][Next]_vars /\ \A p \in Procs : WF_vars(Advance(p))

-----------------------------------------------------------------------------
(***************************************************************************)
(* Properties                                                              *)
(***************************************************************************)

\* Every variable has its type.
TypeOK ==
    /\ dir \in [Names -> Objects \cup {Nothing}]
    /\ durable \in [Names -> Objects \cup {Nothing}]
    /\ content \in [Objects -> {"part", "whole", "kept"}]
    /\ private \in BOOLEAN
    /\ pc \in [Procs -> Step]
    /\ kind \in [Procs -> {"none", "create", "save", "adopt"}]
    /\ temp \in [Procs -> Temps \cup {"none"}]
    /\ listed \in [Procs -> SUBSET Temps]
    /\ fd \in [Procs -> Objects \cup {Nothing}]
    /\ locked \in [Procs -> BOOLEAN]
    /\ sessions \in 0..MaxSessions /\ mishaps \in 0..MaxMishaps
    /\ origin \in [dir : [Names -> Objects \cup {Nothing}], private : BOOLEAN]
    /\ clean \in [Procs -> BOOLEAN]
    /\ promised \subseteq Objects
    /\ rolled \in BOOLEAN /\ broken \in BOOLEAN

\* Two processes are never inside the lock at once, also when several of them
\* create the lock file and when it is removed while they wait; only removing
\* it under a process that is inside lets another one in.
MutualExclusion ==
    ~broken => \A p, q \in Procs : p # q => ~(Inside(p) /\ Inside(q))

\* Whoever opens a marker or a record finds all of it, through every crash and
\* power loss: publication comes after the temporary's fsync.
WholeRecords ==
    \A n \in {"marker", "record"} : dir[n] # Nothing => content[dir[n]] # "part"

\* After a save has succeeded a power loss leaves its record or a later one,
\* and the marker without which no one would read it.  Exception: NewStore
\* takes no lock, and its rollback of a marker it could not sync takes away
\* the marker that others have relied on since (storefs.go:894).
SavedIsSafe ==
    promised # {} /\ ~broken =>
        /\ {dir["record"], durable["record"]} \subseteq promised
        /\ rolled \/ Nothing \notin {dir["marker"], durable["marker"]}

\* What is read is whole and what was saved lasts (writeAtomic,
\* storefs.go:749), in a state whose variables have their types.
RecordsLast == TypeOK /\ WholeRecords /\ SavedIsSafe

\* A directory that holds something else is left alone: no lock file, no
\* marker, no change of mode.
ForeignUntouched ==
    origin.dir["foreign"] # Nothing /\ origin.dir["marker"] = Nothing =>
        dir = origin.dir /\ private = origin.private

\* On a private store that is marked, with nobody still marking it, an
\* operation fails only for a fault of its own or a removed lock file, never
\* because of what other processes do.  (While the marker is being created it
\* may: storefs.go:322 takes a temporary or the marker itself for content.)
OwnedStoreServes == ~broken => \A p \in Procs : pc[p] = "failed" => ~clean[p]

\* When processes create an empty store together one of them succeeds, though
\* others may be refused; only a mishap can leave it unmarked.
FirstUseWins ==
    /\ Quiet /\ mishaps = 0
    /\ \E p \in Procs : kind[p] = "create"
    /\ \A n \in Names : origin.dir[n] = Nothing
    => Owned

\* Without mishaps nothing temporary is left behind.
LeavesNoTemps == Quiet /\ mishaps = 0 => \A t \in Temps : dir[t] = Nothing

\* Processes that make the same store at once (storefs.go:322) leave it made,
\* and clean.
FirstUseIsClean == FirstUseWins /\ LeavesNoTemps

\* Every operation ends: retries around the lock file and waiting for the lock
\* come to an end when the others do.
Settles == <>[]Quiet

=============================================================================
