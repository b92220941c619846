-------------------------- MODULE StoreRootProofs --------------------------
(***************************************************************************)
(* What StoreRoot.tla promises, for any processes, any number of           *)
(* operations, of mishaps, of temporaries and of objects.  The invariant   *)
(* has one part for each thing that could be otherwise: who holds which    *)
(* lock file, what is published, what a successful save rests on, what an  *)
(* operation on an owned store may count on, and who makes a new store.    *)
(***************************************************************************)
EXTENDS StoreRoot, TLAPS, FiniteSetTheorems, WellFoundedInduction

Before == {"forNew", "emptyForNew", "check", "checkEmpty"}
\* Steps after the record has been published.
Published == {"syncPublish", "list", "sweep", "unlink", "verify"}
\* Steps that need the lock, unless a marker is being created without it.
Working == Writing \cup Creating \cup {"inside", "chmod", "ensure", "empty", "confirm"}
Marking == Creating \ {"lookMarker"}
HoldingTemp == (Marking \ {"tempMarker"}) \cup {"fillRecord", "publish", "unlink"}

\* Who holds which open file; whoever is inside holds the one that is named.
Locks ==
    \A p \in Procs :
        /\ pc[p] \in Ended \cup Before \cup {"lockLook", "lockMake", "lockOpen"} =>
              fd[p] = Nothing /\ ~locked[p]
        /\ pc[p] = "lockTry" => fd[p] # Nothing /\ ~locked[p]
        /\ pc[p] = "lockCheck" => locked[p]
        /\ locked[p] => fd[p] # Nothing
        /\ pc[p] \in Working /\ kind[p] # "create" => locked[p]
        /\ \A q \in Procs : locked[p] /\ locked[q] /\ p # q => fd[p] # fd[q]
        /\ ~broken /\ Inside(p) => dir["lock"] = fd[p]

\* Which operations come where, and with a temporary name.
Places ==
    \A p \in Procs :
        /\ pc[p] = "idle" /\ mishaps = 0 => kind[p] = "none"
        /\ kind[p] = "none" => pc[p] = "idle"
        /\ pc[p] \in Writing => kind[p] = "save"
        /\ kind[p] = "create" => pc[p] \notin Locking \cup Writing \cup
                                              {"check", "checkEmpty", "inside"}
        /\ pc[p] \in {"forNew", "emptyForNew"} => kind[p] = "create"
        /\ pc[p] \in {"chmod", "empty"} => kind[p] # "none"
        /\ pc[p] \in HoldingTemp => temp[p] \in Temps
        /\ pc[p] \in {"rollMarker", "rollTemp"} => mishaps # 0

\* What the marker and the record name is fsynced, and so is what will become them.
Kept ==
    /\ \A n \in {"marker", "record"} :
          /\ dir[n] # Nothing => content[dir[n]] = "kept"
          /\ durable[n] # Nothing => content[durable[n]] = "kept"
    /\ \A p \in Procs :
          pc[p] \in {"link", "publish"} /\ dir[temp[p]] # Nothing =>
              content[dir[temp[p]]] = "kept"

\* What is relied on once a record has been published, and before.
Relied ==
    \A p \in Procs :
        /\ pc[p] \in Writing \cup {"syncLink", "dropTemp", "syncDrop"} /\ ~rolled =>
              dir["marker"] # Nothing
        /\ pc[p] \in Published \ {"syncPublish"} /\ ~rolled => durable["marker"] # Nothing
        /\ pc[p] \in Published => dir["record"] # Nothing
        /\ pc[p] \in Published \ {"syncPublish"} /\ ~broken =>
              dir["record"] = durable["record"]

\* Somebody else's directory: everybody is refused before doing anything.
Refused ==
    origin.dir["foreign"] # Nothing /\ origin.dir["marker"] = Nothing =>
        /\ dir = origin.dir /\ durable = origin.dir /\ private = origin.private
        /\ dir["lock"] = Nothing
        /\ \A p \in Procs :
              /\ pc[p] \in Ended \cup Before \cup {"ensure", "empty"}
              /\ pc[p] = "ensure" => kind[p] = "create"

\* An operation that nothing excuses: the store stays owned, nobody is
\* marking it, and what it made itself is still there.
Serving(p) ==
    /\ pc[p] \notin Ended =>
          /\ Owned
          /\ \A q \in Procs : pc[q] \notin Marking
          /\ pc[p] \notin Creating \cup {"empty", "checkEmpty", "chmod", "confirm"}
          /\ kind[p] = "adopt" => pc[p] = "check"
    /\ pc[p] \in {"lockTry", "lockCheck"} => dir["lock"] = fd[p]
    /\ ~broken /\ pc[p] \in {"fillRecord", "publish", "unlink"} => dir[temp[p]] # Nothing
    /\ ~broken => pc[p] # "failed"
Served == \A p \in Procs : clean[p] => Serving(p)

\* Without mishaps every temporary belongs to somebody who will remove it.
Holders == {"fillMarker", "link", "syncLink", "dropTemp", "fillRecord", "publish"}
Temporaries ==
    mishaps = 0 =>
        \A t \in Temps : dir[t] # Nothing =>
            \E p \in Procs : temp[p] = t /\ pc[p] \in Holders

\* Processes that make an empty store together: one of them is about to
\* publish the marker before any of the others is refused.
Champion == \E p \in Procs : pc[p] \in {"fillMarker", "link"}
Tightened(p) ==
    pc[p] \in {"empty", "confirm"} \cup Creating \/ (pc[p] = "ensure" /\ kind[p] = "create") =>
        private
Founding(p) ==
    /\ pc[p] \in Writing \cup {"syncLink", "dropTemp", "syncDrop", "confirm"} =>
          dir["marker"] # Nothing
    /\ pc[p] \in {"fillMarker", "link"} => dir[temp[p]] # Nothing \/ dir["marker"] # Nothing
    /\ kind[p] = "create" /\ pc[p] \in {"ok", "failed"} => dir["marker"] # Nothing \/ Champion
EmptyAtFirst == mishaps = 0 /\ \A n \in Names : origin.dir[n] = Nothing
FirstUse ==
    EmptyAtFirst =>
        /\ dir["foreign"] = Nothing
        /\ dir["marker"] # Nothing => private
        /\ dir["record"] # Nothing => dir["marker"] # Nothing
        /\ \A p \in Procs : Tightened(p) /\ Founding(p)

IInv ==
    /\ TypeOK /\ Locks /\ Places /\ Kept /\ Relied /\ SavedIsSafe /\ Refused
    /\ Served /\ Temporaries /\ FirstUse

-----------------------------------------------------------------------------
(***************************************************************************)
(* Objects and names                                                       *)
(***************************************************************************)

\* A set of numbers that is not empty has a least element.
LEMMA Least ==
    ASSUME NEW S \in SUBSET Nat, S # {}
    PROVE  \E m \in S : \A k \in S : m <= k
<1> DEFINE R == {pair \in Nat \X Nat : pair[1] < pair[2]}
<1>1. IsWellFoundedOn(R, Nat)
  BY NatLessThanWellFounded DEF OpToRel
<1>2. PICK m \in S : \A k \in S : <<k, m>> \notin R
  <2> HIDE DEF R
  <2> QED
    BY <1>1, WFMin
<1>3. \A k \in S : ~(k < m)
  BY <1>2
<1> QED
  BY <1>3

\* A new object is none that is named or held.
LEMMA FreshIsFree ==
    ASSUME InUse \cap Objects # Objects
    PROVE  Fresh \in Objects /\ Fresh \notin InUse
<1>1. Objects \ InUse \in SUBSET Nat /\ Objects \ InUse # {}
  BY BoundsAssumption DEF Objects
<1>2. \E o \in Objects \ InUse : \A q \in Objects \ InUse : o <= q
  <2> HIDE DEF InUse, Objects
  <2> QED
    BY <1>1, Least
<1> QED
  BY <1>2 DEF Fresh

\* A new temporary name is one nobody has in mind.
LEMMA TempIsFree ==
    ASSUME FreeTemps # {}, NEW t, t = CHOOSE x \in FreeTemps : TRUE
    PROVE  /\ t \in Temps /\ dir[t] = Nothing
           /\ \A q \in Procs : temp[q] # t
BY DEF FreeTemps

\* Removing a temporary removes nothing else.
LEMMA OthersStay ==
    ASSUME TypeOK
    PROVE  /\ \A p \in Procs, n \in Known : Without(dir, temp[p])[n] = dir[n]
           /\ \A n \in Names, m \in Names : n # m => Without(dir, n)[m] = dir[m]
           /\ \A n \in Names : Without(dir, n)[n] = Nothing
<1>1. \A p \in Procs, n \in Known : temp[p] # n
  BY NamesAssumption DEF TypeOK, Known
<1> QED
  BY <1>1 DEF Without, TypeOK, Known, Names

\* A name keeps its object, or it is the one that is taken away.
LEMMA Removing ==
    ASSUME TypeOK, NEW n
    PROVE  /\ Without(dir, n) \in [Names -> Objects \cup {Nothing}]
           /\ \A m \in Names : Without(dir, n)[m] \in {dir[m], Nothing}
           /\ \A m \in Names : m # n => Without(dir, n)[m] = dir[m]
BY DEF Without, TypeOK

-----------------------------------------------------------------------------
(***************************************************************************)
(* Type correctness                                                        *)
(***************************************************************************)

LEMMA InitTypes == Init => TypeOK
<1> SUFFICES ASSUME Init PROVE TypeOK
  OBVIOUS
<1>1. dir \in [Names -> Objects \cup {Nothing}]
  BY BoundsAssumption DEF Init, Names, Objects
<1>2. sessions \in 0..MaxSessions /\ mishaps \in 0..MaxMishaps
  BY BoundsAssumption DEF Init
<1> QED
  BY <1>1, <1>2 DEF Init, TypeOK, Step, Ended

\* Where a process may go.
LEMMA StepsAre ==
    /\ Ended \subseteq Step /\ Creating \subseteq Step
    /\ Locking \subseteq Step /\ Writing \subseteq Step
    /\ {"forNew", "emptyForNew", "chmod", "ensure", "empty", "confirm", "check",
        "checkEmpty", "inside"} \subseteq Step
BY DEF Step

LEMMA GoTypes ==
    ASSUME TypeOK, NEW p \in Procs, NEW s \in Step, Go(p, s)
    PROVE  pc' \in [Procs -> Step]
BY DEF Go, TypeOK

LEMMA ReleaseTypes ==
    ASSUME TypeOK, NEW p \in Procs, Release(p)
    PROVE  /\ temp' \in [Procs -> Temps \cup {"none"}] /\ listed' \in [Procs -> SUBSET Temps]
           /\ fd' \in [Procs -> Objects \cup {Nothing}] /\ locked' \in [Procs -> BOOLEAN]
BY DEF Release, TypeOK

LEMMA WithoutTypes ==
    ASSUME TypeOK, NEW n
    PROVE  Without(dir, n) \in [Names -> Objects \cup {Nothing}]
BY DEF Without, TypeOK

LEMMA TurnTypes ==
    ASSUME TypeOK, NEW p \in Procs, NEW s \in Step, Turn(p, s)
    PROVE  TypeOK'
<1>1. pc' \in [Procs -> Step]
  BY GoTypes DEF Turn
<1> QED
  BY <1>1 DEF Turn, TypeOK, files, locks, history

LEMMA EndTypes ==
    ASSUME TypeOK, NEW p \in Procs, NEW how \in Ended, End(p, how)
    PROVE  TypeOK'
<1>1. pc' \in [Procs -> Step]
  BY GoTypes, StepsAre DEF End
<1>2. /\ temp' \in [Procs -> Temps \cup {"none"}] /\ listed' \in [Procs -> SUBSET Temps]
      /\ fd' \in [Procs -> Objects \cup {Nothing}] /\ locked' \in [Procs -> BOOLEAN]
  BY ReleaseTypes DEF End
<1> QED
  BY <1>1, <1>2 DEF End, TypeOK, files, history

\* A temporary name has its type because a process that uses one has it (Places).
LEMMA TypesStep == TypeOK /\ Places /\ [Next]_vars => TypeOK'
<1> SUFFICES ASSUME TypeOK, Places, [Next]_vars PROVE TypeOK'
  OBVIOUS
<1>1. ASSUME NEW p \in Procs, Begin(p) PROVE TypeOK'
  <2>1. pc' \in [Procs -> Step]
    BY <1>1, GoTypes, StepsAre DEF Begin
  <2>2. kind' \in [Procs -> {"none", "create", "save", "adopt"}]
    BY <1>1 DEF Begin, TypeOK
  <2>3. clean' \in [Procs -> BOOLEAN]
    BY <1>1 DEF Begin, TypeOK
  <2>4. sessions' \in 0..MaxSessions
    BY <1>1, BoundsAssumption DEF Begin, TypeOK
  <2> QED
    BY <1>1, <2>1, <2>2, <2>3, <2>4 DEF Begin, TypeOK, files, locks
<1>2. ASSUME NEW p \in Procs, Initialise(p) PROVE TypeOK'
  <2>1. CASE MakePrivate(p)
    <3>1. pc' \in [Procs -> Step]
      BY <2>1, GoTypes, StepsAre DEF MakePrivate, Creating
    <3> QED
      BY <2>1, <3>1 DEF MakePrivate, TypeOK, locks, history
  <2>2. CASE ForNewStore(p) \/ TightenIfEmpty(p) \/ EnsureOwnership(p)
             \/ RequireEmpty(p) \/ Confirm(p)
    <3>1. (\E s \in Step : Turn(p, s)) \/ (\E how \in Ended : End(p, how))
      BY <2>2, StepsAre DEF ForNewStore, TightenIfEmpty, EnsureOwnership, RequireEmpty, Confirm,
         Established, Ended, Creating, Writing
    <3> QED
      BY <3>1, TurnTypes, EndTypes
  <2> QED
    BY <1>2, <2>1, <2>2 DEF Initialise
<1>3. ASSUME NEW p \in Procs, CreateMarker(p) PROVE TypeOK'
  <2>1. CASE LookMarker(p)
    BY <2>1, TurnTypes, StepsAre DEF LookMarker, Creating
  <2>2. CASE SyncLink(p) \/ DropLinkedTemp(p)
    <3>1. pc' \in [Procs -> Step]
      BY <2>2, GoTypes, StepsAre DEF SyncLink, DropLinkedTemp, Creating
    <3>2. dir' \in [Names -> Objects \cup {Nothing}]
      BY <2>2, WithoutTypes DEF SyncLink, DropLinkedTemp, DropTemp, TypeOK
    <3> QED
      BY <2>2, <3>1, <3>2 DEF SyncLink, DropLinkedTemp, TypeOK, locks, history
  <2>3. CASE SyncDrop(p)
    <3>1. pc' \in [Procs -> Step]
      BY <2>3, GoTypes, StepsAre DEF SyncDrop, Ended, Writing
    <3>2. /\ temp' \in [Procs -> Temps \cup {"none"}] /\ listed' \in [Procs -> SUBSET Temps]
          /\ fd' \in [Procs -> Objects \cup {Nothing}] /\ locked' \in [Procs -> BOOLEAN]
      <4>1. CASE kind[p] = "save"
        BY <2>3, <4>1 DEF SyncDrop, TypeOK, locks
      <4>2. CASE kind[p] # "save"
        BY <2>3, <4>2, ReleaseTypes DEF SyncDrop
      <4> QED
        BY <4>1, <4>2
    <3> QED
      BY <2>3, <3>1, <3>2 DEF SyncDrop, TypeOK, history
  <2>4. CASE CreateTemp(p)
    <3>1. pc' \in [Procs -> Step]
      BY <2>4, GoTypes, StepsAre DEF CreateTemp, Creating, Writing
    <3>2. PICK t \in Temps : /\ dir' = [dir EXCEPT ![t] = Fresh]
                             /\ temp' = [temp EXCEPT ![p] = t]
      BY <2>4, TempIsFree DEF CreateTemp
    <3>3. Fresh \in Objects
      BY <2>4, FreshIsFree DEF CreateTemp
    <3>4. dir' \in [Names -> Objects \cup {Nothing}]
      BY <3>2, <3>3 DEF TypeOK
    <3>5. temp' \in [Procs -> Temps \cup {"none"}]
      BY <3>2 DEF TypeOK
    <3>6. content' \in [Objects -> {"part", "whole", "kept"}]
      BY <2>4 DEF CreateTemp, TypeOK
    <3> QED
      BY <2>4, <3>1, <3>4, <3>5, <3>6 DEF CreateTemp, TypeOK, locks, history
  <2>5. CASE Fill(p)
    <3>1. pc' \in [Procs -> Step]
      BY <2>5, GoTypes, StepsAre DEF Fill, Creating, Writing
    <3>2. content' \in [Objects -> {"part", "whole", "kept"}]
      BY <2>5 DEF Fill, Filled, TypeOK
    <3> QED
      BY <2>5, <3>1, <3>2 DEF Fill, TypeOK, locks, history
  <2>6. CASE Link(p)
    <3>1. CASE dir[temp[p]] # Nothing /\ dir["marker"] = Nothing
      <4>1. pc' \in [Procs -> Step]
        BY <2>6, <3>1, GoTypes, StepsAre DEF Link, Creating
      <4>2. dir' = [dir EXCEPT !["marker"] = dir[temp[p]]]
        BY <2>6, <3>1 DEF Link
      <4>3. temp[p] \in Names
        BY <2>6 DEF Link, Places, HoldingTemp, Marking, Creating, Names
      <4>4. dir' \in [Names -> Objects \cup {Nothing}]
        BY <4>2, <4>3 DEF TypeOK
      <4> QED
        BY <2>6, <3>1, <4>1, <4>4 DEF Link, TypeOK, locks, history
    <3>2. CASE ~(dir[temp[p]] # Nothing /\ dir["marker"] = Nothing)
      <4>1. pc' \in [Procs -> Step]
        BY <2>6, <3>2, GoTypes, StepsAre DEF Link, Ended
      <4>2. dir' \in [Names -> Objects \cup {Nothing}]
        BY <2>6, <3>2, WithoutTypes DEF Link, DropTemp
      <4>3. /\ temp' \in [Procs -> Temps \cup {"none"}] /\ listed' \in [Procs -> SUBSET Temps]
            /\ fd' \in [Procs -> Objects \cup {Nothing}] /\ locked' \in [Procs -> BOOLEAN]
        <5>1. CASE dir[temp[p]] = Nothing
          BY <2>6, <3>2, <5>1, ReleaseTypes DEF Link
        <5>2. CASE dir[temp[p]] # Nothing
          BY <2>6, <3>2, <5>2 DEF Link, TypeOK, locks
        <5> QED
          BY <5>1, <5>2
      <4> QED
        BY <2>6, <3>2, <4>1, <4>2, <4>3 DEF Link, TypeOK, history
    <3> QED
      BY <3>1, <3>2
  <2>7. CASE RollMarker(p)
    <3>1. pc' \in [Procs -> Step]
      BY <2>7, GoTypes, StepsAre DEF RollMarker, Creating
    <3>2. dir' \in [Names -> Objects \cup {Nothing}]
      BY <2>7, WithoutTypes DEF RollMarker, TypeOK
    <3>3. rolled' \in BOOLEAN
      BY <2>7 DEF RollMarker, TypeOK
    <3> QED
      BY <2>7, <3>1, <3>2, <3>3 DEF RollMarker, TypeOK, locks
  <2>8. CASE RollTemp(p)
    <3>1. pc' \in [Procs -> Step]
      BY <2>8, GoTypes, StepsAre DEF RollTemp, Ended
    <3>2. dir' \in [Names -> Objects \cup {Nothing}]
      BY <2>8, WithoutTypes DEF RollTemp, DropTemp, TypeOK
    <3>3. /\ temp' \in [Procs -> Temps \cup {"none"}] /\ listed' \in [Procs -> SUBSET Temps]
          /\ fd' \in [Procs -> Objects \cup {Nothing}] /\ locked' \in [Procs -> BOOLEAN]
      BY <2>8, ReleaseTypes DEF RollTemp
    <3> QED
      BY <2>8, <3>1, <3>2, <3>3 DEF RollTemp, TypeOK, history
  <2> QED
    BY <1>3, <2>1, <2>2, <2>3, <2>4, <2>5, <2>6, <2>7, <2>8 DEF CreateMarker
<1>4. ASSUME NEW p \in Procs, Lock(p) PROVE TypeOK'
  <2>1. CASE Check(p) \/ CheckEmpty(p) \/ LockLook(p) \/ LockCheck(p) \/ Enter(p)
    <3>1. (\E s \in Step : Turn(p, s)) \/ (\E how \in Ended : End(p, how))
      BY <2>1, StepsAre DEF Check, CheckEmpty, LockLook, LockCheck, Enter, Ended, Locking, Writing
    <3> QED
      BY <3>1, TurnTypes, EndTypes
  <2>2. CASE LockMake(p)
    <3>1. CASE dir["lock"] # Nothing
      BY <2>2, <3>1, TurnTypes, StepsAre DEF LockMake, Locking
    <3>2. CASE dir["lock"] = Nothing
      <4>1. pc' \in [Procs -> Step]
        BY <2>2, <3>2, GoTypes, StepsAre DEF LockMake, Locking
      <4>2. Fresh \in Objects
        BY <2>2, <3>2, FreshIsFree DEF LockMake
      <4>3. dir' = [dir EXCEPT !["lock"] = Fresh] /\ fd' = [fd EXCEPT ![p] = Fresh]
        BY <2>2, <3>2 DEF LockMake
      <4>4. dir' \in [Names -> Objects \cup {Nothing}] /\ fd' \in [Procs -> Objects \cup {Nothing}]
        BY <4>2, <4>3 DEF TypeOK
      <4> QED
        BY <2>2, <3>2, <4>1, <4>4 DEF LockMake, TypeOK, history
    <3> QED
      BY <3>1, <3>2
  <2>3. CASE LockOpen(p)
    <3>1. CASE dir["lock"] = Nothing
      BY <2>3, <3>1, TurnTypes, StepsAre DEF LockOpen, Locking
    <3>2. CASE dir["lock"] # Nothing
      <4>1. pc' \in [Procs -> Step]
        BY <2>3, <3>2, GoTypes, StepsAre DEF LockOpen, Locking
      <4>2. fd' \in [Procs -> Objects \cup {Nothing}]
        BY <2>3, <3>2 DEF LockOpen, TypeOK, Names, Known
      <4> QED
        BY <2>3, <3>2, <4>1, <4>2 DEF LockOpen, TypeOK, files, history
    <3> QED
      BY <3>1, <3>2
  <2>4. CASE LockTry(p)
    <3>1. pc' \in [Procs -> Step]
      BY <2>4, GoTypes, StepsAre DEF LockTry, Locking
    <3> QED
      BY <2>4, <3>1 DEF LockTry, TypeOK, files, history
  <2> QED
    BY <1>4, <2>1, <2>2, <2>3, <2>4 DEF Lock
<1>5. ASSUME NEW p \in Procs, Save(p) PROVE TypeOK'
  <2>1. CASE Publish(p)
    <3>1. CASE dir[temp[p]] = Nothing
      BY <2>1, <3>1, EndTypes DEF Publish, Ended
    <3>2. CASE dir[temp[p]] # Nothing
      <4>1. pc' \in [Procs -> Step]
        BY <2>1, <3>2, GoTypes, StepsAre DEF Publish, Writing
      <4>2. dir[temp[p]] \in Objects
        BY <2>1, <3>2 DEF Publish, TypeOK, Places, HoldingTemp, Names
      <4>3. dir' \in [Names -> Objects \cup {Nothing}] /\ promised' \subseteq Objects
        BY <2>1, <3>2, <4>2, WithoutTypes DEF Publish, TypeOK
      <4>4. temp' \in [Procs -> Temps \cup {"none"}]
        BY <2>1, <3>2 DEF Publish, TypeOK
      <4> QED
        BY <2>1, <3>2, <4>1, <4>3, <4>4 DEF Publish, TypeOK, locks
    <3> QED
      BY <3>1, <3>2
  <2>2. CASE SyncPublish(p)
    <3>1. pc' \in [Procs -> Step]
      BY <2>2, GoTypes, StepsAre DEF SyncPublish, Writing
    <3> QED
      BY <2>2, <3>1 DEF SyncPublish, TypeOK, locks, history
  <2>3. CASE List(p)
    <3>1. CASE Owned
      <4>1. pc' \in [Procs -> Step]
        BY <2>3, <3>1, GoTypes, StepsAre DEF List, Writing
      <4>2. listed' \in [Procs -> SUBSET Temps]
        BY <2>3, <3>1 DEF List, TypeOK
      <4> QED
        BY <2>3, <3>1, <4>1, <4>2 DEF List, TypeOK, files, locks, history
    <3> QED
      BY <2>3, <3>1, EndTypes DEF List, Ended
  <2>4. CASE Sweep(p)
    <3>1. CASE listed[p] = {}
      BY <2>4, <3>1, TurnTypes, StepsAre DEF Sweep, Writing
    <3>2. CASE listed[p] # {}
      <4>1. PICK t \in listed[p] :
              /\ listed' = [listed EXCEPT ![p] = @ \ {t}]
              /\ temp' = IF dir[t] = Nothing THEN temp ELSE [temp EXCEPT ![p] = t]
              /\ Go(p, IF dir[t] = Nothing THEN "sweep" ELSE "unlink")
        BY <2>4, <3>2 DEF Sweep
      <4>2. pc' \in [Procs -> Step]
        BY <4>1, GoTypes, StepsAre DEF Writing
      <4>3. listed' \in [Procs -> SUBSET Temps] /\ temp' \in [Procs -> Temps \cup {"none"}]
        BY <4>1 DEF TypeOK
      <4> QED
        BY <2>4, <3>2, <4>2, <4>3 DEF Sweep, TypeOK, files, locks, history
    <3> QED
      BY <3>1, <3>2
  <2>5. CASE Unlink(p)
    <3>1. CASE dir[temp[p]] = Nothing
      BY <2>5, <3>1, EndTypes DEF Unlink, Ended
    <3>2. CASE dir[temp[p]] # Nothing
      <4>1. pc' \in [Procs -> Step]
        BY <2>5, <3>2, GoTypes, StepsAre DEF Unlink, Writing
      <4>2. dir' \in [Names -> Objects \cup {Nothing}]
        BY <2>5, <3>2, WithoutTypes DEF Unlink, DropTemp
      <4> QED
        BY <2>5, <3>2, <4>1, <4>2 DEF Unlink, TypeOK, locks, history
    <3> QED
      BY <3>1, <3>2
  <2>6. CASE Verify(p)
    <3>1. CASE dir["record"] = Nothing
      BY <2>6, <3>1, EndTypes DEF Verify, Ended
    <3>2. CASE dir["record"] # Nothing
      <4>1. pc' \in [Procs -> Step]
        BY <2>6, <3>2, GoTypes, StepsAre DEF Verify, Ended
      <4>2. promised' \subseteq Objects
        BY <2>6, <3>2 DEF Verify, TypeOK, Names, Known
      <4>3. /\ temp' \in [Procs -> Temps \cup {"none"}] /\ listed' \in [Procs -> SUBSET Temps]
            /\ fd' \in [Procs -> Objects \cup {Nothing}] /\ locked' \in [Procs -> BOOLEAN]
        BY <2>6, <3>2, ReleaseTypes DEF Verify
      <4> QED
        BY <2>6, <3>2, <4>1, <4>2, <4>3 DEF Verify, TypeOK, files
    <3> QED
      BY <3>1, <3>2
  <2> QED
    BY <1>5, <2>1, <2>2, <2>3, <2>4, <2>5, <2>6 DEF Save
<1>6. ASSUME NEW p \in Procs, Fault(p) PROVE TypeOK'
  <2>1. mishaps' \in 0..MaxMishaps /\ clean' \in [Procs -> BOOLEAN]
    BY <1>6, BoundsAssumption DEF Fault, Mishap, TypeOK
  <2>2. dir' \in [Names -> Objects \cup {Nothing}]
    BY <1>6, WithoutTypes DEF Fault, DropTemp, TypeOK
  <2>3. pc' \in [Procs -> Step]
    BY <1>6, GoTypes, StepsAre DEF Fault, Ended, Creating
  <2>4. /\ temp' \in [Procs -> Temps \cup {"none"}] /\ listed' \in [Procs -> SUBSET Temps]
        /\ fd' \in [Procs -> Objects \cup {Nothing}] /\ locked' \in [Procs -> BOOLEAN]
    BY <1>6, ReleaseTypes DEF Fault, TypeOK, locks
  <2> QED
    BY <1>6, <2>1, <2>2, <2>3, <2>4 DEF Fault, TypeOK
<1>7. ASSUME NEW p \in Procs, Crash(p) PROVE TypeOK'
  <2>1. mishaps' \in 0..MaxMishaps
    BY <1>7, BoundsAssumption DEF Crash, Mishap, TypeOK
  <2>2. pc' \in [Procs -> Step]
    BY <1>7, GoTypes, StepsAre DEF Crash, Ended
  <2>3. /\ temp' \in [Procs -> Temps \cup {"none"}] /\ listed' \in [Procs -> SUBSET Temps]
        /\ fd' \in [Procs -> Objects \cup {Nothing}] /\ locked' \in [Procs -> BOOLEAN]
    BY <1>7, ReleaseTypes DEF Crash
  <2> QED
    BY <1>7, <2>1, <2>2, <2>3 DEF Crash, TypeOK, files
<1>8. CASE PowerLoss
  <2>1. mishaps' \in 0..MaxMishaps
    BY <1>8, BoundsAssumption DEF PowerLoss, Mishap, TypeOK
  <2>2. dir' \in [Names -> Objects \cup {Nothing}] /\ durable' = dir'
    BY <1>8 DEF PowerLoss, TypeOK
  <2>3. content' \in [Objects -> {"part", "whole", "kept"}]
    BY <1>8 DEF PowerLoss, TypeOK
  <2>4. /\ pc' = [p \in Procs |-> "idle"] /\ "idle" \in Step
        /\ temp' = [p \in Procs |-> "none"] /\ listed' = [p \in Procs |-> {}]
        /\ fd' = [p \in Procs |-> Nothing] /\ locked' = [p \in Procs |-> FALSE]
    BY <1>8, StepsAre DEF PowerLoss, Ended
  <2> QED
    BY <1>8, <2>1, <2>2, <2>3, <2>4 DEF PowerLoss, TypeOK
<1>9. CASE LoseLock
  <2>1. mishaps' \in 0..MaxMishaps /\ broken' \in BOOLEAN
    BY <1>9, BoundsAssumption DEF LoseLock, Mishap, TypeOK
  <2>2. dir' \in [Names -> Objects \cup {Nothing}]
    BY <1>9, WithoutTypes DEF LoseLock
  <2> QED
    BY <1>9, <2>1, <2>2 DEF LoseLock, TypeOK, locks, procs
<1>10. CASE UNCHANGED vars
  BY <1>10 DEF vars, files, locks, procs, history, TypeOK
<1> QED
  BY <1>1, <1>2, <1>3, <1>4, <1>5, <1>6, <1>7, <1>8, <1>9, <1>10 DEF Next, Advance

-----------------------------------------------------------------------------
(***************************************************************************)
(* Locks and places                                                        *)
(***************************************************************************)

LEMMA InitLocks == Init => Locks /\ Places
BY DEF Init, Locks, Places, Ended, Before, Locking, Writing, Creating, Working, Marking, HoldingTemp, Inside

LEMMA LocksStep ==
    ASSUME TypeOK, Locks, Places, [Next]_vars
    PROVE  Locks'
<1> USE DEF Locks, Places, TypeOK, Ended, Before, Working, Inside, Go, Creating, Writing,
            Locking, files, locks, history, Turn, End, Release
<1>1. ASSUME NEW p \in Procs, Begin(p) PROVE Locks'
  BY <1>1 DEF Begin
<1>2. ASSUME NEW p \in Procs, Initialise(p) PROVE Locks'
  <2>1. CASE ForNewStore(p) \/ TightenIfEmpty(p) \/ MakePrivate(p)
    BY <2>1 DEF ForNewStore, TightenIfEmpty, MakePrivate
  <2>2. CASE EnsureOwnership(p)
    BY <2>2 DEF EnsureOwnership, Established
  <2>3. CASE RequireEmpty(p) \/ Confirm(p)
    BY <2>3 DEF RequireEmpty, Confirm, Established
  <2> QED
    BY <1>2, <2>1, <2>2, <2>3 DEF Initialise
<1>3. ASSUME NEW p \in Procs, CreateMarker(p) PROVE Locks'
  <2> USE OthersStay DEF HoldingTemp, Marking, DropTemp, Names, Known
  <2>1. CASE LookMarker(p) \/ Fill(p) \/ SyncLink(p) \/ DropLinkedTemp(p)
    BY <2>1 DEF LookMarker, Fill, SyncLink, DropLinkedTemp
  <2>2. CASE CreateTemp(p)
    BY <2>2, TempIsFree DEF CreateTemp
  <2>3. CASE Link(p)
    BY <2>3 DEF Link
  <2>4. CASE SyncDrop(p)
    BY <2>4 DEF SyncDrop
  <2>5. CASE RollMarker(p) \/ RollTemp(p)
    BY <2>5 DEF RollMarker, RollTemp
  <2> QED
    BY <1>3, <2>1, <2>2, <2>3, <2>4, <2>5 DEF CreateMarker
<1>4. ASSUME NEW p \in Procs, Lock(p) PROVE Locks'
  <2>1. CASE Check(p) \/ CheckEmpty(p) \/ LockLook(p)
    BY <2>1 DEF Check, CheckEmpty, LockLook
  <2>2. CASE LockMake(p)
    BY <2>2, FreshIsFree DEF LockMake, InUse
  <2>3. CASE LockOpen(p)
    BY <2>3 DEF LockOpen
  <2>4. CASE LockTry(p)
    BY <2>4 DEF LockTry
  <2>5. CASE LockCheck(p) \/ Enter(p)
    BY <2>5 DEF LockCheck, Enter
  <2> QED
    BY <1>4, <2>1, <2>2, <2>3, <2>4, <2>5 DEF Lock
<1>5. ASSUME NEW p \in Procs, Save(p) PROVE Locks'
  <2> USE OthersStay DEF HoldingTemp, Marking, DropTemp, Names, Known
  <2>1. CASE Publish(p)
    <3>1. dir[temp[p]] # Nothing => dir'["lock"] = dir["lock"]
      <4>1. Without(dir, temp[p]) \in [Names -> Objects \cup {Nothing}]
        BY WithoutTypes
      <4> QED
        BY <2>1, <4>1 DEF Publish
    <3> QED
      BY <2>1, <3>1 DEF Publish
  <2>2. CASE SyncPublish(p) \/ List(p) \/ Verify(p)
    BY <2>2 DEF SyncPublish, List, Verify
  <2>3. CASE Sweep(p)
    BY <2>3 DEF Sweep
  <2>4. CASE Unlink(p)
    BY <2>4 DEF Unlink
  <2> QED
    BY <1>5, <2>1, <2>2, <2>3, <2>4 DEF Save
<1>6. ASSUME NEW p \in Procs, Fault(p) PROVE Locks'
  BY <1>6, OthersStay DEF Fault, DropTemp, HoldingTemp, Marking, Names, Known
<1>7. ASSUME NEW p \in Procs, Crash(p) PROVE Locks'
  BY <1>7 DEF Crash
<1>8. CASE PowerLoss
  BY <1>8 DEF PowerLoss
<1>9. CASE LoseLock
  BY <1>9 DEF LoseLock, Without, procs
<1>10. CASE UNCHANGED vars
  BY <1>10 DEF vars, procs
<1> QED
  BY <1>1, <1>2, <1>3, <1>4, <1>5, <1>6, <1>7, <1>8, <1>9, <1>10 DEF Next, Advance

LEMMA PlacesStep ==
    ASSUME TypeOK, Places, [Next]_vars
    PROVE  Places'
<1> USE DEF Places, TypeOK, Ended, HoldingTemp, Marking, Go, Creating, Writing,
            Locking, files, locks, history, Turn, End, Release
<1>1. ASSUME NEW p \in Procs, Begin(p) PROVE Places'
  BY <1>1 DEF Begin
<1>2. ASSUME NEW p \in Procs, Initialise(p) PROVE Places'
  <2>1. CASE ForNewStore(p) \/ TightenIfEmpty(p) \/ MakePrivate(p)
    BY <2>1 DEF ForNewStore, TightenIfEmpty, MakePrivate
  <2>2. CASE EnsureOwnership(p)
    BY <2>2 DEF EnsureOwnership, Established
  <2>3. CASE RequireEmpty(p) \/ Confirm(p)
    BY <2>3 DEF RequireEmpty, Confirm, Established
  <2> QED
    BY <1>2, <2>1, <2>2, <2>3 DEF Initialise
<1>3. ASSUME NEW p \in Procs, CreateMarker(p) PROVE Places'
  <2>1. CASE LookMarker(p) \/ Fill(p) \/ SyncLink(p) \/ DropLinkedTemp(p)
    BY <2>1 DEF LookMarker, Fill, SyncLink, DropLinkedTemp
  <2>2. CASE CreateTemp(p)
    BY <2>2, TempIsFree DEF CreateTemp
  <2>3. CASE Link(p)
    BY <2>3 DEF Link
  <2>4. CASE SyncDrop(p)
    BY <2>4 DEF SyncDrop
  <2>5. CASE RollMarker(p) \/ RollTemp(p)
    BY <2>5 DEF RollMarker, RollTemp
  <2> QED
    BY <1>3, <2>1, <2>2, <2>3, <2>4, <2>5 DEF CreateMarker
<1>4. ASSUME NEW p \in Procs, Lock(p) PROVE Places'
  <2>1. CASE Check(p) \/ CheckEmpty(p) \/ LockLook(p)
    BY <2>1 DEF Check, CheckEmpty, LockLook
  <2>2. CASE LockMake(p) \/ LockOpen(p) \/ LockTry(p)
    BY <2>2 DEF LockMake, LockOpen, LockTry
  <2>3. CASE LockCheck(p) \/ Enter(p)
    BY <2>3 DEF LockCheck, Enter
  <2> QED
    BY <1>4, <2>1, <2>2, <2>3 DEF Lock
<1>5. ASSUME NEW p \in Procs, Save(p) PROVE Places'
  <2>1. CASE Publish(p)
    BY <2>1 DEF Publish
  <2>2. CASE SyncPublish(p) \/ List(p) \/ Verify(p)
    BY <2>2 DEF SyncPublish, List, Verify
  <2>3. CASE Sweep(p)
    BY <2>3 DEF Sweep
  <2>4. CASE Unlink(p)
    BY <2>4 DEF Unlink
  <2> QED
    BY <1>5, <2>1, <2>2, <2>3, <2>4 DEF Save
<1>6. ASSUME NEW p \in Procs, Fault(p) PROVE Places'
  BY <1>6 DEF Fault, Mishap
<1>7. ASSUME NEW p \in Procs, Crash(p) PROVE Places'
  BY <1>7 DEF Crash, Mishap
<1>8. CASE PowerLoss
  BY <1>8 DEF PowerLoss, Mishap
<1>9. CASE LoseLock
  BY <1>9 DEF LoseLock, Mishap, procs
<1>10. CASE UNCHANGED vars
  BY <1>10 DEF vars, procs
<1> QED
  BY <1>1, <1>2, <1>3, <1>4, <1>5, <1>6, <1>7, <1>8, <1>9, <1>10 DEF Next, Advance

-----------------------------------------------------------------------------
(***************************************************************************)
(* What is published is kept                                               *)
(***************************************************************************)

LEMMA InitKept == Init => Kept
<1> SUFFICES ASSUME Init PROVE Kept
  OBVIOUS
<1>1. dir \in [Names -> Objects \cup {Nothing}] /\ durable = dir
  BY InitTypes DEF Init, TypeOK
<1> QED
  BY <1>1 DEF Init, Kept, Names, Known

\* Names may go away, or come to denote what is kept.
LEMMA KeptStays ==
    ASSUME Kept, TypeOK, Places,
           \A m \in Names : dir'[m] \in {dir[m], Nothing} \/ content[dir'[m]] = "kept",
           durable' \in {durable, dir'},
           content' = content,
           \A q \in Procs : pc'[q] \in {"link", "publish"} => pc[q] = pc'[q] /\ temp'[q] = temp[q]
    PROVE  Kept'
<1>1. {"marker", "record"} \subseteq Names
  BY DEF Names, Known
<1>2. ASSUME NEW n \in {"marker", "record"}
      PROVE  /\ dir'[n] # Nothing => content'[dir'[n]] = "kept"
             /\ durable'[n] # Nothing => content'[durable'[n]] = "kept"
  <2>1. dir'[n] = dir[n] \/ dir'[n] = Nothing \/ content[dir'[n]] = "kept"
    BY <1>1
  <2>2. durable'[n] = durable[n] \/ durable'[n] = dir'[n]
    OBVIOUS
  <2> QED
    BY <2>1, <2>2 DEF Kept
<1>3. ASSUME NEW q \in Procs, pc'[q] \in {"link", "publish"}, dir'[temp'[q]] # Nothing
      PROVE  content'[dir'[temp'[q]]] = "kept"
  <2>1. pc[q] = pc'[q] /\ temp'[q] = temp[q]
    BY <1>3
  <2>2. temp[q] \in Names
    BY <1>3, <2>1 DEF Places, HoldingTemp, Marking, Creating, Names
  <2>3. dir'[temp[q]] = dir[temp[q]] \/ content[dir'[temp[q]]] = "kept"
    BY <1>3, <2>1, <2>2
  <2> QED
    BY <1>3, <2>1, <2>3 DEF Kept
<1> QED
  BY <1>2, <1>3 DEF Kept

LEMMA KeptStep ==
    ASSUME TypeOK, Locks, Places, Kept, [Next]_vars
    PROVE  Kept'
<1> USE OthersStay, NamesAssumption DEF Kept, TypeOK, Places, Ended, HoldingTemp, Marking,
        Creating, Writing, Locking, Go, files, locks, history, Turn, End, Release, Names,
        Known, DropTemp, InUse, Named
<1>1. ASSUME NEW p \in Procs, Begin(p) PROVE Kept'
  BY <1>1 DEF Begin
<1>2. ASSUME NEW p \in Procs, Initialise(p) PROVE Kept'
  <2>1. CASE ForNewStore(p) \/ TightenIfEmpty(p) \/ MakePrivate(p)
    BY <2>1 DEF ForNewStore, TightenIfEmpty, MakePrivate
  <2>2. CASE EnsureOwnership(p)
    BY <2>2 DEF EnsureOwnership, Established
  <2>3. CASE RequireEmpty(p) \/ Confirm(p)
    BY <2>3 DEF RequireEmpty, Confirm, Established
  <2> QED
    BY <1>2, <2>1, <2>2, <2>3 DEF Initialise
<1>3. ASSUME NEW p \in Procs, CreateMarker(p) PROVE Kept'
  <2>1. CASE LookMarker(p) \/ SyncLink(p)
    BY <2>1 DEF LookMarker, SyncLink
  <2>2. CASE DropLinkedTemp(p)
    <3>1. \A m \in Names : dir'[m] \in {dir[m], Nothing}
      BY <2>2, Removing DEF DropLinkedTemp
    <3>2. /\ durable' = durable /\ content' = content /\ temp' = temp
          /\ pc' = [pc EXCEPT ![p] = "syncDrop"]
      BY <2>2 DEF DropLinkedTemp
    <3>3. \A q \in Procs : pc'[q] \in {"link", "publish"} => pc[q] = pc'[q]
      BY <3>2
    <3> HIDE DEF Kept, TypeOK, Places
    <3> QED
      BY <3>1, <3>2, <3>3, KeptStays
  <2>3. CASE Fill(p)
    BY <2>3 DEF Fill, Filled
  <2>4. CASE CreateTemp(p)
    BY <2>4, FreshIsFree, TempIsFree DEF CreateTemp
  <2>5. CASE Link(p)
    BY <2>5 DEF Link
  <2>6. CASE SyncDrop(p)
    BY <2>6 DEF SyncDrop
  <2>7. CASE RollMarker(p)
    BY <2>7 DEF RollMarker
  <2>8. CASE RollTemp(p)
    BY <2>8 DEF RollTemp
  <2> QED
    BY <1>3, <2>1, <2>2, <2>3, <2>4, <2>5, <2>6, <2>7, <2>8 DEF CreateMarker
<1>4. ASSUME NEW p \in Procs, Lock(p) PROVE Kept'
  <2>1. CASE Check(p) \/ CheckEmpty(p) \/ LockLook(p)
    BY <2>1 DEF Check, CheckEmpty, LockLook
  <2>2. CASE LockMake(p)
    BY <2>2, FreshIsFree DEF LockMake
  <2>3. CASE LockOpen(p) \/ LockTry(p)
    BY <2>3 DEF LockOpen, LockTry
  <2>4. CASE LockCheck(p) \/ Enter(p)
    BY <2>4 DEF LockCheck, Enter
  <2> QED
    BY <1>4, <2>1, <2>2, <2>3, <2>4 DEF Lock
<1>5. ASSUME NEW p \in Procs, Save(p) PROVE Kept'
  <2>1. CASE Publish(p)
    <3>1. CASE dir[temp[p]] = Nothing
      BY <2>1, <3>1 DEF Publish
    <3>2. CASE dir[temp[p]] # Nothing
      <4>1. dir' = [Without(dir, temp[p]) EXCEPT !["record"] = dir[temp[p]]]
        BY <2>1, <3>2 DEF Publish
      <4>2. /\ dir'["record"] = dir[temp[p]]
            /\ \A m \in Names \ {"record"} : dir'[m] \in {dir[m], Nothing}
        BY <4>1, Removing
      <4>3. \A m \in Names : dir'[m] \in {dir[m], Nothing} \/ content[dir'[m]] = "kept"
        BY <2>1, <3>2, <4>2 DEF Publish
      <4>4. durable' = durable /\ content' = content
        BY <2>1, <3>2 DEF Publish
      <4>5. \A q \in Procs : pc'[q] \in {"link", "publish"} =>
                                  pc[q] = pc'[q] /\ temp'[q] = temp[q]
        BY <2>1, <3>2 DEF Publish
      <4> HIDE DEF Kept, TypeOK, Places
      <4> QED
        BY <4>3, <4>4, <4>5, KeptStays
    <3> QED
      BY <3>1, <3>2
  <2>2. CASE SyncPublish(p) \/ List(p)
    BY <2>2 DEF SyncPublish, List
  <2>3. CASE Verify(p)
    BY <2>3 DEF Verify
  <2>4. CASE Sweep(p)
    BY <2>4 DEF Sweep
  <2>5. CASE Unlink(p)
    BY <2>5 DEF Unlink
  <2> QED
    BY <1>5, <2>1, <2>2, <2>3, <2>4, <2>5 DEF Save
<1>6. ASSUME NEW p \in Procs, Fault(p) PROVE Kept'
  BY <1>6 DEF Fault, Mishap
<1>7. ASSUME NEW p \in Procs, Crash(p) PROVE Kept'
  BY <1>7 DEF Crash, Mishap
<1>8. CASE PowerLoss
  BY <1>8 DEF PowerLoss, Mishap
<1>9. CASE LoseLock
  <2>1. \A m \in Names : dir'[m] \in {dir[m], Nothing}
    BY <1>9, Removing DEF LoseLock
  <2>2. durable' = durable /\ content' = content /\ temp' = temp /\ pc' = pc
    BY <1>9 DEF LoseLock, procs
  <2> HIDE DEF Kept, TypeOK, Places
  <2> QED
    BY <2>1, <2>2, KeptStays
<1>10. CASE UNCHANGED vars
  BY <1>10 DEF vars, procs
<1> QED
  BY <1>1, <1>2, <1>3, <1>4, <1>5, <1>6, <1>7, <1>8, <1>9, <1>10 DEF Next, Advance

-----------------------------------------------------------------------------
(***************************************************************************)
(* What a publication rests on, and what a saved record rests on           *)
(***************************************************************************)

\* The lock excludes, while nobody removes the file from under somebody.
LEMMA Exclusive ==
    ASSUME TypeOK, Locks
    PROVE  MutualExclusion
<1> SUFFICES ASSUME ~broken, NEW p \in Procs, NEW q \in Procs, p # q, Inside(p), Inside(q)
             PROVE  FALSE
  BY DEF MutualExclusion
<1>1. dir["lock"] = fd[p] /\ dir["lock"] = fd[q]
  BY DEF Locks
<1>2. fd[p] # fd[q]
  BY DEF Locks, Inside
<1> QED
  BY <1>1, <1>2

\* A process that writes is inside.
LEMMA WritersInside ==
    ASSUME Locks, Places, NEW p \in Procs, pc[p] \in Writing
    PROVE  Inside(p)
BY DEF Locks, Places, Inside, Working, Writing

LEMMA OwnedIsMarked == Owned => dir["marker"] # Nothing /\ Marker # "foreign" /\ private
BY DEF Owned, Marker

LEMMA InitRelied == Init => Relied /\ SavedIsSafe
BY DEF Init, Relied, SavedIsSafe, Writing, Published

LEMMA ReliedStep ==
    ASSUME TypeOK, Locks, Places, Relied, [Next]_vars
    PROVE  Relied'
<1> USE OthersStay DEF Relied, TypeOK, Places, Ended, Creating, Writing, Go, files, locks,
        history, Turn, End, Release, Published, Names, Known, DropTemp
<1>1. ASSUME NEW p \in Procs, Begin(p) PROVE Relied'
  BY <1>1 DEF Begin
<1>2. ASSUME NEW p \in Procs, Initialise(p) PROVE Relied'
  <2>1. CASE ForNewStore(p) \/ TightenIfEmpty(p) \/ MakePrivate(p)
    BY <2>1 DEF ForNewStore, TightenIfEmpty, MakePrivate
  <2>2. CASE EnsureOwnership(p)
    BY <2>2, OwnedIsMarked DEF EnsureOwnership, Established
  <2>3. CASE RequireEmpty(p) \/ Confirm(p)
    BY <2>3, OwnedIsMarked DEF RequireEmpty, Confirm, Established
  <2> QED
    BY <1>2, <2>1, <2>2, <2>3 DEF Initialise
<1>3. ASSUME NEW p \in Procs, CreateMarker(p) PROVE Relied'
  <2>1. CASE LookMarker(p) \/ SyncLink(p)
    BY <2>1 DEF LookMarker, SyncLink
  <2>2. CASE DropLinkedTemp(p)
    BY <2>2 DEF DropLinkedTemp
  <2>3. CASE Fill(p)
    BY <2>3 DEF Fill, Filled
  <2>4. CASE CreateTemp(p)
    BY <2>4, FreshIsFree, TempIsFree DEF CreateTemp
  <2>5. CASE Link(p)
    BY <2>5 DEF Link
  <2>6. CASE SyncDrop(p)
    BY <2>6 DEF SyncDrop
  <2>7. CASE RollMarker(p)
    BY <2>7 DEF RollMarker
  <2>8. CASE RollTemp(p)
    BY <2>8 DEF RollTemp
  <2> QED
    BY <1>3, <2>1, <2>2, <2>3, <2>4, <2>5, <2>6, <2>7, <2>8 DEF CreateMarker
<1>4. ASSUME NEW p \in Procs, Lock(p) PROVE Relied'
  <2>1. CASE Check(p) \/ CheckEmpty(p) \/ LockLook(p)
    BY <2>1 DEF Check, CheckEmpty, LockLook
  <2>2. CASE LockMake(p)
    BY <2>2, FreshIsFree DEF LockMake
  <2>3. CASE LockOpen(p) \/ LockTry(p)
    BY <2>3 DEF LockOpen, LockTry
  <2>4. CASE LockCheck(p) \/ Enter(p)
    BY <2>4, OwnedIsMarked DEF LockCheck, Enter
  <2> QED
    BY <1>4, <2>1, <2>2, <2>3, <2>4 DEF Lock
<1>5. ASSUME NEW p \in Procs, Save(p) PROVE Relied'
  <2>1. CASE Publish(p)
    <3>1. CASE dir[temp[p]] = Nothing
      BY <2>1, <3>1 DEF Publish
    <3>2. CASE dir[temp[p]] # Nothing
      <4>1. dir' = [Without(dir, temp[p]) EXCEPT !["record"] = dir[temp[p]]]
        BY <2>1, <3>2 DEF Publish
      <4>2. dir'["record"] = dir[temp[p]] /\ dir'["marker"] = dir["marker"]
        BY <4>1, Removing, OthersStay
      <4>3. \A q \in Procs : q # p /\ ~broken => pc[q] \notin Writing
        BY <2>1, Exclusive, WritersInside DEF MutualExclusion, Publish
      <4> QED
        BY <2>1, <3>2, <4>2, <4>3 DEF Publish
    <3> QED
      BY <3>1, <3>2
  <2>2. CASE SyncPublish(p) \/ List(p)
    BY <2>2 DEF SyncPublish, List
  <2>3. CASE Verify(p)
    BY <2>3 DEF Verify
  <2>4. CASE Sweep(p)
    BY <2>4 DEF Sweep
  <2>5. CASE Unlink(p)
    BY <2>5 DEF Unlink
  <2> QED
    BY <1>5, <2>1, <2>2, <2>3, <2>4, <2>5 DEF Save
<1>6. ASSUME NEW p \in Procs, Fault(p) PROVE Relied'
  BY <1>6 DEF Fault, Mishap
<1>7. ASSUME NEW p \in Procs, Crash(p) PROVE Relied'
  BY <1>7 DEF Crash, Mishap
<1>8. CASE PowerLoss
  BY <1>8 DEF PowerLoss, Mishap
<1>9. CASE LoseLock
  BY <1>9 DEF LoseLock, Mishap, procs
<1>10. CASE UNCHANGED vars
  BY <1>10 DEF vars, procs
<1> QED
  BY <1>1, <1>2, <1>3, <1>4, <1>5, <1>6, <1>7, <1>8, <1>9, <1>10 DEF Next, Advance

LEMMA SafeStep ==
    ASSUME TypeOK, Locks, Places, Relied, SavedIsSafe, [Next]_vars
    PROVE  SavedIsSafe'
<1> USE OthersStay DEF SavedIsSafe, TypeOK, files, locks, history, Turn, End, Release,
        Names, Known, DropTemp
<1>1. ASSUME NEW p \in Procs, Begin(p) PROVE SavedIsSafe'
  BY <1>1 DEF Begin
<1>2. ASSUME NEW p \in Procs, Initialise(p) PROVE SavedIsSafe'
  <2>1. CASE ForNewStore(p) \/ TightenIfEmpty(p) \/ MakePrivate(p)
    BY <2>1 DEF ForNewStore, TightenIfEmpty, MakePrivate
  <2>2. CASE EnsureOwnership(p)
    BY <2>2 DEF EnsureOwnership, Established
  <2>3. CASE RequireEmpty(p) \/ Confirm(p)
    BY <2>3 DEF RequireEmpty, Confirm, Established
  <2> QED
    BY <1>2, <2>1, <2>2, <2>3 DEF Initialise
<1>3. ASSUME NEW p \in Procs, CreateMarker(p) PROVE SavedIsSafe'
  <2>1. CASE LookMarker(p) \/ SyncLink(p)
    BY <2>1 DEF LookMarker, SyncLink
  <2>2. CASE DropLinkedTemp(p)
    BY <2>2 DEF DropLinkedTemp
  <2>3. CASE Fill(p)
    BY <2>3 DEF Fill, Filled
  <2>4. CASE CreateTemp(p)
    BY <2>4, FreshIsFree, TempIsFree, NamesAssumption DEF CreateTemp
  <2>5. CASE Link(p)
    BY <2>5 DEF Link
  <2>6. CASE SyncDrop(p)
    BY <2>6 DEF SyncDrop
  <2>7. CASE RollMarker(p)
    BY <2>7 DEF RollMarker
  <2>8. CASE RollTemp(p)
    BY <2>8 DEF RollTemp
  <2> QED
    BY <1>3, <2>1, <2>2, <2>3, <2>4, <2>5, <2>6, <2>7, <2>8 DEF CreateMarker
<1>4. ASSUME NEW p \in Procs, Lock(p) PROVE SavedIsSafe'
  <2>1. CASE Check(p) \/ CheckEmpty(p) \/ LockLook(p)
    BY <2>1 DEF Check, CheckEmpty, LockLook
  <2>2. CASE LockMake(p)
    BY <2>2, FreshIsFree DEF LockMake
  <2>3. CASE LockOpen(p) \/ LockTry(p)
    BY <2>3 DEF LockOpen, LockTry
  <2>4. CASE LockCheck(p) \/ Enter(p)
    BY <2>4 DEF LockCheck, Enter
  <2> QED
    BY <1>4, <2>1, <2>2, <2>3, <2>4 DEF Lock
<1>5. ASSUME NEW p \in Procs, Save(p) PROVE SavedIsSafe'
  <2>1. CASE Publish(p)
    <3>1. CASE dir[temp[p]] = Nothing
      BY <2>1, <3>1 DEF Publish
    <3>2. CASE dir[temp[p]] # Nothing
      <4>1. dir' = [Without(dir, temp[p]) EXCEPT !["record"] = dir[temp[p]]]
        BY <2>1, <3>2 DEF Publish
      <4>2. dir'["record"] = dir[temp[p]] /\ dir'["marker"] = dir["marker"]
        BY <4>1, Removing, OthersStay
      <4> QED
        BY <2>1, <3>2, <4>2 DEF Publish
    <3> QED
      BY <3>1, <3>2
  <2>2. CASE SyncPublish(p) \/ List(p)
    BY <2>2 DEF SyncPublish, List
  <2>3. CASE Verify(p)
    <3>1. /\ ~rolled => Nothing \notin {dir["marker"], durable["marker"]}
          /\ ~broken => dir["record"] = durable["record"]
      BY <2>3 DEF Verify, Relied, Published, Writing
    <3> QED
      BY <2>3, <3>1 DEF Verify
  <2>4. CASE Sweep(p)
    BY <2>4 DEF Sweep
  <2>5. CASE Unlink(p)
    BY <2>5 DEF Unlink
  <2> QED
    BY <1>5, <2>1, <2>2, <2>3, <2>4, <2>5 DEF Save
<1>6. ASSUME NEW p \in Procs, Fault(p) PROVE SavedIsSafe'
  BY <1>6 DEF Fault, Mishap
<1>7. ASSUME NEW p \in Procs, Crash(p) PROVE SavedIsSafe'
  BY <1>7 DEF Crash, Mishap
<1>8. CASE PowerLoss
  BY <1>8 DEF PowerLoss, Mishap
<1>9. CASE LoseLock
  BY <1>9 DEF LoseLock, Mishap, procs
<1>10. CASE UNCHANGED vars
  BY <1>10 DEF vars, procs
<1> QED
  BY <1>1, <1>2, <1>3, <1>4, <1>5, <1>6, <1>7, <1>8, <1>9, <1>10 DEF Next, Advance

-----------------------------------------------------------------------------
(***************************************************************************)
(* Somebody else's directory                                               *)
(***************************************************************************)

LEMMA InitRefused == Init => Refused
BY NamesAssumption DEF Init, Refused, Names, Known, Ended

LEMMA OriginStays == [Next]_vars => origin' = origin
BY DEF Next, vars, files, locks, procs, history, Begin, Advance, Fault, Crash, PowerLoss, LoseLock,
       Turn, End, Initialise, ForNewStore, TightenIfEmpty, MakePrivate, EnsureOwnership,
       Established, RequireEmpty, Confirm, CreateMarker, LookMarker, CreateTemp, Fill, Link,
       SyncLink, DropLinkedTemp, SyncDrop, RollMarker, RollTemp, Lock, Check, CheckEmpty,
       LockLook, LockMake, LockOpen, LockTry, LockCheck, Enter, Save, Publish, SyncPublish,
       List, Sweep, Unlink, Verify

LEMMA RefusedStep ==
    ASSUME TypeOK, Places, Refused, [Next]_vars
    PROVE  Refused'
<1> SUFFICES ASSUME origin.dir["foreign"] # Nothing, origin.dir["marker"] = Nothing
             PROVE  Refused'
  BY OriginStays DEF Refused
<1>1. /\ dir = origin.dir /\ durable = origin.dir /\ private = origin.private
      /\ dir["lock"] = Nothing /\ dir["marker"] = Nothing /\ dir["foreign"] # Nothing
      /\ \A p \in Procs : /\ pc[p] \in Ended \cup Before \cup {"ensure", "empty"}
                          /\ pc[p] = "ensure" => kind[p] = "create"
  BY DEF Refused
<1>2. Marker = "missing" /\ ~Owned /\ ~Legacy /\ ~OnlyLock
  BY <1>1 DEF Marker, Owned, Legacy, OnlyLock, Names, Known
<1>3. ASSUME /\ dir' = dir /\ durable' = durable /\ private' = private
             /\ \A p \in Procs : /\ pc'[p] \in Ended \cup Before \cup {"ensure", "empty"}
                                 /\ pc'[p] = "ensure" => kind'[p] = "create"
      PROVE  Refused'
  BY <1>1, <1>3, OriginStays DEF Refused
<1>4. ASSUME NEW p \in Procs,
             \/ Turn(p, "ensure") /\ kind[p] = "create"
             \/ Turn(p, "emptyForNew") \/ Turn(p, "empty") \/ Turn(p, "checkEmpty")
             \/ End(p, "failed")
      PROVE  Refused'
  <2>1. /\ dir' = dir /\ durable' = durable /\ private' = private /\ kind' = kind
        /\ \E s \in {"ensure", "emptyForNew", "empty", "checkEmpty", "failed"} :
              pc' = [pc EXCEPT ![p] = s] /\ (s = "ensure" => kind[p] = "create")
    BY <1>4 DEF Turn, End, Go, files
  <2> QED
    BY <1>1, <1>3, <2>1 DEF TypeOK, Ended, Before
<1>5. ASSUME NEW p \in Procs, Begin(p) PROVE Refused'
  <2>1. /\ dir' = dir /\ durable' = durable /\ private' = private
        /\ \E s \in {"forNew", "check"} : pc' = [pc EXCEPT ![p] = s]
        /\ \A q \in Procs : q # p => kind'[q] = kind[q]
    BY <1>5 DEF Begin, Go, files, TypeOK
  <2> QED
    BY <1>1, <1>3, <2>1 DEF TypeOK, Before, Ended
<1>6. ASSUME NEW p \in Procs, Initialise(p) PROVE Refused'
  <2>1. CASE ForNewStore(p) \/ TightenIfEmpty(p)
    <3>1. kind[p] = "create"
      BY <2>1 DEF ForNewStore, TightenIfEmpty, Places
    <3>2. Turn(p, "ensure") \/ Turn(p, "emptyForNew")
      BY <1>2, <2>1 DEF ForNewStore, TightenIfEmpty
    <3> QED
      BY <1>4, <3>1, <3>2
  <2>2. CASE EnsureOwnership(p) \/ RequireEmpty(p)
    <3>1. Turn(p, "empty") \/ End(p, "failed")
      BY <1>1, <1>2, <2>2 DEF EnsureOwnership, RequireEmpty
    <3> QED
      BY <1>4, <3>1
  <2> QED
    BY <1>1, <1>6, <2>1, <2>2 DEF Initialise, MakePrivate, Confirm, Ended, Before
<1>7. ASSUME NEW p \in Procs, CreateMarker(p) PROVE Refused'
  BY <1>1, <1>7 DEF CreateMarker, LookMarker, CreateTemp, Fill, Link, SyncLink,
                    DropLinkedTemp, SyncDrop, RollMarker, RollTemp, Ended, Before
<1>8. ASSUME NEW p \in Procs, Lock(p) PROVE Refused'
  <2>1. CASE Check(p) \/ CheckEmpty(p)
    <3>1. Turn(p, "checkEmpty") \/ End(p, "failed")
      BY <1>2, <2>1 DEF Check, CheckEmpty
    <3> QED
      BY <1>4, <3>1
  <2> QED
    BY <1>1, <1>8, <2>1 DEF Lock, LockLook, LockMake, LockOpen, LockTry, LockCheck, Enter,
                            Ended, Before
<1>9. ASSUME NEW p \in Procs, Save(p) PROVE Refused'
  BY <1>1, <1>9 DEF Save, Publish, SyncPublish, List, Sweep, Unlink, Verify, Ended, Before
<1>10. ASSUME NEW p \in Procs, Fault(p) \/ Crash(p) PROVE Refused'
  <2>1. /\ dir' = dir /\ durable' = durable /\ private' = private /\ kind' = kind
        /\ \E s \in {"idle", "failed"} : pc' = [pc EXCEPT ![p] = s]
    BY <1>1, <1>10 DEF Fault, Crash, Go, files, Ended, Before
  <2> QED
    BY <1>1, <1>3, <2>1 DEF TypeOK, Ended
<1>11. CASE PowerLoss
  <2>1. dir' = [n \in Names |-> durable[n]] /\ durable' = dir'
    BY <1>1, <1>11 DEF PowerLoss
  <2>2. dir' = dir /\ durable' = durable
    BY <1>1, <2>1 DEF TypeOK
  <2> QED
    BY <1>3, <1>11, <2>2 DEF PowerLoss, Ended
<1>12. CASE LoseLock
  BY <1>1, <1>12 DEF LoseLock
<1>13. CASE UNCHANGED vars
  BY <1>1, <1>3, <1>13 DEF vars, files, procs
<1> QED
  BY <1>5, <1>6, <1>7, <1>8, <1>9, <1>10, <1>11, <1>12, <1>13 DEF Next, Advance

-----------------------------------------------------------------------------
(***************************************************************************)
(* What one process does to another                                        *)
(***************************************************************************)

Acts(q) == Begin(q) \/ Advance(q) \/ Fault(q) \/ Crash(q)

\* A process moves only itself.
LEMMA OthersStand ==
    ASSUME TypeOK, NEW p \in Procs, NEW q \in Procs, p # q, Acts(q)
    PROVE  /\ pc'[p] = pc[p] /\ kind'[p] = kind[p] /\ temp'[p] = temp[p]
           /\ fd'[p] = fd[p] /\ clean'[p] = clean[p]
<1> USE DEF TypeOK, Go, files, locks, history, Turn, End, Release
<1>1. CASE Begin(q)
  BY <1>1 DEF Begin
<1>2. CASE Initialise(q)
  BY <1>2 DEF Initialise, ForNewStore, TightenIfEmpty, MakePrivate, EnsureOwnership,
              Established, RequireEmpty, Confirm
<1>3. CASE CreateMarker(q)
  <2>1. CASE CreateTemp(q)
    BY <2>1 DEF CreateTemp
  <2>2. CASE Link(q)
    BY <2>2 DEF Link
  <2>3. CASE SyncDrop(q)
    BY <2>3 DEF SyncDrop
  <2> QED
    BY <1>3, <2>1, <2>2, <2>3 DEF CreateMarker, LookMarker, Fill, SyncLink, DropLinkedTemp,
                                  RollMarker, RollTemp
<1>4. CASE Lock(q)
  BY <1>4 DEF Lock, Check, CheckEmpty, LockLook, LockMake, LockOpen, LockTry, LockCheck, Enter
<1>5. CASE Save(q)
  <2>1. CASE Publish(q)
    BY <2>1 DEF Publish
  <2>2. CASE SyncPublish(q) \/ List(q) \/ Verify(q)
    BY <2>2 DEF SyncPublish, List, Verify
  <2>3. CASE Sweep(q)
    BY <2>3 DEF Sweep
  <2>4. CASE Unlink(q)
    BY <2>4 DEF Unlink
  <2> QED
    BY <1>5, <2>1, <2>2, <2>3, <2>4 DEF Save
<1>6. CASE Fault(q)
  BY <1>6 DEF Fault
<1>7. CASE Crash(q)
  BY <1>7 DEF Crash
<1> QED
  BY <1>1, <1>2, <1>3, <1>4, <1>5, <1>6, <1>7 DEF Acts, Advance

\* Only somebody who marks or writes touches a temporary, and the lock file
\* is only ever created.
LEMMA NamesStay ==
    ASSUME TypeOK, NEW q \in Procs, Acts(q)
    PROVE  /\ dir["lock"] # Nothing => dir'["lock"] = dir["lock"]
           /\ pc[q] \notin Marking \cup Writing => \A t \in Temps : dir'[t] = dir[t]
           /\ broken' = broken
<1> USE OthersStay, NamesAssumption
    DEF Go, files, locks, history, Turn, End, DropTemp, Marking, Creating, Writing, Known, Names
<1>1. CASE Begin(q)
  BY <1>1 DEF Begin
<1>2. CASE Initialise(q)
  BY <1>2 DEF Initialise, ForNewStore, TightenIfEmpty, MakePrivate, EnsureOwnership,
              Established, RequireEmpty, Confirm
<1>3. CASE CreateMarker(q)
  <2>1. CASE CreateTemp(q)
    BY <2>1, TempIsFree DEF CreateTemp, TypeOK
  <2>2. CASE Link(q)
    BY <2>2 DEF Link, TypeOK
  <2> QED
    BY <1>3, <2>1, <2>2 DEF CreateMarker, LookMarker, Fill, SyncLink, DropLinkedTemp,
                            SyncDrop, RollMarker, RollTemp
<1>4. CASE Lock(q)
  BY <1>4 DEF Lock, Check, CheckEmpty, LockLook, LockMake, LockOpen, LockTry, LockCheck, Enter, TypeOK
<1>5. CASE Save(q)
  <2>1. CASE Publish(q)
    <3>1. dir[temp[q]] # Nothing => dir'["lock"] = dir["lock"]
      <4>1. Without(dir, temp[q]) \in [Names -> Objects \cup {Nothing}]
        BY WithoutTypes
      <4> QED
        BY <2>1, <4>1 DEF Publish
    <3> QED
      BY <2>1, <3>1 DEF Publish
  <2> QED
    BY <1>5, <2>1 DEF Save, SyncPublish, List, Verify, Sweep, Unlink
<1>6. CASE Fault(q)
  BY <1>6 DEF Fault
<1>7. CASE Crash(q)
  BY <1>7 DEF Crash
<1> QED
  BY <1>1, <1>2, <1>3, <1>4, <1>5, <1>6, <1>7 DEF Acts, Advance

LEMMA PrivateStays ==
    ASSUME private, NEW q \in Procs, Acts(q)
    PROVE  private'
<1> USE DEF files, Turn, End
<1>1. CASE Begin(q)
  BY <1>1 DEF Begin
<1>2. CASE Initialise(q)
  BY <1>2 DEF Initialise, ForNewStore, TightenIfEmpty, MakePrivate, EnsureOwnership,
              Established, RequireEmpty, Confirm
<1>3. CASE CreateMarker(q)
  BY <1>3 DEF CreateMarker, LookMarker, CreateTemp, Fill, Link, SyncLink, DropLinkedTemp,
              SyncDrop, RollMarker, RollTemp
<1>4. CASE Lock(q)
  BY <1>4 DEF Lock, Check, CheckEmpty, LockLook, LockMake, LockOpen, LockTry, LockCheck, Enter
<1>5. CASE Save(q)
  BY <1>5 DEF Save, Publish, SyncPublish, List, Verify, Sweep, Unlink
<1>6. CASE Fault(q)
  BY <1>6 DEF Fault
<1>7. CASE Crash(q)
  BY <1>7 DEF Crash
<1> QED
  BY <1>1, <1>2, <1>3, <1>4, <1>5, <1>6, <1>7 DEF Acts, Advance

\* The mark on a store stays while nobody is making one, and nobody begins to.
LEMMA MarkStays ==
    ASSUME TypeOK, NEW q \in Procs, pc[q] \notin Marking, dir["marker"] # Nothing, Acts(q)
    PROVE  dir'["marker"] = dir["marker"] /\ pc'[q] \notin Marking
<1> USE OthersStay, NamesAssumption
    DEF Go, files, locks, history, Turn, End, DropTemp, Marking, Creating, Known, Names, TypeOK
<1>1. CASE Begin(q)
  BY <1>1 DEF Begin
<1>2. CASE Initialise(q)
  <2>1. CASE EnsureOwnership(q)
    BY <2>1 DEF EnsureOwnership, Established
  <2> QED
    BY <1>2, <2>1 DEF Initialise, ForNewStore, TightenIfEmpty, MakePrivate,
                      Established, RequireEmpty, Confirm
<1>3. CASE CreateMarker(q)
  <2>1. CASE CreateTemp(q)
    BY <2>1, TempIsFree DEF CreateTemp
  <2>2. CASE LookMarker(q) \/ Fill(q)
    BY <2>2 DEF LookMarker, Fill
  <2> QED
    BY <1>3, <2>1, <2>2 DEF CreateMarker, Link, SyncLink, DropLinkedTemp,
                            SyncDrop, RollMarker, RollTemp
<1>4. CASE Lock(q)
  <2>1. CASE LockMake(q) \/ LockOpen(q) \/ LockTry(q)
    BY <2>1 DEF LockMake, LockOpen, LockTry
  <2> QED
    BY <1>4, <2>1 DEF Lock, Check, CheckEmpty, LockLook, LockCheck, Enter
<1>5. CASE Save(q)
  <2>1. CASE Publish(q)
    <3>1. dir[temp[q]] # Nothing => dir'["marker"] = dir["marker"]
      <4>1. dir[temp[q]] # Nothing =>
               dir' = [Without(dir, temp[q]) EXCEPT !["record"] = dir[temp[q]]]
        BY <2>1 DEF Publish
      <4>2. dir[temp[q]] # Nothing => dir'["marker"] = Without(dir, temp[q])["marker"]
        BY <4>1, WithoutTypes
      <4> QED
        BY <4>2
    <3> QED
      BY <2>1, <3>1 DEF Publish
  <2> QED
    BY <1>5, <2>1 DEF Save, SyncPublish, List, Verify, Sweep, Unlink
<1>6. CASE Fault(q)
  BY <1>6 DEF Fault
<1>7. CASE Crash(q)
  BY <1>7 DEF Crash
<1> QED
  BY <1>1, <1>2, <1>3, <1>4, <1>5, <1>6, <1>7 DEF Acts, Advance

-----------------------------------------------------------------------------
(***************************************************************************)
(* An owned store serves                                                   *)
(***************************************************************************)

LEMMA InitServed == Init => Served
BY DEF Init, Served

Mine(p) ==
    /\ pc[p] \in Ended \/ pc[p] \notin Creating \cup {"empty", "checkEmpty", "chmod", "confirm"}
    /\ pc[p] \in Ended \/ kind[p] # "adopt" \/ pc[p] = "check"
    /\ pc[p] \in {"lockTry", "lockCheck"} => dir["lock"] = fd[p]
    /\ ~broken /\ pc[p] \in {"fillRecord", "publish", "unlink"} => dir[temp[p]] # Nothing
    /\ ~broken => pc[p] # "failed"

\* What an operation on an owned store does itself.
LEMMA OwnServes ==
    ASSUME TypeOK, Places, NEW p \in Procs, Mine(p), Owned, pc[p] \notin Ended, Advance(p),
           pc[p] = "verify" => dir["record"] # Nothing
    PROVE  Mine(p)'
<1>0. Marker # "foreign" /\ Marker # "missing" /\ ~OnlyLock
  BY DEF Owned, Marker, OnlyLock, Names, Known
<1> USE <1>0 DEF Mine, TypeOK, Places, Go, files, locks, history, Turn, End, Release, Creating,
             Writing, Locking, Ended
<1>1. CASE Initialise(p)
  <2>1. CASE ForNewStore(p) \/ TightenIfEmpty(p)
    <3>1. Turn(p, "ensure")
      BY <2>1 DEF ForNewStore, TightenIfEmpty
    <3> QED
      BY <2>1, <3>1 DEF ForNewStore, TightenIfEmpty
  <2>2. CASE EnsureOwnership(p)
    <3>1. pc[p] = "ensure" /\ kind[p] # "adopt"
      BY <2>2 DEF EnsureOwnership
    <3>2. Established(p)
      BY <2>2, <3>1 DEF EnsureOwnership
    <3> QED
      BY <3>1, <3>2 DEF Established
  <2> QED
    BY <1>1, <2>1, <2>2 DEF Initialise, MakePrivate, RequireEmpty, Confirm
<1>2. CASE CreateMarker(p)
  <2>1. CASE CreateTemp(p)
    <3>1. PICK t \in Temps : dir' = [dir EXCEPT ![t] = Fresh] /\ temp' = [temp EXCEPT ![p] = t]
      BY <2>1, TempIsFree DEF CreateTemp
    <3>2. dir'[temp'[p]] = Fresh
      BY <3>1 DEF Names
    <3>3. Fresh # Nothing
      BY <2>1, FreshIsFree DEF CreateTemp, Objects, Nothing
    <3>4. pc'[p] \in {"fillMarker", "fillRecord"} /\ kind' = kind
      BY <2>1 DEF CreateTemp
    <3>5. pc[p] = "tempRecord" /\ pc'[p] = "fillRecord"
      BY <2>1 DEF CreateTemp
    <3> QED
      BY <3>2, <3>3, <3>4, <3>5
  <2>2. CASE Fill(p)
    BY <2>2 DEF Fill
  <2> QED
    BY <1>2, <2>1, <2>2 DEF CreateMarker, LookMarker, Link, SyncLink, DropLinkedTemp,
                            SyncDrop, RollMarker, RollTemp
<1>3. CASE Lock(p)
  <2>1. CASE Check(p)
    BY <2>1 DEF Check
  <2>2. CASE LockLook(p)
    BY <2>2 DEF LockLook
  <2>3. CASE LockMake(p)
    <3>1. dir' = [dir EXCEPT !["lock"] = Fresh] /\ fd' = [fd EXCEPT ![p] = Fresh] =>
             dir'["lock"] = fd'[p]
      BY DEF Names, Known
    <3> QED
      BY <2>3, <3>1 DEF LockMake
  <2>4. CASE LockOpen(p) \/ LockTry(p)
    BY <2>4 DEF LockOpen, LockTry
  <2>5. CASE LockCheck(p) \/ Enter(p)
    BY <2>5 DEF LockCheck, Enter
  <2> QED
    BY <1>3, <2>1, <2>2, <2>3, <2>4, <2>5 DEF Lock, CheckEmpty
<1>4. CASE Save(p)
  <2>1. CASE Publish(p)
    BY <2>1 DEF Publish
  <2>2. CASE SyncPublish(p) \/ List(p) \/ Verify(p)
    BY <2>2 DEF SyncPublish, List, Verify
  <2>3. CASE Sweep(p)
    BY <2>3 DEF Sweep
  <2>4. CASE Unlink(p)
    BY <2>4 DEF Unlink
  <2> QED
    BY <1>4, <2>1, <2>2, <2>3, <2>4 DEF Save
<1> QED
  BY <1>1, <1>2, <1>3, <1>4 DEF Advance

LEMMA ServedStep ==
    ASSUME TypeOK, Locks, Places, Kept, Kept', Relied, Served, [Next]_vars
    PROVE  Served'
<1>1. CASE LoseLock
  BY <1>1 DEF LoseLock, Served
<1>2. CASE PowerLoss
  <2>1. pc' = [p \in Procs |-> "idle"]
    BY <1>2 DEF PowerLoss
  <2> QED
    BY <2>1 DEF Served, Serving, Ended
<1>3. CASE UNCHANGED vars
  BY <1>3 DEF vars, files, locks, procs, history, Served, Serving, Owned, Marker
<1>4. ASSUME NEW q \in Procs, Acts(q), NEW p \in Procs, clean[p], Serving(p), pc[p] \notin Ended
      PROVE  Owned' /\ \A r \in Procs : pc'[r] \notin Marking
  <2>1. private /\ dir["marker"] # Nothing /\ \A r \in Procs : pc[r] \notin Marking
    BY <1>4, OwnedIsMarked DEF Serving
  <2>2. private'
    BY <1>4, <2>1, PrivateStays
  <2>3. dir'["marker"] # Nothing /\ pc'[q] \notin Marking
    BY <1>4, <2>1, MarkStays
  <2>4. \A r \in Procs : r # q => pc'[r] \notin Marking
    BY <1>4, <2>1, OthersStand
  <2>5. Marker' = "ours"
    BY <2>3 DEF Kept, Marker
  <2>6. Owned'
    BY <2>2, <2>5 DEF Owned
  <2> QED
    BY <2>3, <2>4, <2>6
<1>5. ASSUME NEW q \in Procs, Acts(q), NEW p \in Procs, p # q, clean'[p]
      PROVE  Serving(p)'
  <2>1. /\ pc'[p] = pc[p] /\ kind'[p] = kind[p] /\ temp'[p] = temp[p] /\ fd'[p] = fd[p]
        /\ clean[p] /\ broken' = broken
    BY <1>5, OthersStand, NamesStay
  <2>2. Serving(p)
    BY <2>1 DEF Served
  <2>3. CASE pc[p] \in Ended
    BY <2>1, <2>2, <2>3 DEF Serving, Ended
  <2>4. CASE pc[p] \notin Ended
    <3>1. Owned' /\ \A r \in Procs : pc'[r] \notin Marking
      BY <1>4, <1>5, <2>1, <2>2, <2>4
    <3>2. pc[p] \in {"lockTry", "lockCheck"} => dir'["lock"] = fd[p]
      <4>1. pc[p] \in {"lockTry", "lockCheck"} => dir["lock"] = fd[p] /\ fd[p] # Nothing
        BY <2>2 DEF Serving, Locks
      <4> QED
        BY <1>5, <4>1, NamesStay
    <3>3. ASSUME ~broken, pc[p] \in {"fillRecord", "publish", "unlink"}
          PROVE  dir'[temp[p]] # Nothing
      <4>1. pc[q] \notin Writing
        BY <1>5, <3>3, Exclusive, WritersInside DEF MutualExclusion, Writing
      <4>2. pc[q] \notin Marking
        BY <2>2, <2>4 DEF Serving
      <4>3. temp[p] \in Temps /\ dir[temp[p]] # Nothing
        BY <2>2, <3>3 DEF Serving, Places, HoldingTemp
      <4> QED
        BY <1>5, <4>1, <4>2, <4>3, NamesStay
    <3> QED
      BY <2>1, <2>2, <2>4, <3>1, <3>2, <3>3 DEF Serving
  <2> QED
    BY <2>3, <2>4
<1>6. ASSUME NEW p \in Procs, Begin(p), clean'[p] PROVE Serving(p)'
  <2>1. Owned /\ \A q \in Procs : pc[q] \notin Creating
    BY <1>6 DEF Begin, TypeOK
  <2>2. UNCHANGED files /\ \E s \in {"forNew", "check"} : pc' = [pc EXCEPT ![p] = s]
    BY <1>6 DEF Begin, Go
  <2>3. kind'[p] = "adopt" => pc'[p] = "check"
    BY <1>6 DEF Begin, Go, TypeOK
  <2>4. Owned'
    BY <2>1, <2>2 DEF Owned, Marker, files
  <2>5. pc'[p] \in {"forNew", "check"} /\ \A q \in Procs : pc'[q] \notin Creating
    BY <2>1, <2>2 DEF TypeOK, Creating
  <2> QED
    BY <2>3, <2>4, <2>5 DEF Serving, Marking, Ended, Creating
<1>7. ASSUME NEW p \in Procs, Advance(p), clean'[p] PROVE Serving(p)'
  <2>1. clean[p] /\ pc[p] \notin Ended
    BY <1>7 DEF Ended, history, Turn, End, Advance,
       Initialise, ForNewStore, TightenIfEmpty, MakePrivate, EnsureOwnership,
       Established, RequireEmpty, Confirm, CreateMarker, LookMarker, CreateTemp, Fill, Link,
       SyncLink, DropLinkedTemp, SyncDrop, RollMarker, RollTemp, Lock, Check, CheckEmpty,
       LockLook, LockMake, LockOpen, LockTry, LockCheck, Enter, Save, Publish, SyncPublish,
       List, Sweep, Unlink, Verify
  <2>2. Serving(p)
    BY <2>1 DEF Served
  <2>3. Owned' /\ \A r \in Procs : pc'[r] \notin Marking
    BY <1>4, <1>7, <2>1, <2>2 DEF Acts
  <2>4. Mine(p) /\ Owned
    BY <2>1, <2>2 DEF Serving, Mine
  <2>5. pc[p] = "verify" => dir["record"] # Nothing
    BY DEF Relied, Published
  <2>6. Mine(p)'
    BY <1>7, <2>1, <2>4, <2>5, OwnServes
  <2> QED
    BY <2>3, <2>6 DEF Serving, Mine
<1>8. ASSUME NEW p \in Procs, Fault(p) \/ Crash(p), clean'[p] PROVE Serving(p)'
  <2>1. Crash(p)
    BY <1>8 DEF Fault, TypeOK
  <2>2. pc'[p] = "idle"
    BY <2>1 DEF Crash, Go, TypeOK
  <2> QED
    BY <2>2 DEF Serving, Ended
<1>9. ASSUME NEW q \in Procs, Acts(q) PROVE Served'
  BY <1>5, <1>6, <1>7, <1>8, <1>9 DEF Served, Acts
<1> QED
  BY <1>1, <1>2, <1>3, <1>9 DEF Next, Acts

-----------------------------------------------------------------------------
(***************************************************************************)
(* Temporaries, and the first use of a store                               *)
(***************************************************************************)

LEMMA Dropping ==
    ASSUME TypeOK, NEW q \in Procs, DropTemp(q)
    PROVE  /\ dir'["marker"] = dir["marker"] /\ dir'["record"] = dir["record"]
           /\ dir'["foreign"] = dir["foreign"]
           /\ \A t \in Temps : dir'[t] \in {dir[t], Nothing}
<1>1. \A n \in Known : dir'[n] = dir[n]
  BY OthersStay DEF DropTemp
<1>2. \A m \in Names : dir'[m] \in {dir[m], Nothing}
  BY Removing DEF DropTemp
<1> QED
  BY <1>1, <1>2 DEF Known, Names

\* How names appear and disappear, but for a marker that is taken back.
LEMMA NamesMove ==
    ASSUME TypeOK, NEW q \in Procs, Begin(q) \/ Advance(q), pc[q] \notin {"rollMarker", "rollTemp"}
    PROVE  /\ dir["marker"] # Nothing => dir'["marker"] # Nothing
           /\ dir["marker"] = Nothing /\ dir'["marker"] # Nothing => pc[q] = "link"
           /\ dir["record"] = Nothing /\ dir'["record"] # Nothing => pc[q] = "publish"
           /\ dir["foreign"] = Nothing => dir'["foreign"] = Nothing
           /\ \A t \in Temps : dir[t] # Nothing /\ dir'[t] = Nothing =>
                 pc[q] \in Writing \cup {"dropTemp"} \/ (pc[q] = "link" /\ dir["marker"] # Nothing)
           /\ \A t \in Temps : dir[t] = Nothing /\ dir'[t] # Nothing =>
                 pc[q] \in {"tempMarker", "tempRecord"} /\ temp'[q] = t
<1> USE OthersStay, NamesAssumption
    DEF Go, files, locks, history, Turn, End, DropTemp, Writing, Known, Names, TypeOK
<1>1. CASE Begin(q)
  BY <1>1 DEF Begin
<1>2. CASE Initialise(q)
  BY <1>2 DEF Initialise, ForNewStore, TightenIfEmpty, MakePrivate, EnsureOwnership,
              Established, RequireEmpty, Confirm
<1>3. CASE CreateMarker(q)
  <2>1. CASE CreateTemp(q)
    BY <2>1, TempIsFree DEF CreateTemp
  <2>2. CASE Link(q)
    <3>1. CASE dir[temp[q]] # Nothing /\ dir["marker"] = Nothing
      <4>1. dir' = [dir EXCEPT !["marker"] = dir[temp[q]]] /\ pc[q] = "link"
        BY <2>2, <3>1 DEF Link
      <4> QED
        BY <3>1, <4>1
    <3>2. CASE dir[temp[q]] # Nothing /\ dir["marker"] # Nothing
      <4>1. DropTemp(q) /\ pc[q] = "link"
        BY <2>2, <3>2 DEF Link
      <4> HIDE DEF DropTemp
      <4> QED
        BY <3>2, <4>1, Dropping
    <3>3. CASE dir[temp[q]] = Nothing
      <4>1. dir' = Without(dir, temp[q])
        BY <2>2, <3>3 DEF Link
      <4>2. \A m \in Names : dir'[m] = dir[m]
        BY <3>3, <4>1 DEF Without
      <4> QED
        BY <4>2
    <3> QED
      BY <3>1, <3>2, <3>3
  <2>3. CASE DropLinkedTemp(q)
    <3> HIDE DEF DropTemp
    <3>1. DropTemp(q) /\ pc[q] = "dropTemp"
      BY <2>3 DEF DropLinkedTemp
    <3> QED
      BY <3>1, Dropping
  <2> QED
    BY <1>3, <2>1, <2>2, <2>3 DEF CreateMarker, LookMarker, Fill, SyncLink,
                            SyncDrop, RollMarker, RollTemp
<1>4. CASE Lock(q)
  <2>1. CASE LockMake(q)
    BY <2>1 DEF LockMake
  <2> QED
    BY <1>4, <2>1 DEF Lock, Check, CheckEmpty, LockLook, LockOpen, LockTry, LockCheck, Enter
<1>5. CASE Save(q)
  <2>1. CASE Publish(q)
    <3>1. CASE dir[temp[q]] = Nothing
      BY <2>1, <3>1 DEF Publish
    <3>2. CASE dir[temp[q]] # Nothing
      <4>1. dir' = [Without(dir, temp[q]) EXCEPT !["record"] = dir[temp[q]]] /\ pc[q] = "publish"
        BY <2>1, <3>2 DEF Publish
      <4>2. \A m \in Names \ {"record"} : dir'[m] = Without(dir, temp[q])[m]
        BY <4>1, WithoutTypes
      <4>3. dir'["record"] # Nothing
        BY <3>2, <4>1, WithoutTypes
      <4> HIDE DEF TypeOK
      <4>4. /\ dir'["marker"] = dir["marker"] /\ dir'["foreign"] = dir["foreign"]
            /\ \A t \in Temps : dir'[t] \in {dir[t], Nothing}
        BY <4>2, Removing
      <4> QED
        BY <4>1, <4>3, <4>4
    <3> QED
      BY <3>1, <3>2
  <2>2. CASE Unlink(q)
    <3> HIDE DEF DropTemp
    <3>1. (DropTemp(q) \/ dir' = dir) /\ pc[q] = "unlink"
      BY <2>2 DEF Unlink
    <3> QED
      BY <3>1, Dropping
  <2> QED
    BY <1>5, <2>1, <2>2 DEF Save, SyncPublish, List, Verify, Sweep
<1> QED
  BY <1>1, <1>2, <1>3, <1>4, <1>5 DEF Advance

\* Who made a temporary keeps it in mind until it is gone.
LEMMA HolderStays ==
    ASSUME TypeOK, NEW p \in Procs, Advance(p), temp[p] \in Temps, dir'[temp[p]] # Nothing,
           pc[p] \in Holders
    PROVE  \/ temp'[p] = temp[p] /\ pc'[p] \in Holders
           \/ dir[temp[p]] = Nothing
<1> USE OthersStay, NamesAssumption
    DEF Go, files, locks, history, Turn, DropTemp, Holders, Known, Names, TypeOK
<1>1. CASE Fill(p)
  BY <1>1 DEF Fill
<1>2. CASE Link(p)
  BY <1>2 DEF Link
<1>3. CASE SyncLink(p)
  BY <1>3 DEF SyncLink
<1>4. CASE DropLinkedTemp(p)
  BY <1>4 DEF DropLinkedTemp
<1>5. CASE Publish(p)
  <2>1. CASE dir[temp[p]] # Nothing
    <3>1. dir' = [Without(dir, temp[p]) EXCEPT !["record"] = dir[temp[p]]]
      BY <1>5, <2>1 DEF Publish
    <3>2. dir'[temp[p]] = Without(dir, temp[p])[temp[p]]
      BY <3>1, WithoutTypes
    <3> QED
      BY <3>2
  <2> QED
    BY <2>1
<1> QED
  BY <1>1, <1>2, <1>3, <1>4, <1>5 DEF Advance,
       Initialise, ForNewStore, TightenIfEmpty, MakePrivate, EnsureOwnership,
       RequireEmpty, Confirm, CreateMarker, LookMarker, CreateTemp,
       SyncDrop, RollMarker, RollTemp, Lock, Check, CheckEmpty,
       LockLook, LockMake, LockOpen, LockTry, LockCheck, Enter, Save, SyncPublish,
       List, Sweep, Unlink, Verify

\* Without mishaps only the operations move, and no marker is taken back.
LEMMA NoMishap ==
    ASSUME TypeOK, Places, [Next]_vars, mishaps' = 0
    PROVE  /\ mishaps = 0
           /\ \/ UNCHANGED vars
              \/ \E q \in Procs : /\ Begin(q) \/ Advance(q)
                                  /\ pc[q] \notin {"rollMarker", "rollTemp"}
<1>1. mishaps \in Nat /\ ~Mishap
  BY BoundsAssumption DEF TypeOK, Mishap
<1>2. UNCHANGED vars \/ \E q \in Procs : Begin(q) \/ Advance(q)
  BY <1>1 DEF Next, Fault, Crash, PowerLoss, LoseLock
<1>3. ASSUME NEW q \in Procs, Begin(q) \/ Advance(q) PROVE mishaps' = mishaps
  BY <1>3 DEF history, Turn, End, Begin, Advance,
       Initialise, ForNewStore, TightenIfEmpty, MakePrivate, EnsureOwnership,
       Established, RequireEmpty, Confirm, CreateMarker, LookMarker, CreateTemp, Fill, Link,
       SyncLink, DropLinkedTemp, SyncDrop, RollMarker, RollTemp, Lock, Check, CheckEmpty,
       LockLook, LockMake, LockOpen, LockTry, LockCheck, Enter, Save, Publish, SyncPublish,
       List, Sweep, Unlink, Verify
<1>4. mishaps = 0
  BY <1>2, <1>3 DEF vars, history
<1> QED
  BY <1>2, <1>4 DEF Places

LEMMA InitTemporaries == Init => Temporaries /\ FirstUse
<1> SUFFICES ASSUME Init PROVE Temporaries /\ FirstUse
  OBVIOUS
<1>1. Temporaries
  BY NamesAssumption DEF Init, Temporaries, Names
<1>2. ASSUME EmptyAtFirst PROVE \A n \in Known : dir[n] = Nothing
  BY <1>2 DEF Init, EmptyAtFirst, Names
<1>3. \A p \in Procs : Tightened(p) /\ Founding(p)
  BY DEF Init, Tightened, Founding, Creating, Writing
<1> QED
  BY <1>1, <1>2, <1>3 DEF FirstUse, Known

LEMMA TemporariesStep ==
    ASSUME TypeOK, Places, Temporaries, [Next]_vars
    PROVE  Temporaries'
<1> SUFFICES ASSUME mishaps' = 0, NEW t \in Temps, dir'[t] # Nothing
             PROVE  \E p \in Procs : temp'[p] = t /\ pc'[p] \in Holders
  BY DEF Temporaries
<1>1. CASE UNCHANGED vars
  BY <1>1 DEF vars, files, procs, history, Temporaries
<1>2. CASE \E q \in Procs : (Begin(q) \/ Advance(q)) /\ pc[q] \notin {"rollMarker", "rollTemp"}
  <2>1. PICK q \in Procs : (Begin(q) \/ Advance(q)) /\ pc[q] \notin {"rollMarker", "rollTemp"}
    BY <1>2
  <2>2. CASE dir[t] = Nothing
    <3>1. pc[q] \in {"tempMarker", "tempRecord"} /\ temp'[q] = t
      BY <2>1, <2>2, NamesMove
    <3>2. CreateTemp(q)
      BY <2>1, <3>1 DEF Begin, Ended, Advance,
       Initialise, ForNewStore, TightenIfEmpty, MakePrivate, EnsureOwnership,
       RequireEmpty, Confirm, CreateMarker, LookMarker, Fill, Link,
       SyncLink, DropLinkedTemp, SyncDrop, RollMarker, RollTemp, Lock, Check, CheckEmpty,
       LockLook, LockMake, LockOpen, LockTry, LockCheck, Enter, Save, Publish, SyncPublish,
       List, Sweep, Unlink, Verify
    <3>3. pc'[q] \in Holders
      BY <3>2 DEF CreateTemp, Go, TypeOK, Holders
    <3> QED
      BY <3>1, <3>3
  <2>3. CASE dir[t] # Nothing
    <3>1. PICK p \in Procs : temp[p] = t /\ pc[p] \in Holders
      BY <2>3, NoMishap DEF Temporaries
    <3>2. CASE p # q
      BY <2>1, <3>1, <3>2, OthersStand DEF Acts
    <3>3. CASE p = q
      <4>1. Advance(p)
        BY <2>1, <3>1, <3>3 DEF Begin, Ended, Holders
      <4> QED
        BY <2>3, <3>1, <4>1, HolderStays
    <3> QED
      BY <3>2, <3>3
  <2> QED
    BY <2>2, <2>3
<1> QED
  BY <1>1, <1>2, NoMishap

\* A store that is not empty is being marked or is marked, and private.
LEMMA NotEmpty ==
    ASSUME TypeOK, Temporaries, FirstUse, EmptyAtFirst, ~OnlyLock
    PROVE  (dir["marker"] # Nothing \/ Champion) /\ private
<1>1. PICK n \in Names \ {"lock"} : dir[n] # Nothing
  BY DEF OnlyLock
<1>2. CASE n \in Known
  <2>1. dir["marker"] # Nothing
    BY <1>1, <1>2 DEF FirstUse, Known
  <2> QED
    BY <2>1 DEF FirstUse
<1>3. CASE n \in Temps
  <2>1. PICK p \in Procs : pc[p] \in Holders
    BY <1>1, <1>3 DEF Temporaries, EmptyAtFirst
  <2>2. CASE pc[p] \in {"fillMarker", "link"}
    <3>1. Tightened(p) /\ pc[p] \in Creating
      BY <2>2 DEF FirstUse, Creating
    <3> QED
      BY <2>2, <3>1 DEF Champion, Tightened
  <2>3. CASE pc[p] \notin {"fillMarker", "link"}
    <3>1. dir["marker"] # Nothing
      BY <2>1, <2>3 DEF FirstUse, Founding, Holders, Writing
    <3> QED
      BY <3>1 DEF FirstUse
  <2> QED
    BY <2>2, <2>3
<1> QED
  BY <1>1, <1>2, <1>3 DEF Names

LEMMA TightenedStep ==
    ASSUME TypeOK, Places, NEW p \in Procs, Begin(p) \/ Advance(p), Tightened(p),
           dir["marker"] # Nothing => private, ~OnlyLock => private, ~private
    PROVE  Tightened(p)'
<1>1. Marker = "missing" /\ OnlyLock
  BY DEF Marker
<1>2. pc[p] \notin {"empty", "confirm"} \cup Creating
  BY DEF Tightened
<1>3. pc[p] = "ensure" => kind[p] # "create"
  BY DEF Tightened
<1> USE <1>1, <1>2, <1>3 DEF Go, files, Turn, End, Creating, TypeOK, Places, Ended
<1>4. CASE Begin(p)
  <2>1. pc'[p] \in {"forNew", "check"}
    BY <1>4 DEF Begin
  <2> QED
    BY <2>1 DEF Tightened
<1>5. CASE MakePrivate(p)
  <2>1. private'
    BY <1>5 DEF MakePrivate
  <2> QED
    BY <2>1 DEF Tightened
<1>6. CASE ForNewStore(p) \/ TightenIfEmpty(p)
  <2>1. Turn(p, "emptyForNew") \/ Turn(p, "chmod")
    BY <1>6 DEF ForNewStore, TightenIfEmpty
  <2>2. pc'[p] \in {"emptyForNew", "chmod"}
    BY <2>1
  <2> QED
    BY <2>2 DEF Tightened
<1>7. CASE EnsureOwnership(p)
  <2>1. End(p, "failed") \/ Turn(p, "chmod")
    BY <1>7 DEF EnsureOwnership, Owned
  <2>2. pc'[p] \in {"failed", "chmod"}
    BY <2>1
  <2> QED
    BY <2>2 DEF Tightened
<1>8. CASE Lock(p)
  <2>1. CASE Check(p)
    <3>1. pc'[p] \in {"ok", "failed", "lockLook", "checkEmpty"}
      BY <2>1 DEF Check
    <3> QED
      BY <3>1 DEF Tightened
  <2>2. CASE CheckEmpty(p) \/ LockLook(p) \/ LockMake(p) \/ LockOpen(p) \/ LockTry(p) \/ LockCheck(p)
    <3>1. pc'[p] \in {"failed"} \cup Locking \cup {"inside"}
      BY <2>2 DEF CheckEmpty, LockLook, LockMake, LockOpen, LockTry, LockCheck, Locking
    <3> QED
      BY <3>1 DEF Tightened, Locking
  <2>3. CASE Enter(p)
    <3>1. pc'[p] \in {"failed", "tempRecord", "ensure"} /\ kind'[p] # "create"
      BY <2>3 DEF Enter, Locking
    <3> QED
      BY <3>1 DEF Tightened
  <2> QED
    BY <1>8, <2>1, <2>2, <2>3 DEF Lock
<1>9. CASE Save(p)
  <2>1. pc'[p] \in Ended \cup Writing
    <3>1. CASE Publish(p)
      BY <3>1 DEF Publish, Writing
    <3>2. CASE Sweep(p)
      BY <3>2 DEF Sweep, Writing
    <3> QED
      BY <1>9, <3>1, <3>2 DEF Save, SyncPublish, List, Unlink, Verify, Writing
  <2> QED
    BY <2>1 DEF Tightened, Writing
<1>10. CASE CreateTemp(p) \/ Fill(p)
  <2>1. pc'[p] \in Writing
    BY <1>10 DEF CreateTemp, Fill, Writing
  <2> QED
    BY <2>1 DEF Tightened, Writing
<1> QED
  BY <1>4, <1>5, <1>6, <1>7, <1>8, <1>9, <1>10 DEF Advance, Initialise, RequireEmpty, Confirm,
     CreateMarker, LookMarker, Link, SyncLink, DropLinkedTemp, SyncDrop, RollMarker, RollTemp

\* Who is about to publish the marker is so until there is one.
LEMMA ChampionStays ==
    ASSUME TypeOK, Champion, NEW q \in Procs, Begin(q) \/ Advance(q), Founding(q),
           dir["marker"] = Nothing, dir'["marker"] = Nothing
    PROVE  Champion'
<1>1. PICK p \in Procs : pc[p] \in {"fillMarker", "link"}
  BY DEF Champion
<1>2. CASE p # q
  BY <1>1, <1>2, OthersStand DEF Acts, Champion
<1>3. CASE p = q
  <2>1. Fill(p) \/ Link(p)
    BY <1>1, <1>3 DEF Begin, Ended, Advance,
       Initialise, ForNewStore, TightenIfEmpty, MakePrivate, EnsureOwnership,
       RequireEmpty, Confirm, CreateMarker, LookMarker, CreateTemp,
       SyncLink, DropLinkedTemp, SyncDrop, RollMarker, RollTemp, Lock, Check, CheckEmpty,
       LockLook, LockMake, LockOpen, LockTry, LockCheck, Enter, Save, Publish, SyncPublish,
       List, Sweep, Unlink, Verify
  <2>2. ~Link(p)
    <3> SUFFICES ASSUME Link(p) PROVE FALSE
      OBVIOUS
    <3>1. dir[temp[p]] # Nothing
      BY <1>1, <1>3 DEF Founding
    <3>2. dir' = [dir EXCEPT !["marker"] = dir[temp[p]]]
      BY <3>1 DEF Link
    <3> QED
      BY <3>1, <3>2 DEF TypeOK, Names, Known
  <2>3. pc'[p] = "link"
    BY <1>1, <2>1, <2>2 DEF Fill, Go, TypeOK
  <2> QED
    BY <2>3 DEF Champion
<1> QED
  BY <1>2, <1>3

LEMMA FoundingStep ==
    ASSUME TypeOK, Places, NEW p \in Procs, Begin(p) \/ Advance(p), Tightened(p), Founding(p),
           pc[p] \notin {"rollMarker", "rollTemp"},
           ~OnlyLock => dir["marker"] # Nothing \/ Champion
    PROVE  Founding(p)'
<1>1. CASE dir'["marker"] # Nothing
  BY <1>1 DEF Founding
<1>2. CASE dir'["marker"] = Nothing
  <2>1. dir["marker"] = Nothing
    BY <1>2, NamesMove
  <2>2. pc[p] \notin Writing \cup {"syncLink", "dropTemp", "syncDrop", "confirm"}
    BY <2>1 DEF Founding
  <2>3. Marker = "missing" /\ ~Owned /\ Marker # "ours"
    BY <2>1 DEF Marker, Owned
  <2> DEFINE Late == Writing \cup {"syncLink", "dropTemp", "syncDrop", "confirm"}
             Good == /\ pc'[p] \notin Late \cup {"fillMarker", "link"}
                     /\ kind'[p] = "create" => pc'[p] \notin {"ok", "failed"}
  <2>4. ASSUME Good PROVE Founding(p)'
    BY <2>4 DEF Founding
  <2>5. CASE Begin(p)
    <3>1. pc'[p] \in {"forNew", "check"}
      BY <2>5 DEF Begin, Go, TypeOK
    <3> QED
      BY <2>4, <3>1 DEF Writing
  <2>6. CASE Initialise(p)
    <3>1. CASE ForNewStore(p) \/ TightenIfEmpty(p) \/ MakePrivate(p)
      <4>1. pc'[p] \in {"ensure", "emptyForNew", "chmod", "lookMarker"}
        BY <3>1 DEF ForNewStore, TightenIfEmpty, MakePrivate, Turn, Go, TypeOK
      <4> QED
        BY <2>4, <4>1 DEF Writing
    <3>2. CASE EnsureOwnership(p)
      <4>1. Turn(p, "chmod") \/ Turn(p, "empty") \/ (End(p, "failed") /\ ~private)
        BY <2>3, <3>2 DEF EnsureOwnership
      <4>2. kind[p] = "create" => private
        BY <3>2 DEF EnsureOwnership, Tightened
      <4>3. kind[p] = "create" => Turn(p, "chmod") \/ Turn(p, "empty")
        BY <4>1, <4>2
      <4>4. kind' = kind /\ pc'[p] \in {"chmod", "empty", "failed"}
        BY <4>1 DEF Turn, End, Go, TypeOK
      <4>5. kind[p] = "create" => pc'[p] \in {"chmod", "empty"}
        BY <4>3 DEF Turn, Go, TypeOK
      <4> QED
        BY <2>4, <4>4, <4>5 DEF Writing
    <3>3. CASE RequireEmpty(p)
      <4>1. CASE OnlyLock
        <5>1. pc'[p] = "lookMarker"
          BY <3>3, <4>1 DEF RequireEmpty, Turn, Go, TypeOK
        <5> QED
          BY <2>4, <5>1 DEF Writing
      <4>2. CASE ~OnlyLock
        <5>1. Champion'
          BY <1>2, <2>1, <4>2, ChampionStays
        <5>2. pc'[p] = "failed"
          BY <3>3, <4>2 DEF RequireEmpty, End, Go, TypeOK
        <5> QED
          BY <5>1, <5>2 DEF Founding, Writing
      <4> QED
        BY <4>1, <4>2
    <3> QED
      BY <2>2, <2>6, <3>1, <3>2, <3>3 DEF Initialise, Confirm
  <2>7. CASE LookMarker(p)
    <3>1. pc'[p] \in {"tempMarker"}
      BY <2>1, <2>7 DEF LookMarker, Turn, Go, TypeOK
    <3> QED
      BY <2>4, <3>1 DEF Writing
  <2>8. CASE CreateTemp(p)
    <3>1. PICK t \in Temps : dir' = [dir EXCEPT ![t] = Fresh] /\ temp' = [temp EXCEPT ![p] = t]
      BY <2>8, TempIsFree DEF CreateTemp
    <3>2. dir'[temp'[p]] = Fresh
      BY <3>1 DEF Names, TypeOK
    <3>3. Fresh # Nothing
      BY <2>8, FreshIsFree DEF CreateTemp, Objects, Nothing
    <3>4. pc'[p] = "fillMarker"
      BY <2>2, <2>8 DEF CreateTemp, Go, TypeOK, Writing
    <3> QED
      BY <3>2, <3>3, <3>4 DEF Founding, Writing
  <2>9. CASE Fill(p)
    <3>1. pc[p] = "fillMarker" /\ pc'[p] = "link" /\ dir' = dir /\ temp' = temp
      BY <2>2, <2>9 DEF Fill, Go, TypeOK, Writing
    <3> QED
      BY <2>1, <3>1 DEF Founding, Writing
  <2>10. CASE Link(p)
    <3>1. dir[temp[p]] # Nothing
      BY <2>1, <2>10 DEF Founding, Link
    <3>2. dir' = [dir EXCEPT !["marker"] = dir[temp[p]]]
      BY <2>1, <2>10, <3>1 DEF Link
    <3> QED
      BY <1>2, <3>1, <3>2 DEF TypeOK, Names, Known
  <2>11. CASE Lock(p)
    <3>1. kind[p] # "create" /\ kind' = kind
      BY <2>11 DEF Lock, Check, CheckEmpty, LockLook, LockMake, LockOpen, LockTry, LockCheck,
                   Enter, Locking, Places, Turn, End
    <3>2. pc'[p] \in Ended \cup Locking \cup {"checkEmpty", "inside", "ensure"}
      <4> USE DEF Turn, End, Go, TypeOK, Ended, Locking
      <4>1. CASE Enter(p)
        BY <2>3, <4>1 DEF Enter
      <4>2. CASE Check(p)
        BY <4>2 DEF Check
      <4> QED
        BY <2>11, <4>1, <4>2 DEF Lock, CheckEmpty, LockLook, LockMake, LockOpen, LockTry, LockCheck
    <3> QED
      BY <2>4, <3>1, <3>2 DEF Writing, Ended, Locking
  <2> QED
    BY <2>2, <2>5, <2>6, <2>7, <2>8, <2>9, <2>10, <2>11
       DEF Advance, CreateMarker, SyncLink, DropLinkedTemp, SyncDrop, RollMarker, RollTemp,
           Save, Publish, SyncPublish, List, Sweep, Unlink, Verify, Writing
<1> QED
  BY <1>1, <1>2

LEMMA FirstUseStep ==
    ASSUME TypeOK, Places, Temporaries, FirstUse, [Next]_vars
    PROVE  FirstUse'
<1> SUFFICES ASSUME EmptyAtFirst' PROVE FirstUse'
  BY DEF FirstUse
<1>1. mishaps' = 0 /\ EmptyAtFirst
  BY NoMishap, OriginStays DEF EmptyAtFirst
<1>2. CASE UNCHANGED vars
  BY <1>1, <1>2 DEF vars, files, procs, history, FirstUse, Tightened, Founding, Champion
<1>3. ASSUME NEW q \in Procs, Begin(q) \/ Advance(q), pc[q] \notin {"rollMarker", "rollTemp"}
      PROVE  FirstUse'
  <2>1. /\ dir["foreign"] = Nothing
        /\ dir["marker"] # Nothing => private
        /\ dir["record"] # Nothing => dir["marker"] # Nothing
        /\ \A p \in Procs : Tightened(p) /\ Founding(p)
    BY <1>1 DEF FirstUse
  <2>2. dir'["foreign"] = Nothing
    BY <1>3, <2>1, NamesMove
  <2>3. ASSUME dir'["marker"] # Nothing PROVE private'
    <3>1. private
      <4>1. CASE dir["marker"] # Nothing
        BY <2>1, <4>1
      <4>2. CASE dir["marker"] = Nothing
        <5>1. pc[q] \in Creating
          BY <1>3, <2>3, <4>2, NamesMove DEF Creating
        <5> QED
          BY <2>1, <5>1 DEF Tightened
      <4> QED
        BY <4>1, <4>2
    <3> QED
      BY <1>3, <3>1, PrivateStays DEF Acts
  <2>4. ASSUME dir'["record"] # Nothing PROVE dir'["marker"] # Nothing
    <3>1. dir["marker"] # Nothing
      <4>1. CASE dir["record"] # Nothing
        BY <2>1, <4>1
      <4>2. CASE dir["record"] = Nothing
        <5>1. pc[q] \in Writing
          BY <1>3, <2>4, <4>2, NamesMove DEF Writing
        <5> QED
          BY <2>1, <5>1 DEF Founding
      <4> QED
        BY <4>1, <4>2
    <3> QED
      BY <1>3, <3>1, NamesMove
  <2>5. \A p \in Procs : Tightened(p)'
    <3>1. CASE private
      <4>1. private'
        BY <1>3, <3>1, PrivateStays DEF Acts
      <4> QED
        BY <4>1 DEF Tightened
    <3>2. CASE ~private
      <4>1. ~OnlyLock => private
        BY <1>1, NotEmpty
      <4>2. Tightened(q)'
        BY <1>3, <2>1, <3>2, <4>1, TightenedStep
      <4>3. ASSUME NEW p \in Procs, p # q PROVE Tightened(p)'
        <5>1. pc'[p] = pc[p] /\ kind'[p] = kind[p]
          BY <1>3, <4>3, OthersStand DEF Acts
        <5>2. ~(pc[p] \in {"empty", "confirm"} \cup Creating \/ (pc[p] = "ensure" /\ kind[p] = "create"))
          BY <2>1, <3>2, <4>3 DEF Tightened
        <5> QED
          BY <5>1, <5>2 DEF Tightened
      <4> QED
        BY <4>2, <4>3
    <3> QED
      BY <3>1, <3>2
  <2>6. \A p \in Procs : Founding(p)'
    <3>1. CASE dir'["marker"] # Nothing
      BY <3>1 DEF Founding
    <3>2. CASE dir'["marker"] = Nothing
      <4>1. dir["marker"] = Nothing
        BY <1>3, <3>2, NamesMove
      <4>2. Founding(q)'
        <5>1. ~OnlyLock => dir["marker"] # Nothing \/ Champion
          BY <1>1, NotEmpty
        <5> QED
          BY <1>3, <2>1, <5>1, FoundingStep
      <4>3. ASSUME NEW p \in Procs, p # q PROVE Founding(p)'
        <5>1. pc'[p] = pc[p] /\ kind'[p] = kind[p] /\ temp'[p] = temp[p]
          BY <1>3, <4>3, OthersStand DEF Acts
        <5>2. pc[p] \notin Writing \cup {"syncLink", "dropTemp", "syncDrop", "confirm"}
          BY <2>1, <4>1 DEF Founding
        <5>3. ASSUME pc[p] \in {"fillMarker", "link"} PROVE dir'[temp[p]] # Nothing
          <6>1. temp[p] \in Temps
            BY <5>3 DEF Places, HoldingTemp, Marking, Creating
          <6>2. dir[temp[p]] # Nothing
            BY <2>1, <4>1, <5>3 DEF Founding
          <6>3. pc[q] \notin Writing \cup {"dropTemp"}
            BY <2>1, <4>1 DEF Founding
          <6> QED
            BY <1>3, <4>1, <6>1, <6>2, <6>3, NamesMove
        <5>4. ASSUME kind[p] = "create", pc[p] \in {"ok", "failed"} PROVE Champion'
          <6>1. Champion
            BY <2>1, <4>1, <5>4 DEF Founding
          <6> QED
            BY <1>3, <2>1, <3>2, <4>1, <6>1, ChampionStays
        <5> QED
          BY <5>1, <5>2, <5>3, <5>4 DEF Founding
      <4> QED
        BY <4>2, <4>3
    <3> QED
      BY <3>1, <3>2
  <2> QED
    BY <2>2, <2>3, <2>4, <2>5, <2>6 DEF FirstUse
<1> QED
  BY <1>1, <1>2, <1>3, NoMishap

-----------------------------------------------------------------------------
(***************************************************************************)
(* The theorems                                                            *)
(***************************************************************************)

LEMMA InitInv == Init => IInv
BY InitTypes, InitLocks, InitKept, InitRelied, InitRefused, InitServed, InitTemporaries DEF IInv

LEMMA StepInv == IInv /\ [Next]_vars => IInv'
<1> SUFFICES ASSUME IInv, [Next]_vars PROVE IInv'
  OBVIOUS
<1>1. /\ TypeOK /\ Locks /\ Places /\ Kept /\ Relied /\ SavedIsSafe /\ Refused
      /\ Served /\ Temporaries /\ FirstUse
  BY DEF IInv
<1>2. TypeOK' /\ Locks' /\ Places'
  BY <1>1, TypesStep, LocksStep, PlacesStep
<1>3. Kept'
  BY <1>1, KeptStep
<1>4. Relied' /\ SavedIsSafe'
  BY <1>1, ReliedStep, SafeStep
<1>5. Refused' /\ Temporaries' /\ FirstUse'
  BY <1>1, RefusedStep, TemporariesStep, FirstUseStep
<1>6. Served'
  BY <1>1, <1>3, ServedStep
<1> QED
  BY <1>2, <1>3, <1>4, <1>5, <1>6 DEF IInv

\* The invariant holds in every state, and it is what the theorems below follow from.
THEOREM Invariant == Spec => []IInv
BY InitInv, StepInv, PTL DEF Spec

\* Two processes are never inside the lock at once (WithLock, storefs.go), however
\* they create the lock file and whoever removes it while they wait.
THEOREM LockExcludes == Spec => []MutualExclusion
<1>1. IInv => MutualExclusion
  BY Exclusive DEF IInv
<1> QED
  BY <1>1, Invariant, PTL

\* Whoever opens a marker or a record finds all of it, and what a save has
\* published outlives power losses (writeAtomic, storefs.go).
THEOREM SavesLast == Spec => []RecordsLast
<1>1. IInv => RecordsLast
  BY DEF IInv, RecordsLast, WholeRecords, Kept
<1> QED
  BY <1>1, Invariant, PTL

\* A directory that holds something else is left as it was found.
THEOREM ForeignStays == Spec => []ForeignUntouched
<1>1. IInv => ForeignUntouched
  BY DEF IInv, ForeignUntouched, Refused
<1> QED
  BY <1>1, Invariant, PTL

\* On a store that is owned, nothing another process does makes an operation fail.
THEOREM OwnedServes == Spec => []OwnedStoreServes
<1>1. IInv => OwnedStoreServes
  BY DEF IInv, OwnedStoreServes, Served, Serving
<1> QED
  BY <1>1, Invariant, PTL

\* Processes that make a store at once leave it made, and leave no temporaries.
THEOREM FirstUseLeavesStore == Spec => []FirstUseIsClean
<1>1. ASSUME IInv PROVE FirstUseWins
  <2> SUFFICES ASSUME Quiet, mishaps = 0, NEW p \in Procs, kind[p] = "create",
                      \A n \in Names : origin.dir[n] = Nothing
               PROVE  Owned
    BY DEF FirstUseWins
  <2>1. pc[p] \in {"ok", "failed"}
    BY <1>1 DEF IInv, Places, Quiet, Ended
  <2>2. ~Champion
    BY DEF Champion, Quiet, Ended
  <2>3. dir["marker"] # Nothing /\ private
    BY <1>1, <2>1, <2>2 DEF IInv, FirstUse, EmptyAtFirst, Founding
  <2>4. content[dir["marker"]] = "kept"
    BY <1>1, <2>3 DEF IInv, Kept
  <2>5. Marker = "ours"
    BY <2>3, <2>4 DEF Marker
  <2> QED
    BY <2>3, <2>5 DEF Owned
<1>2. ASSUME IInv PROVE LeavesNoTemps
  BY <1>2 DEF IInv, Temporaries, LeavesNoTemps, Quiet, Ended, Holders
<1>3. IInv => FirstUseIsClean
  BY <1>1, <1>2 DEF FirstUseIsClean
<1> QED
  BY <1>3, Invariant, PTL

=============================================================================
