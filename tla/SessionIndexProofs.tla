------------------------- MODULE SessionIndexProofs -------------------------
(***************************************************************************)
(* What a session and the store of the cached scans keep, for every value  *)
(* of the constants.                                                       *)
(*                                                                         *)
(* The cache of a session implements NewestWins, for every set of sessions *)
(* and with no bound on the keys pressed: the refinement that              *)
(* CacheNeverGoesBack states.  Few steps matter to it, those that begin a  *)
(* scan, take its answer, or save; all others leave the generations and    *)
(* the store alone (Idle).                                                 *)
(*                                                                         *)
(* And the session never waits for what nobody will answer                 *)
(* (StaysResponsive): its invariant is about the screen, the job and the   *)
(* scans under way, until an answer has come between a job and its screen. *)
(*                                                                         *)
(* And what is applied was reviewed (AppliedWasReviewed), for queues and   *)
(* terminals of every size: what the review counts as seen has been drawn. *)
(*                                                                         *)
(* And once nothing is under way the tree on the screen is the disk's, and *)
(* the cache's (SettledViewIsTrue), for disks and queues of every size: a  *)
(* plan of deletions is followed on the tree as its results were on the    *)
(* disk, and whatever else happens starts a scan.                          *)
(*                                                                         *)
(* The types of the session follow (SessionTypes): what it shows, stages   *)
(* and measures stays among the known paths, by what was traced before.    *)
(*                                                                         *)
(* The last part is about IndexStore.  The sums the totals are made of     *)
(* come first, since the definitions of the library choose an order and    *)
(* the totals must not depend on it; then who is kept within the quota,    *)
(* and the calls: what they report, remove and leave.                      *)
(***************************************************************************)
EXTENDS Session, IndexStore, FiniteSetTheorems, SequenceTheorems, WellFoundedInduction, TLAPS

ScanRecord == [on |-> scan.on, retain |-> scan.retain,
               generation |-> scan.generation, restart |-> scan.restart]
CacheRecord == [generation |-> cache.generation, own |-> cache.own, failed |-> cache.failed]
SaveRecord(v) == [generation |-> v.generation, own |-> v.own, writing |-> v.writing]

\* What is accepted is a generation of a scan or of an exact deletion.
GenerationsGrow ==
    /\ scan = ScanRecord /\ scan.generation \in Nat \ {0}
    /\ latest \in Nat /\ latest <= scan.generation

\* Every save is of a generation accepted before it began.
SavesAccepted ==
    \A v \in saves :
        /\ v = SaveRecord(v) /\ v.writing \in BOOLEAN
        /\ v.generation \in Nat \ {0} /\ v.generation <= latest

\* The mutex: one save is written at a time, and the store holds nothing
\* newer meanwhile.
OneWrites ==
    \A v \in saves : v.writing =>
        /\ cache.generation <= v.generation
        /\ \A o \in saves : o.writing => o = v

StoredAccepted ==
    cache = CacheRecord /\ cache.generation \in Nat /\ cache.generation <= latest

CacheInv == GenerationsGrow /\ SavesAccepted /\ OneWrites /\ StoredAccepted

Idle == UNCHANGED <<scan, latest, saves, cache>>

\* A step as the abstract cache sees it.
Seen == [Promise!Accept \/ Promise!Store]_<<latest, cache.generation>>

-----------------------------------------------------------------------------
\* A new generation may be as new as the newest, and is no older.
LEMMA MaxOfTwo ==
    ASSUME NEW a \in Nat, NEW b \in Nat
    PROVE  /\ Max({a, b}) \in {a, b}
           /\ Max({a, b}) >= a /\ Max({a, b}) >= b
<1>1. \E x \in {a, b} : \A y \in {a, b} : x >= y
  <2>1. CASE a >= b
    BY <2>1
  <2>2. CASE b >= a
    BY <2>2
  <2> QED
    BY <2>1, <2>2
<1>2. Max({a, b}) \in {a, b} /\ \A y \in {a, b} : Max({a, b}) >= y
  BY <1>1 DEF Max
<1> QED
  BY <1>2

\* What does not touch the generations, the saves or the store changes nothing.
LEMMA IdleKeeps ==
    ASSUME CacheInv, Idle
    PROVE  CacheInv' /\ Seen
BY DEF CacheInv, GenerationsGrow, SavesAccepted, OneWrites, StoredAccepted, ScanRecord,
       CacheRecord, SaveRecord, Idle, Seen

\* A record stays one, and the other fields stay, when one field is set.
LEMMA WritingSet ==
    ASSUME NEW v, v = SaveRecord(v), NEW w, w = [v EXCEPT !.writing = TRUE]
    PROVE  w = SaveRecord(w) /\ w.generation = v.generation /\ w.writing = TRUE
BY DEF SaveRecord

\* The same of the scan: a field set leaves a record of the same generation.
LEMMA ScanSet ==
    ASSUME CacheInv,
           \/ scan' = [scan EXCEPT !.on = TRUE]
           \/ scan' = [scan EXCEPT !.restart = FALSE]
           \/ scan' = [scan EXCEPT !.on = FALSE, !.retain = FALSE]
    PROVE  scan' = ScanRecord' /\ scan'.generation = scan.generation
<1>1. CASE scan' = [scan EXCEPT !.on = TRUE]
  BY <1>1 DEF CacheInv, GenerationsGrow, ScanRecord
<1>2. CASE scan' = [scan EXCEPT !.restart = FALSE]
  BY <1>2 DEF CacheInv, GenerationsGrow, ScanRecord
<1>3. CASE scan' = [scan EXCEPT !.on = FALSE, !.retain = FALSE]
  BY <1>3 DEF CacheInv, GenerationsGrow, ScanRecord
<1> QED
  BY <1>1, <1>2, <1>3

\* Steps that change the scan alone, and never to an older generation.
ScanMoves ==
    /\ UNCHANGED <<latest, saves, cache>>
    /\ scan' = ScanRecord'
    /\ scan'.generation \in Nat /\ scan'.generation >= scan.generation

\* A scan that moves on accepts nothing, so the invariant stays.
LEMMA ScanMovesKeeps ==
    ASSUME CacheInv, ScanMoves
    PROVE  CacheInv' /\ Seen
<1>1. GenerationsGrow'
  BY DEF CacheInv, GenerationsGrow, ScanMoves, ScanRecord
<1>2. SavesAccepted' /\ OneWrites' /\ StoredAccepted'
  BY DEF CacheInv, SavesAccepted, OneWrites, StoredAccepted, ScanMoves, CacheRecord, SaveRecord
<1>3. Seen
  BY DEF Seen, ScanMoves
<1> QED
  BY <1>1, <1>2, <1>3 DEF CacheInv

\* startScan only raises the generation.
LEMMA StartScanMoves ==
    ASSUME CacheInv, NEW own, NEW complete, StartScan(own, complete),
           UNCHANGED <<latest, saves, cache>>
    PROVE  ScanMoves
BY DEF CacheInv, GenerationsGrow, ScanRecord, StartScan, ScanMoves

\* Cancelling a scan passes to the next generation.
LEMMA DropScanMoves ==
    ASSUME CacheInv, NEW restart, DropScan(restart), UNCHANGED <<latest, saves, cache>>
    PROVE  ScanMoves
BY DEF CacheInv, GenerationsGrow, ScanRecord, DropScan, ScanMoves

\* The scan's answer and the exact deletion: a tree is accepted, and saved
\* unless the store is read-only.
Accepts(g, own) ==
    /\ latest' = Max({latest, g})
    /\ \/ saves' = saves
       \/ saves' = saves \cup {[generation |-> g, own |-> own, writing |-> FALSE]}
    /\ UNCHANGED cache
    /\ scan' = ScanRecord' /\ scan'.generation \in Nat
    /\ scan'.generation >= scan.generation /\ scan'.generation >= g

\* Accepting a tree raises the newest generation; its save is no newer.
LEMMA AcceptsKeeps ==
    ASSUME CacheInv, NEW g \in Nat \ {0}, NEW own, Accepts(g, own)
    PROVE  CacheInv' /\ Seen
<1>1. /\ latest' \in {latest, g} /\ latest' \in Nat
      /\ latest' >= latest /\ latest' >= g
  <2>1. latest \in Nat /\ g \in Nat
    BY DEF CacheInv, GenerationsGrow
  <2> QED
    BY <2>1, MaxOfTwo DEF Accepts
<1>2. GenerationsGrow'
  BY <1>1 DEF CacheInv, GenerationsGrow, Accepts, ScanRecord
<1>3. ASSUME NEW v \in saves'
      PROVE  v \in saves \/ (v.generation = g /\ v.writing = FALSE /\ v = SaveRecord(v))
  BY <1>3 DEF Accepts, SaveRecord
<1>4. SavesAccepted'
  <2> SUFFICES ASSUME NEW v \in saves'
               PROVE  /\ v = SaveRecord(v) /\ v.writing \in BOOLEAN
                      /\ v.generation \in Nat \ {0} /\ v.generation <= latest'
    BY DEF SavesAccepted, SaveRecord
  <2>1. CASE v \in saves
    <3>1. /\ v = SaveRecord(v) /\ v.writing \in BOOLEAN
          /\ v.generation \in Nat \ {0} /\ v.generation <= latest /\ latest \in Nat
      BY <2>1 DEF CacheInv, SavesAccepted, GenerationsGrow
    <3> QED
      BY <1>1, <3>1
  <2>2. CASE v \notin saves
    BY <1>1, <1>3, <2>2
  <2> QED
    BY <2>1, <2>2
<1>5. OneWrites'
  BY <1>3 DEF CacheInv, OneWrites, Accepts
<1>6. StoredAccepted'
  BY <1>1 DEF CacheInv, GenerationsGrow, StoredAccepted, Accepts, CacheRecord
<1>7. Seen
  BY <1>1 DEF CacheInv, GenerationsGrow, Seen, Promise!Accept, Accepts
<1> QED
  BY <1>2, <1>4, <1>5, <1>6, <1>7 DEF CacheInv

-----------------------------------------------------------------------------
\* Taking the mutex: a save that is not of the newest generation is dropped,
\* so the one that is written is not older than the store.
LEMMA SaveBeginsKeeps ==
    ASSUME CacheInv, SaveBegins
    PROVE  CacheInv' /\ Seen
<1>1. PICK v \in saves :
        /\ \A o \in saves : ~o.writing
        /\ saves' = IF v.generation < latest THEN saves \ {v}
                    ELSE (saves \ {v}) \cup {[v EXCEPT !.writing = TRUE]}
  BY DEF SaveBegins
<1>2. UNCHANGED <<scan, latest, cache>>
  BY DEF SaveBegins, data
<1>3. GenerationsGrow' /\ StoredAccepted' /\ Seen
  BY <1>2 DEF CacheInv, GenerationsGrow, StoredAccepted, ScanRecord, CacheRecord, Seen
<1>4. CASE v.generation < latest
  <2>1. saves' \subseteq saves
    BY <1>1, <1>4
  <2> QED
    BY <1>2, <1>3, <2>1 DEF CacheInv, SavesAccepted, OneWrites, SaveRecord
<1>5. CASE ~(v.generation < latest)
  <2> DEFINE w == [v EXCEPT !.writing = TRUE]
  <2>1. /\ v = SaveRecord(v) /\ v.generation \in Nat \ {0}
        /\ v.generation <= latest /\ latest \in Nat
    BY DEF CacheInv, SavesAccepted, GenerationsGrow
  <2>3. w = SaveRecord(w) /\ w.generation = v.generation /\ w.writing = TRUE
    BY <2>1, WritingSet
  <2>4. \A o \in saves' : o = w \/ (o \in saves /\ ~o.writing)
    BY <1>1, <1>5
  <2> HIDE DEF w
  <2>5. SavesAccepted'
    BY <1>2, <2>1, <2>3, <2>4 DEF CacheInv, SavesAccepted, SaveRecord
  <2>6. v.generation = latest
    BY <1>5, <2>1
  <2>7. OneWrites'
    BY <1>2, <2>3, <2>4, <2>6 DEF CacheInv, OneWrites, StoredAccepted
  <2> QED
    BY <1>3, <2>5, <2>7 DEF CacheInv
<1> QED
  BY <1>4, <1>5

\* The save under the mutex ends: it stores its own generation or fails.
LEMMA SaveEndsKeeps ==
    ASSUME CacheInv, SaveEnds
    PROVE  CacheInv' /\ Seen
<1>1. PICK v \in saves :
        /\ v.writing
        /\ saves' = saves \ {v}
        /\ \/ cache' = [generation |-> v.generation, own |-> v.own, failed |-> FALSE]
           \/ cache' = [cache EXCEPT !.failed = TRUE]
  BY DEF SaveEnds
<1>2. UNCHANGED <<scan, latest>>
  BY DEF SaveEnds, data
<1>3. /\ v.generation \in Nat \ {0} /\ v.generation <= latest
      /\ cache.generation \in Nat /\ cache.generation <= v.generation
  BY <1>1 DEF CacheInv, SavesAccepted, OneWrites, StoredAccepted
<1>4. /\ cache' = CacheRecord'
      /\ cache'.generation \in {v.generation, cache.generation}
  BY <1>1 DEF CacheInv, StoredAccepted, CacheRecord
<1>5. GenerationsGrow' /\ StoredAccepted'
  BY <1>2, <1>3, <1>4 DEF CacheInv, GenerationsGrow, ScanRecord, StoredAccepted
<1>6. SavesAccepted'
  BY <1>1, <1>2 DEF CacheInv, SavesAccepted, SaveRecord
<1>7. OneWrites'
  BY <1>1 DEF CacheInv, OneWrites
<1>8. Seen
  <2>1. CASE cache'.generation = cache.generation
    BY <1>2, <2>1 DEF Seen
  <2>2. CASE cache'.generation # cache.generation
    <3>1. cache'.generation \in 1..latest /\ cache'.generation > cache.generation
      BY <1>3, <1>4, <2>2 DEF CacheInv, GenerationsGrow
    <3> QED
      BY <1>2, <3>1 DEF Seen, Promise!Store
  <2> QED
    BY <2>1, <2>2
<1> QED
  BY <1>5, <1>6, <1>7, <1>8 DEF CacheInv

\* The answer of a scan: taken, when it is current, or dropped.
LEMMA ScanAnswersKeeps ==
    ASSUME CacheInv, ScanAnswers
    PROVE  CacheInv' /\ Seen
<1>1. PICK s \in scans :
        IF s.generation # scan.generation
        THEN UNCHANGED <<tree, scan, store, left>>
        ELSE /\ scan' = [scan EXCEPT !.on = FALSE, !.retain = FALSE]
             /\ ScanCompletes(s) \/ ScanFallsShort(s) \/ ScanFails
  BY DEF ScanAnswers
<1>2. CASE s.generation # scan.generation
  BY <1>1, <1>2, IdleKeeps DEF Idle, store
<1>3. CASE s.generation = scan.generation
  <2>1. scan' = ScanRecord' /\ scan'.generation = scan.generation
    BY <1>1, <1>3 DEF CacheInv, GenerationsGrow, ScanRecord
  <2>2. scan.generation \in Nat \ {0}
    BY DEF CacheInv, GenerationsGrow
  <2>3. CASE ScanCompletes(s)
    <3>1. Accepts(s.generation, tree'.own)
      BY <1>3, <2>1, <2>2, <2>3 DEF ScanCompletes, Accepts
    <3> QED
      BY <1>3, <2>2, <3>1, AcceptsKeeps
  <2>4. CASE ScanFallsShort(s) \/ ScanFails
    <3>1. ScanMoves
      BY <2>1, <2>2, <2>4 DEF ScanFallsShort, ScanFails, store, ScanMoves
    <3> QED
      BY <3>1, ScanMovesKeeps
  <2> QED
    BY <1>1, <1>3, <2>3, <2>4
<1> QED
  BY <1>2, <1>3

\* What follows a mutation: an exact deletion is accepted and saved, or a scan starts.
LEMMA AfterMutationKeeps ==
    ASSUME CacheInv, NEW own, NEW changed, NEW needsScan,
           AfterMutation(own, changed, needsScan)
    PROVE  CacheInv' /\ Seen
<1>0. scan = ScanRecord /\ scan.generation \in Nat \ {0}
  BY DEF CacheInv, GenerationsGrow
<1>1. CASE needsScan
  <2>1. StartScan(own, tree.complete) /\ UNCHANGED <<latest, saves, cache>>
    BY <1>1 DEF AfterMutation, store
  <2> QED
    BY <2>1, StartScanMoves, ScanMovesKeeps
<1>2. CASE ~needsScan /\ changed /\ setup.store = "writable"
  <2> DEFINE g == scan.generation + 1
  <2>1. g \in Nat \ {0}
    BY <1>0
  <2>2. /\ latest' = Max({latest, g})
        /\ saves' = saves \cup {[generation |-> g, own |-> own, writing |-> FALSE]}
        /\ scan' = [scan EXCEPT !.generation = g, !.restart = FALSE]
        /\ UNCHANGED cache
    BY <1>2 DEF AfterMutation
  <2>3. scan' = ScanRecord' /\ scan'.generation = g
    BY <1>0, <2>2 DEF ScanRecord
  <2>4. Accepts(g, own)
    BY <1>0, <2>1, <2>2, <2>3 DEF Accepts
  <2> HIDE DEF g
  <2> QED
    BY <2>1, <2>4, AcceptsKeeps
<1>3. CASE ~needsScan /\ ~(changed /\ setup.store = "writable")
  <2>1. scan' = [scan EXCEPT !.restart = FALSE] /\ UNCHANGED <<latest, saves, cache>>
    BY <1>3 DEF AfterMutation, store
  <2>2. ScanMoves
    BY <1>0, <2>1, ScanSet DEF ScanMoves
  <2> QED
    BY <2>2, ScanMovesKeeps
<1> QED
  BY <1>1, <1>2, <1>3

-----------------------------------------------------------------------------
\* Every key.
LEMMA PressedKeeps ==
    ASSUME CacheInv, Pressed
    PROVE  CacheInv' /\ Seen
<1>1. CASE PressRefresh
  BY <1>1, StartScanMoves, ScanMovesKeeps DEF PressRefresh, Refresh, store
<1>2. CASE PressStop
  BY <1>2, DropScanMoves, ScanMovesKeeps DEF PressStop, store
<1>3. CASE PressApply
  <2>1. UNCHANGED <<latest, saves, cache>>
    BY <1>3 DEF PressApply, store
  <2>2. CASE scan.on
    BY <1>3, <2>1, <2>2, DropScanMoves, ScanMovesKeeps DEF PressApply
  <2>3. CASE ~scan.on
    <3>1. ScanMoves
      BY <1>3, <2>1, <2>3 DEF PressApply, CacheInv, GenerationsGrow, ScanRecord, ScanMoves
    <3> QED
      BY <3>1, ScanMovesKeeps
  <2> QED
    BY <2>2, <2>3
<1>4. CASE PressReview \/ PressMove \/ PressRemove \/ PressReorder
  <2>1. Idle
    BY <1>4 DEF PressReview, PressMove, PressRemove, PressReorder, ReviewOnly, data, store, Idle
  <2> QED
    BY <2>1, IdleKeeps
<1>5. CASE PressDiscard \/ PressClose \/ PressEnter \/ Resize
  <2>1. Idle
    BY <1>5 DEF PressDiscard, PressClose, PressEnter, Resize, ReviewOnly, data, store, Idle
  <2> QED
    BY <2>1, IdleKeeps
<1>6. CASE PressInput \/ PressStage \/ PressDryRun \/ PressExport
  <2>1. Idle
    BY <1>6 DEF PressInput, PressStage, PressDryRun, PressExport, ReviewOnly, data, store, Idle
  <2> QED
    BY <2>1, IdleKeeps
<1>7. CASE PressSave \/ PressShell \/ PressCancel
  <2>1. Idle
    BY <1>7 DEF PressSave, PressShell, PressCancel, data, store, Idle
  <2> QED
    BY <2>1, IdleKeeps
<1> QED
  BY <1>1, <1>2, <1>3, <1>4, <1>5, <1>6, <1>7 DEF Pressed

\* Every answer and every step of a save.
LEMMA AnswersKeep ==
    ASSUME CacheInv, Answers
    PROVE  CacheInv' /\ Seen
<1>1. CASE ScanShows
  <2>1. scan' = [scan EXCEPT !.on = TRUE] /\ UNCHANGED <<latest, saves, cache>>
    BY <1>1 DEF ScanShows, store
  <2>2. ScanMoves
    BY <2>1, ScanSet DEF CacheInv, GenerationsGrow, ScanMoves
  <2> QED
    BY <2>2, ScanMovesKeeps
<1>2. CASE Exported
  <2>1. UNCHANGED <<latest, saves, cache>>
    BY <1>2 DEF Exported, store
  <2>2. StartScan(tree.own, tree.complete) \/ UNCHANGED scan
    BY <1>2 DEF Exported, data
  <2> QED
    BY <2>1, <2>2, StartScanMoves, ScanMovesKeeps, IdleKeeps DEF Idle
<1>3. CASE ShellDone
  BY <1>3, StartScanMoves, ScanMovesKeeps DEF ShellDone, Refresh, store
<1>4. CASE Applied
  BY <1>4, AfterMutationKeeps DEF Applied
<1>5. CASE Staged \/ DryRun \/ ApplyOne
  <2>1. Idle
    BY <1>5 DEF Staged, DryRun, ApplyOne, data, store, Idle
  <2> QED
    BY <2>1, IdleKeeps
<1> QED
  BY <1>1, <1>2, <1>3, <1>4, <1>5, ScanAnswersKeeps, SaveBeginsKeeps, SaveEndsKeeps DEF Answers

\* A session begins with nothing accepted.
LEMMA CacheBegins == SessionInit => CacheInv /\ Promise!Init
<1> SUFFICES ASSUME SessionInit PROVE CacheInv /\ Promise!Init
  OBVIOUS
<1>1. GenerationsGrow
  BY DEF SessionInit, GenerationsGrow, ScanRecord
<1>2. SavesAccepted /\ OneWrites /\ StoredAccepted
  BY DEF SessionInit, SavesAccepted, OneWrites, StoredAccepted, CacheRecord
<1>3. Promise!Init
  BY DEF SessionInit, Promise!Init
<1> QED
  BY <1>1, <1>2, <1>3 DEF CacheInv

\* Every step.
LEMMA CacheSteps ==
    ASSUME CacheInv, [SessionNext \/ SessionRests]_sessionVars
    PROVE  CacheInv' /\ Seen
<1>1. CASE SessionNext
  BY <1>1, PressedKeeps, AnswersKeep DEF SessionNext
<1>2. CASE UNCHANGED sessionVars
  <2>1. Idle
    BY <1>2 DEF sessionVars, Idle
  <2> QED
    BY <2>1, IdleKeeps
<1> QED
  BY <1>1, <1>2 DEF SessionRests

\* The saves of overlapping scans and of exact deletions
\* (cacheSaveCoordinator) leave in the store the newest generation that was
\* written: the session implements NewestWins.
THEOREM CacheRefines == SessionSpec => CacheNeverGoesBack
BY CacheBegins, CacheSteps, PTL DEF SessionSpec, CacheNeverGoesBack, Promise!Spec, Seen

-----------------------------------------------------------------------------
(***************************************************************************)
(* Screens and jobs                                                        *)
(***************************************************************************)

ViewRecord(v) == [mode |-> v.mode, height |-> v.height, cursor |-> v.cursor,
                  offset |-> v.offset, seen |-> v.seen, dryRun |-> v.dryRun]
JobRecord(j) == [kind |-> j.kind, plan |-> j.plan, results |-> j.results,
                 canceled |-> j.canceled]
RunningRecord(s) == [generation |-> s.generation, canceled |-> s.canceled,
                     always |-> s.always, ever |-> s.ever]

Screens ==
    /\ view = ViewRecord(view)
    /\ job = JobRecord(job) /\ job.kind \in {"none", "apply", "dryRun"}

\* A scan that was canceled is of an older generation than the screen's.
ScansKnown ==
    /\ scan = ScanRecord /\ scan.generation \in Nat
    /\ \A s \in scans :
          /\ s = RunningRecord(s)
          /\ s.generation \in Nat /\ s.generation <= scan.generation
          /\ s.generation = scan.generation => ~s.canceled

Current == \E s \in scans : s.generation = scan.generation

\* The jobs have their screens, and the scan that is shown will answer.
Attended ==
    /\ view.mode = "applying" <=> job.kind = "apply"
    /\ view.mode = "dryRun" <=> job.kind = "dryRun"
    /\ scan.on => Current
    /\ scan.restart => view.mode = "applying"

Responsive == Screens /\ ScansKnown /\ (Late \/ Attended)

\* The disk changes under the scans, which go on.
LEMMA DiskBecomesKeeps ==
    ASSUME ScansKnown, NEW S, DiskBecomes(S), scan' = scan
    PROVE  ScansKnown' /\ (Current => Current')
<1> DEFINE f(s) == IF s.canceled THEN s
                   ELSE [s EXCEPT !.always = @ \cap S, !.ever = @ \cup S]
<1>1. scans' = {f(s) : s \in scans}
  BY DEF DiskBecomes
<1>2. ASSUME NEW s \in scans
      PROVE  f(s) = RunningRecord(f(s)) /\ f(s).generation = s.generation /\ f(s).canceled = s.canceled
  <2>1. s = RunningRecord(s)
    BY DEF ScansKnown
  <2>2. CASE s.canceled
    BY <2>1, <2>2
  <2>3. CASE ~s.canceled
    <3>1. f(s) = [s EXCEPT !.always = s.always \cap S, !.ever = s.ever \cup S]
      BY <2>3
    <3> HIDE DEF f
    <3> QED
      BY <2>1, <3>1 DEF RunningRecord
  <2> QED
    BY <2>2, <2>3
<1> HIDE DEF f
<1>3. ScansKnown'
  BY <1>1, <1>2 DEF ScansKnown, ScanRecord
<1> QED
  BY <1>1, <1>2, <1>3 DEF Current

\* A scan that is canceled stays a record, of no newer generation.
LEMMA CanceledAre ==
    ASSUME ScansKnown, NEW c \in Canceled(scans)
    PROVE  c = RunningRecord(c) /\ c.generation \in Nat /\ c.generation <= scan.generation
<1>1. PICK s \in scans : c = [s EXCEPT !.canceled = TRUE, !.always = {}, !.ever = {}]
  BY DEF Canceled
<1>2. s = RunningRecord(s) /\ s.generation \in Nat /\ s.generation <= scan.generation
  BY DEF ScansKnown
<1>3. c = RunningRecord(c) /\ c.generation = s.generation
  BY <1>1, <1>2 DEF RunningRecord
<1> QED
  BY <1>2, <1>3

\* startScan: the scan that is shown runs, and no restart is owed.
LEMMA StartScanRuns ==
    ASSUME ScansKnown, NEW own, NEW complete, StartScan(own, complete)
    PROVE  ScansKnown' /\ Current' /\ scan'.restart = FALSE
<1> DEFINE new == [generation |-> scan.generation + 1, canceled |-> FALSE,
                   always |-> disk', ever |-> disk']
<1>1. /\ scans' = Canceled(scans) \cup {new}
      /\ scan' = [on |-> TRUE, retain |-> complete, generation |-> scan.generation + 1,
                  restart |-> FALSE]
  BY DEF StartScan
<1>2. new = RunningRecord(new) /\ new.generation = scan.generation + 1 /\ ~new.canceled
  BY DEF RunningRecord
<1> HIDE DEF new
<1>3. scan.generation \in Nat
  BY DEF ScansKnown
<1>4. scan' = ScanRecord' /\ scan'.generation = scan.generation + 1 /\ scan'.restart = FALSE
  BY <1>1 DEF ScanRecord
<1>5. ASSUME NEW s \in scans'
      PROVE  /\ s = RunningRecord(s) /\ s.generation \in Nat
             /\ s.generation <= scan'.generation
             /\ s.generation = scan'.generation => ~s.canceled
  <2>1. CASE s = new
    BY <1>2, <1>3, <1>4, <2>1
  <2>2. CASE s \in Canceled(scans)
    BY <1>3, <1>4, <2>2, CanceledAre
  <2> QED
    BY <1>1, <2>1, <2>2
<1>6. ScansKnown'
  BY <1>3, <1>4, <1>5 DEF ScansKnown, RunningRecord
<1> QED
  BY <1>1, <1>2, <1>4, <1>6 DEF Current

\* Dropping a scan passes to the next generation, and none is shown.
LEMMA DropScanStops ==
    ASSUME ScansKnown, NEW restart, DropScan(restart)
    PROVE  ScansKnown' /\ scan'.on = FALSE /\ scan'.restart = restart
<1>1. /\ scans' = Canceled(scans)
      /\ scan' = [on |-> FALSE, retain |-> FALSE, generation |-> scan.generation + 1,
                  restart |-> restart]
  BY DEF DropScan
<1>2. scan.generation \in Nat
  BY DEF ScansKnown
<1>3. scan' = ScanRecord' /\ scan'.generation = scan.generation + 1
  BY <1>1 DEF ScanRecord
<1>4. ASSUME NEW s \in scans'
      PROVE  /\ s = RunningRecord(s) /\ s.generation \in Nat
             /\ s.generation <= scan'.generation
             /\ s.generation = scan'.generation => ~s.canceled
  BY <1>1, <1>2, <1>3, CanceledAre
<1> QED
  BY <1>1, <1>2, <1>3, <1>4 DEF ScansKnown, RunningRecord

\* The screen changes its mode and stays a screen.
LEMMA ViewSet ==
    ASSUME Screens, NEW m
    PROVE  Mode(m) = ViewRecord(Mode(m)) /\ Mode(m).mode = m
<1>1. view = ViewRecord(view)
  BY DEF Screens
<1>2. PICK w : w = [view EXCEPT !.mode = m]
  OBVIOUS
<1>3. w = ViewRecord(w) /\ w.mode = m
  BY <1>1, <1>2 DEF ViewRecord
<1> QED
  BY <1>2, <1>3 DEF Mode

\* Moving in the review, and starting it again, leave the mode alone.
LEMMA ReviewKeepsMode ==
    ASSUME NEW v, v = ViewRecord(v), NEW q,
           NEW w, w \in {ResetReview(v, q), ClampReview(v, q)}
    PROVE  w = ViewRecord(w) /\ w.mode = v.mode
<1>1. CASE w = ResetReview(v, q)
  <2>1. PICK seen : w = [v EXCEPT !.cursor = 0, !.offset = 0, !.seen = seen, !.dryRun = FALSE]
    BY <1>1 DEF ResetReview
  <2> QED
    BY <2>1 DEF ViewRecord
<1>2. CASE w = ClampReview(v, q) /\ q = <<>>
  BY <1>2 DEF ClampReview, ViewRecord
<1>3. CASE w = ClampReview(v, q) /\ q # <<>>
  <2> DEFINE cursor == Min({Max({0, v.cursor}), Len(q) - 1})
             follow == IF cursor < v.offset THEN cursor
                       ELSE IF cursor >= v.offset + Page(v) THEN cursor - Page(v) + 1
                       ELSE v.offset
             offset == Min({Max({0, follow}), Max({0, Len(q) - Page(v)})})
             end == Min({Len(q), offset + Page(v)})
             seen == IF offset <= v.seen THEN Max({v.seen, end}) ELSE v.seen
  <2>1. w = [v EXCEPT !.cursor = cursor, !.offset = offset, !.seen = seen]
    BY <1>3 DEF ClampReview
  <2> HIDE DEF cursor, offset, seen
  <2> QED
    BY <2>1 DEF ViewRecord
<1> QED
  BY <1>1, <1>2, <1>3

\* A field of the scan is set.
LEMMA ScanFieldSet ==
    ASSUME ScansKnown,
           \/ scan' = [scan EXCEPT !.on = TRUE]
           \/ scan' = [scan EXCEPT !.restart = FALSE]
           \/ scan' = [scan EXCEPT !.on = FALSE, !.retain = FALSE]
    PROVE  /\ scan' = ScanRecord' /\ scan'.generation = scan.generation
           /\ scan' = [scan EXCEPT !.on = TRUE] => scan'.restart = scan.restart
           /\ scan' = [scan EXCEPT !.restart = FALSE] => scan'.restart = FALSE /\ scan'.on = scan.on
           /\ scan' = [scan EXCEPT !.on = FALSE, !.retain = FALSE] =>
                scan'.restart = scan.restart /\ scan'.on = FALSE
<1>0. scan = ScanRecord
  BY DEF ScansKnown
<1>1. scan' = [scan EXCEPT !.on = TRUE] =>
        /\ scan' = ScanRecord' /\ scan'.generation = scan.generation
        /\ scan'.restart = scan.restart
  BY <1>0 DEF ScanRecord
<1>2. scan' = [scan EXCEPT !.restart = FALSE] =>
        /\ scan' = ScanRecord' /\ scan'.generation = scan.generation
        /\ scan'.restart = FALSE /\ scan'.on = scan.on
  BY <1>0 DEF ScanRecord
<1>3. scan' = [scan EXCEPT !.on = FALSE, !.retain = FALSE] =>
        /\ scan' = ScanRecord' /\ scan'.generation = scan.generation
        /\ scan'.restart = scan.restart /\ scan'.on = FALSE
  BY <1>0 DEF ScanRecord
<1> QED
  BY <1>1, <1>2, <1>3

\* Scans that answered are gone; the generation is the same.
LEMMA FewerScans ==
    ASSUME ScansKnown, scans' \subseteq scans, scan' = ScanRecord',
           scan'.generation = scan.generation
    PROVE  ScansKnown'
BY DEF ScansKnown, RunningRecord

\* The modes in which a job is attended to.
Waiting == {"applying", "dryRun"}

\* Steps on the screen alone, between screens without a job, and a resize.
LEMMA ScreenMoves ==
    ASSUME Screens, ScansKnown, Attended, UNCHANGED <<scan, scans, job>>,
           view' = ViewRecord(view'),
           \/ view.mode \notin Waiting /\ view'.mode \notin Waiting
           \/ view'.mode = view.mode
    PROVE  Responsive'
<1>1. Screens'
  BY DEF Screens, JobRecord, ViewRecord
<1>2. ScansKnown'
  BY DEF ScansKnown, RunningRecord, ScanRecord
<1>3. Attended'
  BY DEF Attended, Current, Waiting
<1> QED
  BY <1>1, <1>2, <1>3 DEF Responsive

\* Steps of the scan with the screen and the job as they were.
LEMMA ScanSteps ==
    ASSUME Screens, Attended, UNCHANGED <<view, job>>,
           ScansKnown', scan'.on => Current', scan'.restart => view.mode = "applying"
    PROVE  Responsive'
<1>1. Screens'
  BY DEF Screens, JobRecord, ViewRecord
<1>2. Attended'
  BY DEF Attended
<1> QED
  BY <1>1, <1>2 DEF Responsive

\* The review takes the screen from a job: the answer came late.
LEMMA ReviewTakes ==
    ASSUME Screens, Attended, UNCHANGED job, view' = ViewRecord(view'), view'.mode = "review",
           ScansKnown', scan'.on => Current', scan'.restart => scan.restart
    PROVE  Responsive'
<1>1. Screens'
  BY DEF Screens, JobRecord, ViewRecord
<1>2. CASE job.kind = "none"
  <2>1. Attended'
    BY <1>2 DEF Attended
  <2> QED
    BY <1>1, <2>1 DEF Responsive
<1>3. CASE job.kind # "none"
  <2>1. Late'
    BY <1>3 DEF Late
  <2> QED
    BY <1>1, <2>1 DEF Responsive
<1> QED
  BY <1>2, <1>3

\* The keys of the review and of the screens beside it.
LEMMA ReviewKeysRespond ==
    ASSUME Screens, ScansKnown, Attended,
           PressReview \/ PressMove \/ PressRemove \/ PressReorder \/ PressDiscard
           \/ PressClose \/ PressEnter \/ Resize \/ PressInput \/ PressExport
    PROVE  Responsive'
<1>1. UNCHANGED <<scan, scans, job>>
  BY DEF PressReview, PressMove, PressRemove, PressReorder, PressDiscard, PressClose,
         PressEnter, Resize, PressInput, PressExport, ReviewOnly, data
<1>2. view = ViewRecord(view)
  BY DEF Screens
<1> USE DEF Waiting
<1> SUFFICES /\ view' = ViewRecord(view')
             /\ \/ view.mode \notin Waiting /\ view'.mode \notin Waiting
                \/ view'.mode = view.mode
  BY <1>1, ScreenMoves
<1>3. CASE PressReview
  <2>1. Mode("review") = ViewRecord(Mode("review")) /\ Mode("review").mode = "review"
    BY ViewSet
  <2>2. view' = ResetReview(Mode("review"), queue) /\ view.mode = "none"
    BY <1>3 DEF PressReview
  <2> QED
    BY <2>1, <2>2, ReviewKeepsMode
<1>4. CASE PressMove
  <2>1. PICK cursor : view' = ClampReview([view EXCEPT !.cursor = cursor], queue)
    BY <1>4 DEF PressMove
  <2>2. PICK w : w = [view EXCEPT !.cursor = cursor]
    OBVIOUS
  <2>3. w = ViewRecord(w) /\ w.mode = view.mode
    BY <1>2, <2>2 DEF ViewRecord
  <2> QED
    BY <2>1, <2>2, <2>3, ReviewKeepsMode
<1>5. CASE PressRemove \/ PressReorder
  <2>1. view.mode = "review"
    BY <1>5 DEF PressRemove, PressReorder
  <2>2. view' = Mode("panic") \/ view' = ResetReview(view, queue') \/ view' = ResetReview(view, queue)
    BY <1>5 DEF PressRemove, PressReorder
  <2>3. Mode("panic") = ViewRecord(Mode("panic")) /\ Mode("panic").mode = "panic"
    BY ViewSet
  <2> QED
    BY <1>2, <2>1, <2>2, <2>3, ReviewKeepsMode
<1>6. CASE PressDiscard \/ PressClose \/ PressInput \/ PressExport
  <2>1. view.mode \notin Waiting
    BY <1>6 DEF PressDiscard, PressClose, PressInput, PressExport
  <2>2. \E m \in {"none", "review", "input", "export"} : view' = Mode(m)
    BY <1>6 DEF PressDiscard, PressClose, PressInput, PressExport
  <2> QED
    BY <2>1, <2>2, ViewSet
<1>7. CASE PressEnter
  <2>1. view.mode = "review"
    BY <1>7 DEF PressEnter
  <2>2. \/ view' = ResetReview(view, queue')
        \/ view' = ClampReview([view EXCEPT !.cursor = Min({view.seen, Len(queue) - 1})], queue)
        \/ view' = Mode("confirm")
    BY <1>7 DEF PressEnter
  <2>3. PICK w : w = [view EXCEPT !.cursor = Min({view.seen, Len(queue) - 1})]
    OBVIOUS
  <2>4. w = ViewRecord(w) /\ w.mode = view.mode
    BY <1>2, <2>3 DEF ViewRecord
  <2>5. Mode("confirm") = ViewRecord(Mode("confirm")) /\ Mode("confirm").mode = "confirm"
    BY ViewSet
  <2>6. CASE view' = ResetReview(view, queue')
    BY <1>2, <2>1, <2>6, ReviewKeepsMode
  <2>7. CASE view' = ClampReview(w, queue)
    BY <2>1, <2>4, <2>7, ReviewKeepsMode
  <2>8. CASE view' = Mode("confirm")
    BY <2>1, <2>5, <2>8
  <2> QED
    BY <2>2, <2>3, <2>6, <2>7, <2>8
<1>8. CASE Resize
  <2>1. PICK h : view' = IF [view EXCEPT !.height = h].mode = "review"
                         THEN ClampReview([view EXCEPT !.height = h], queue)
                         ELSE [view EXCEPT !.height = h]
    BY <1>8 DEF Resize
  <2>2. PICK w : w = [view EXCEPT !.height = h]
    OBVIOUS
  <2>3. w = ViewRecord(w) /\ w.mode = view.mode
    BY <1>2, <2>2 DEF ViewRecord
  <2>4. view' = w \/ view' = ClampReview(w, queue)
    BY <2>1, <2>2
  <2> QED
    BY <2>3, <2>4, ReviewKeepsMode
<1> QED
  BY <1>3, <1>4, <1>5, <1>6, <1>7, <1>8

\* The keys that reach the scan, the disk or a job.
LEMMA OtherKeysRespond ==
    ASSUME Screens, ScansKnown, Attended,
           PressRefresh \/ PressStop \/ PressStage \/ PressDryRun \/ PressSave
           \/ PressShell \/ PressApply \/ PressCancel
    PROVE  Responsive'
<1>1. CASE PressRefresh
  <2>1. UNCHANGED <<view, job>> /\ StartScan(tree.own, tree.complete)
    BY <1>1 DEF PressRefresh, Refresh
  <2> QED
    BY <2>1, StartScanRuns, ScanSteps
<1>2. CASE PressStop
  <2>1. UNCHANGED <<view, job>> /\ DropScan(scan.restart) /\ view.mode = "none"
    BY <1>2 DEF PressStop
  <2>2. ~scan.restart
    BY <2>1 DEF Attended
  <2> QED
    BY <2>1, <2>2, DropScanStops, ScanSteps
<1>3. CASE PressStage \/ PressSave
  <2>1. UNCHANGED <<view, job, scan, scans>>
    BY <1>3 DEF PressStage, PressSave, data
  <2> QED
    BY <2>1, ScreenMoves DEF Screens
<1>4. CASE PressDryRun
  <2>1. /\ view.mode = "review" /\ view' = Mode("dryRun") /\ UNCHANGED <<scan, scans>>
        /\ job' = [NoJob EXCEPT !.kind = "dryRun", !.plan = queue]
    BY <1>4 DEF PressDryRun, data
  <2>2. view' = ViewRecord(view') /\ view'.mode = "dryRun"
    BY <2>1, ViewSet
  <2>3. job' = JobRecord(job') /\ job'.kind = "dryRun"
    BY <2>1 DEF NoJob, JobRecord
  <2>4. Screens'
    BY <2>2, <2>3 DEF Screens, ViewRecord, JobRecord
  <2>5. ScansKnown'
    BY <2>1 DEF ScansKnown, RunningRecord, ScanRecord
  <2>6. Attended'
    BY <2>1, <2>2, <2>3 DEF Attended, Current
  <2> QED
    BY <2>4, <2>5, <2>6 DEF Responsive
<1>5. CASE PressShell
  <2>1. UNCHANGED <<view, job, scan>> /\ \E S : DiskBecomes(S)
    BY <1>5 DEF PressShell
  <2>2. ScansKnown' /\ (Current => Current')
    BY <2>1, DiskBecomesKeeps
  <2> QED
    BY <2>1, <2>2, ScanSteps DEF Attended
<1>6. CASE PressApply
  <2>1. /\ view.mode = "confirm" /\ view' = Mode("applying")
        /\ job' = [NoJob EXCEPT !.kind = "apply", !.plan = queue]
        /\ \/ DropScan(TRUE)
           \/ ~scan.on /\ scan' = [scan EXCEPT !.restart = FALSE] /\ UNCHANGED scans
    BY <1>6 DEF PressApply
  <2>2. view' = ViewRecord(view') /\ view'.mode = "applying"
    BY <2>1, ViewSet
  <2>3. job' = JobRecord(job') /\ job'.kind = "apply"
    BY <2>1 DEF NoJob, JobRecord
  <2>4. Screens'
    BY <2>2, <2>3 DEF Screens, ViewRecord, JobRecord
  <2>5. ScansKnown' /\ ~scan'.on
    <3>1. CASE DropScan(TRUE)
      BY <3>1, DropScanStops
    <3>2. CASE ~scan.on /\ scan' = [scan EXCEPT !.restart = FALSE] /\ UNCHANGED scans
      BY <3>2, ScanFieldSet, FewerScans
    <3> QED
      BY <2>1, <3>1, <3>2
  <2>6. Attended'
    BY <2>2, <2>3, <2>5 DEF Attended
  <2> QED
    BY <2>4, <2>5, <2>6 DEF Responsive
<1>7. CASE PressCancel
  <2>1. UNCHANGED <<view, scan, scans>> /\ job' = [job EXCEPT !.canceled = TRUE]
    BY <1>7 DEF PressCancel, data
  <2>2. job' = JobRecord(job') /\ job'.kind = job.kind
    BY <2>1 DEF Screens, JobRecord
  <2>3. Screens'
    BY <2>1, <2>2 DEF Screens, ViewRecord, JobRecord
  <2>4. ScansKnown'
    BY <2>1 DEF ScansKnown, RunningRecord, ScanRecord
  <2>5. Attended'
    BY <2>1, <2>2 DEF Attended, Current
  <2> QED
    BY <2>3, <2>4, <2>5 DEF Responsive
<1> QED
  BY <1>1, <1>2, <1>3, <1>4, <1>5, <1>6, <1>7

\* The answers of the scans, and what changes the disk under them.
LEMMA ScanAnswersRespond ==
    ASSUME Screens, ScansKnown, Attended, ~Late,
           ScanShows \/ ScanAnswers \/ ShellDone
    PROVE  Responsive'
<1>1. UNCHANGED <<view, job>>
  BY DEF ScanShows, ScanAnswers, ShellDone
<1>2. CASE ScanShows
  <2>1. PICK s \in scans : s.generation = scan.generation /\ scan' = [scan EXCEPT !.on = TRUE]
    BY <1>2 DEF ScanShows
  <2>2. UNCHANGED scans
    BY <1>2 DEF ScanShows
  <2>3. ScansKnown' /\ scan'.generation = scan.generation /\ scan'.restart = scan.restart
    BY <2>1, <2>2, ScanFieldSet, FewerScans
  <2>4. Current'
    BY <2>1, <2>2, <2>3 DEF Current
  <2> QED
    BY <1>1, <2>3, <2>4, ScanSteps DEF Attended
<1>3. CASE ScanAnswers
  <2>1. PICK s \in scans :
          /\ scans' = scans \ {s}
          /\ IF s.generation # scan.generation THEN UNCHANGED scan
             ELSE scan' = [scan EXCEPT !.on = FALSE, !.retain = FALSE]
    BY <1>3 DEF ScanAnswers
  <2>2. CASE s.generation # scan.generation
    <3>1. ScansKnown'
      BY <2>1, <2>2, FewerScans DEF ScansKnown, ScanRecord
    <3>2. Current => Current'
      BY <2>1, <2>2 DEF Current
    <3> QED
      BY <1>1, <2>1, <2>2, <3>1, <3>2, ScanSteps DEF Attended
  <2>3. CASE s.generation = scan.generation
    <3>1. ScansKnown' /\ ~scan'.on /\ scan'.restart = scan.restart
      BY <2>1, <2>3, ScanFieldSet, FewerScans
    <3> QED
      BY <1>1, <3>1, ScanSteps DEF Attended
  <2> QED
    BY <2>2, <2>3
<1>4. CASE ShellDone
  <2>1. StartScan(tree.own, tree.complete)
    BY <1>4 DEF ShellDone, Refresh
  <2> QED
    BY <1>1, <2>1, StartScanRuns, ScanSteps
<1> QED
  BY <1>2, <1>3, <1>4

\* The answers that turn the screen to the review, and the saves.
LEMMA ReviewAnswersRespond ==
    ASSUME Screens, ScansKnown, Attended, ~Late,
           SaveBegins \/ SaveEnds \/ Staged \/ Exported
    PROVE  Responsive'
<1>1. CASE SaveBegins \/ SaveEnds
  <2>1. UNCHANGED <<view, job, scan, scans>>
    BY <1>1 DEF SaveBegins, SaveEnds, data
  <2> QED
    BY <2>1, ScreenMoves DEF Screens
<1>2. CASE Staged
  <2>1. UNCHANGED <<job, scan, scans>>
    BY <1>2 DEF Staged, data
  <2>2. Mode("review") = ViewRecord(Mode("review")) /\ Mode("review").mode = "review"
    BY ViewSet
  <2>3. PICK q : \/ UNCHANGED view
                 \/ view' = Mode("review")
                 \/ view' = ResetReview(Mode("review"), q)
    BY <1>2 DEF Staged
  <2>4. CASE UNCHANGED view
    BY <2>1, <2>4, ScreenMoves DEF Screens
  <2>5. CASE view' # view
    <3>1. view' = ViewRecord(view') /\ view'.mode = "review"
      BY <2>2, <2>3, <2>5, ReviewKeepsMode
    <3>2. ScansKnown' /\ (Current => Current')
      BY <2>1 DEF ScansKnown, RunningRecord, ScanRecord, Current
    <3> QED
      BY <2>1, <3>1, <3>2, ReviewTakes DEF Attended
  <2> QED
    BY <2>4, <2>5
<1>3. CASE Exported
  <2>1. UNCHANGED job /\ view' = Mode("review")
        /\ (StartScan(tree.own, tree.complete) \/ UNCHANGED <<scan, scans>>)
    BY <1>3 DEF Exported, data
  <2>2. view' = ViewRecord(view') /\ view'.mode = "review"
    BY <2>1, ViewSet
  <2>3. CASE StartScan(tree.own, tree.complete)
    BY <2>1, <2>2, <2>3, StartScanRuns, ReviewTakes
  <2>4. CASE UNCHANGED <<scan, scans>>
    <3>1. ScansKnown' /\ (Current => Current')
      BY <2>4 DEF ScansKnown, RunningRecord, ScanRecord, Current
    <3> QED
      BY <2>1, <2>2, <2>4, <3>1, ReviewTakes DEF Attended
  <2> QED
    BY <2>1, <2>3, <2>4
<1> QED
  BY <1>1, <1>2, <1>3

\* What follows a mutation starts a scan, or none is shown.
LEMMA AfterMutationShows ==
    ASSUME ScansKnown, ~scan.on, NEW own, NEW changed, NEW needsScan,
           AfterMutation(own, changed, needsScan)
    PROVE  ScansKnown' /\ (scan'.on => Current') /\ ~scan'.restart
<1>1. CASE needsScan
  BY <1>1, StartScanRuns DEF AfterMutation
<1>2. CASE ~needsScan /\ scan' = [scan EXCEPT !.restart = FALSE] /\ UNCHANGED scans
  BY <1>2, ScanFieldSet, FewerScans
<1>3. CASE /\ ~needsScan /\ UNCHANGED scans
           /\ scan' = [scan EXCEPT !.generation = scan.generation + 1, !.restart = FALSE]
  <2>1. scan = ScanRecord /\ scan.generation \in Nat
    BY DEF ScansKnown
  <2>2. scan' = ScanRecord' /\ scan'.generation = scan.generation + 1
        /\ ~scan'.restart /\ scan'.on = scan.on
    BY <1>3, <2>1 DEF ScanRecord
  <2>3. ASSUME NEW s \in scans'
        PROVE  /\ s = RunningRecord(s) /\ s.generation \in Nat
               /\ s.generation <= scan'.generation /\ s.generation # scan'.generation
    BY <1>3, <2>1, <2>2 DEF ScansKnown
  <2>4. ScansKnown'
    BY <2>1, <2>2, <2>3 DEF ScansKnown, RunningRecord
  <2> QED
    BY <2>2, <2>4
<1> QED
  BY <1>1, <1>2, <1>3 DEF AfterMutation

\* A job and its answer.
LEMMA JobAnswersRespond ==
    ASSUME Screens, ScansKnown, Attended, ~Late, DryRun \/ ApplyOne \/ Applied
    PROVE  Responsive'
<1>1. view = ViewRecord(view)
  BY DEF Screens
<1>2. CASE DryRun
  <2>1. /\ job.kind = "dryRun" /\ job' = NoJob /\ UNCHANGED <<scan, scans>>
        /\ \E b : view' = [Mode("review") EXCEPT !.dryRun = b]
    BY <1>2 DEF DryRun, data
  <2>2. PICK m : m = Mode("review")
    OBVIOUS
  <2>3. m = ViewRecord(m) /\ m.mode = "review"
    BY <2>2, ViewSet
  <2>4. PICK b : view' = [m EXCEPT !.dryRun = b]
    BY <2>1, <2>2
  <2>5. view' = ViewRecord(view') /\ view'.mode = "review"
    BY <2>3, <2>4 DEF ViewRecord
  <2>6. job' = JobRecord(job') /\ job'.kind = "none"
    BY <2>1 DEF NoJob, JobRecord
  <2>7. Screens'
    BY <2>5, <2>6 DEF Screens, ViewRecord, JobRecord
  <2>8. ScansKnown' /\ (Current => Current')
    BY <2>1 DEF ScansKnown, RunningRecord, ScanRecord, Current
  <2>9. Attended'
    BY <2>1, <2>5, <2>6, <2>8 DEF Attended
  <2> QED
    BY <2>7, <2>8, <2>9 DEF Responsive
<1>3. CASE ApplyOne
  <2>1. /\ UNCHANGED <<view, scan>> /\ \E S : DiskBecomes(S)
        /\ \E r : job' = [job EXCEPT !.results = r]
    BY <1>3 DEF ApplyOne
  <2>2. job' = JobRecord(job') /\ job'.kind = job.kind
    BY <2>1 DEF Screens, JobRecord
  <2>3. Screens'
    BY <2>1, <2>2 DEF Screens, ViewRecord, JobRecord
  <2>4. ScansKnown' /\ (Current => Current')
    BY <2>1, DiskBecomesKeeps
  <2>5. Attended'
    BY <2>1, <2>2, <2>4 DEF Attended
  <2> QED
    BY <2>3, <2>4, <2>5 DEF Responsive
<1>4. CASE Applied
  <2>1. /\ job.kind = "apply" /\ job' = NoJob /\ view' = Mode("result")
        /\ \E own, changed, needsScan : AfterMutation(own, changed, needsScan)
    BY <1>4 DEF Applied
  <2>2. view' = ViewRecord(view') /\ view'.mode = "result"
    BY <2>1, ViewSet
  <2>3. job' = JobRecord(job') /\ job'.kind = "none"
    BY <2>1 DEF NoJob, JobRecord
  <2>4. ~scan.on
    BY <2>1 DEF Late
  <2>5. Screens'
    BY <2>2, <2>3 DEF Screens, ViewRecord, JobRecord
  <2>6. ScansKnown' /\ (scan'.on => Current') /\ ~scan'.restart
    BY <2>1, <2>4, AfterMutationShows
  <2>7. Attended'
    BY <2>2, <2>3, <2>6 DEF Attended
  <2> QED
    BY <2>5, <2>6, <2>7 DEF Responsive
<1> QED
  BY <1>2, <1>3, <1>4

\* A session begins with its first scan.
LEMMA BeginsResponsive == SessionInit => Responsive
<1> SUFFICES ASSUME SessionInit PROVE Responsive
  OBVIOUS
<1>1. Screens
  BY DEF SessionInit, Screens, ViewRecord, JobRecord, NoJob
<1>2. ScansKnown
  BY DEF SessionInit, ScansKnown, ScanRecord, RunningRecord
<1>3. Attended
  BY DEF SessionInit, Attended, Current, NoJob
<1> QED
  BY <1>1, <1>2, <1>3 DEF Responsive

\* Every step.
LEMMA StepsRespond ==
    ASSUME Responsive, [SessionNext \/ SessionRests]_sessionVars
    PROVE  Responsive'
<1>1. CASE SessionNext
  <2>1. Screens /\ ScansKnown /\ Attended /\ ~Late /\ (Pressed \/ Answers)
    BY <1>1 DEF SessionNext, Responsive
  <2>2. CASE Pressed
    BY <2>1, <2>2, ReviewKeysRespond, OtherKeysRespond DEF Pressed
  <2>3. CASE Answers
    BY <2>1, <2>3, ScanAnswersRespond, ReviewAnswersRespond, JobAnswersRespond DEF Answers
  <2> QED
    BY <2>1, <2>2, <2>3
<1>2. CASE UNCHANGED sessionVars
  <2>1. UNCHANGED <<view, job, scan, scans>>
    BY <1>2 DEF sessionVars
  <2>2. Screens' = Screens /\ ScansKnown' = ScansKnown /\ Late' = Late /\ Attended' = Attended
    BY <2>1 DEF Screens, ViewRecord, JobRecord, ScansKnown, ScanRecord, RunningRecord, Late,
                Attended, Current
  <2> QED
    BY <2>2 DEF Responsive
<1> QED
  BY <1>1, <1>2 DEF SessionRests

\* The session never waits for what nobody will answer: a screen that takes
\* no keys has its job, and "scanning" has a scan whose answer will be taken
\* (Update of the model, startScan, pauseScanForApply).
THEOREM NeverStuck == SessionSpec => []StaysResponsive
<1>1. Responsive => StaysResponsive
  BY DEF Responsive, ScansKnown, Attended, Current, StaysResponsive
<1> QED
  BY <1>1, BeginsResponsive, StepsRespond, PTL DEF SessionSpec

-----------------------------------------------------------------------------
(***************************************************************************)
(* Queues, and what the review draws of them                               *)
(***************************************************************************)

\* The k-th of a finite set of positions is one of them: how many are before a
\* position tells the positions apart, so every number of them is taken.
LEMMA NthIs ==
    ASSUME NEW S \in SUBSET Nat, IsFiniteSet(S), NEW k \in 1..Cardinality(S)
    PROVE  Nth(S, k) \in S /\ Cardinality({j \in S : j < Nth(S, k)}) = k - 1
<1> DEFINE below(i) == {j \in S : j < i}
           count == [i \in S |-> Cardinality(below(i))]
           n == Cardinality(S)
<1>1. \A i \in S : IsFiniteSet(below(i)) /\ Cardinality(below(i)) \in 0..(n - 1)
  <2> SUFFICES ASSUME NEW i \in S
               PROVE  IsFiniteSet(below(i)) /\ Cardinality(below(i)) \in 0..(n - 1)
    OBVIOUS
  <2>1. below(i) \in SUBSET S /\ below(i) # S
    OBVIOUS
  <2> HIDE DEF below
  <2>2. IsFiniteSet(below(i)) /\ Cardinality(below(i)) <= n
        /\ (Cardinality(below(i)) = n => below(i) = S)
    BY <2>1, FS_Subset
  <2>3. Cardinality(below(i)) \in Nat /\ n \in Nat
    BY <2>2, FS_CardinalityType
  <2> QED
    BY <2>1, <2>2, <2>3
<1>2. \A i, j \in S : i < j => Cardinality(below(i)) < Cardinality(below(j))
  <2> SUFFICES ASSUME NEW i \in S, NEW j \in S, i < j
               PROVE  Cardinality(below(i)) < Cardinality(below(j))
    OBVIOUS
  <2>1. below(i) \in SUBSET below(j) /\ below(i) # below(j)
    <3>1. ASSUME NEW x \in below(i) PROVE x \in below(j)
      <4>1. x \in Nat /\ i \in Nat /\ j \in Nat /\ x < i
        OBVIOUS
      <4> QED
        BY <4>1
    <3>2. i \in below(j) /\ i \notin below(i)
      OBVIOUS
    <3> QED
      BY <3>1, <3>2
  <2>2. IsFiniteSet(below(i)) /\ IsFiniteSet(below(j))
    BY <1>1
  <2> HIDE DEF below
  <2>3. Cardinality(below(i)) <= Cardinality(below(j))
        /\ (Cardinality(below(i)) = Cardinality(below(j)) => below(i) = below(j))
    BY <2>1, <2>2, FS_Subset
  <2>4. Cardinality(below(i)) \in Nat /\ Cardinality(below(j)) \in Nat
    BY <2>2, FS_CardinalityType
  <2> QED
    BY <2>1, <2>3, <2>4
<1>3. n \in Nat
  BY FS_CardinalityType
<1>4. count \in Injection(S, 0..(n - 1))
  <2>1. count \in [S -> 0..(n - 1)]
    BY <1>1
  <2>2. \A a, b \in S : count[a] = count[b] => a = b
    BY <1>1, <1>2
  <2> HIDE DEF count
  <2> QED
    BY <2>1, <2>2 DEF Injection, IsInjective
<1>5. IsFiniteSet(0..(n - 1)) /\ Cardinality(0..(n - 1)) = n
  <2> HIDE DEF n
  <2>1. 0 \in Int /\ n - 1 \in Int
    BY <1>3
  <2>2. IsFiniteSet(0..(n - 1))
        /\ Cardinality(0..(n - 1)) = IF 0 > n - 1 THEN 0 ELSE (n - 1) - 0 + 1
    BY ONLY <2>1, FS_Interval
  <2> QED
    BY <1>3, <2>2
<1>6. count \in Surjection(S, 0..(n - 1))
  <2> HIDE DEF count, n
  <2> QED
    BY <1>4, <1>5, FS_Injection DEF n
<1>7. k - 1 \in 0..(n - 1)
  BY <1>3
<1>8. PICK at \in S : count[at] = k - 1
  <2> HIDE DEF count, n
  <2> QED
    BY <1>6, <1>7 DEF Surjection
<1>9. \E i \in S : Cardinality({j \in S : j < i}) = k - 1
  BY <1>8
<1> QED
  BY <1>9 DEF Nth

IsQueue(q) == \E S : q \in Seq(S)

\* What is left of a queue holds operations of the queue, and all of them when
\* no position is left out.
LEMMA PositionsLeft ==
    ASSUME NEW q, IsQueue(q), NEW keep \in SUBSET DOMAIN q
    PROVE  /\ IsQueue(AtPositions(q, keep)) /\ ToSet(AtPositions(q, keep)) \subseteq ToSet(q)
           /\ IsFiniteSet(keep) /\ Len(AtPositions(q, keep)) = Cardinality(keep)
           /\ Cardinality(keep) <= Len(q)
           /\ Cardinality(keep) = Len(q) => keep = DOMAIN q
<1>1. PICK S : q \in Seq(S)
  BY DEF IsQueue
<1>2. Len(q) \in Nat /\ DOMAIN q = 1..Len(q)
  BY <1>1
<1>3. IsFiniteSet(1..Len(q)) /\ Cardinality(1..Len(q)) = Len(q)
  BY <1>2, FS_Interval
<1>4. IsFiniteSet(keep) /\ Cardinality(keep) <= Len(q)
      /\ (Cardinality(keep) = Len(q) => keep = DOMAIN q)
  BY <1>2, <1>3, FS_Subset
<1>5. Cardinality(keep) \in Nat
  BY <1>4, FS_CardinalityType
<1>6. \A k \in 1..Cardinality(keep) : Nth(keep, k) \in DOMAIN q
  <2> SUFFICES ASSUME NEW k \in 1..Cardinality(keep) PROVE Nth(keep, k) \in DOMAIN q
    OBVIOUS
  <2>1. keep \in SUBSET Nat
    BY <1>2
  <2> QED
    BY <1>4, <2>1, NthIs
<1>7. AtPositions(q, keep) \in Seq(ToSet(q)) /\ Len(AtPositions(q, keep)) = Cardinality(keep)
  <2>1. AtPositions(q, keep) \in [1..Cardinality(keep) -> ToSet(q)]
    BY <1>6 DEF AtPositions, ToSet
  <2> QED
    BY <1>5, <2>1
<1>8. ToSet(AtPositions(q, keep)) \subseteq ToSet(q)
  BY <1>7 DEF ToSet
<1> QED
  BY <1>4, <1>7, <1>8 DEF IsQueue

\* The positions of all of a queue are the queue.
LEMMA PositionsAll ==
    ASSUME NEW q, IsQueue(q)
    PROVE  AtPositions(q, DOMAIN q) = q
<1>1. PICK S : q \in Seq(S)
  BY DEF IsQueue
<1>2. PICK n \in Nat : n = Len(q)
  BY <1>1
<1>3. DOMAIN q = 1..n /\ q = [k \in 1..n |-> q[k]]
  BY <1>1, <1>2
<1>4. IsFiniteSet(1..n) /\ Cardinality(1..n) = n /\ 1..n \in SUBSET Nat
  BY FS_Interval
<1>5. \A k \in 1..n : Nth(1..n, k) = k
  <2> SUFFICES ASSUME NEW k \in 1..n PROVE Nth(1..n, k) = k
    OBVIOUS
  <2> DEFINE i == Nth(1..n, k)
  <2>1. i \in 1..n /\ Cardinality({j \in 1..n : j < i}) = k - 1
    BY <1>4, NthIs
  <2> HIDE DEF i
  <2>2. {j \in 1..n : j < i} = 1..(i - 1)
    BY <2>1
  <2>3. Cardinality(1..(i - 1)) = i - 1
    BY <2>1, FS_Interval
  <2>4. k - 1 = i - 1
    BY <2>1, <2>2, <2>3
  <2>5. i = k
    BY <2>1, <2>4
  <2> QED
    BY <2>5 DEF i
<1> QED
  BY <1>3, <1>4, <1>5 DEF AtPositions

\* Repetitions and contained deletions make a queue shorter, so one that keeps
\* its length is the same.
LEMMA CollapsedIsQueue ==
    ASSUME NEW q, IsQueue(q)
    PROVE  /\ IsQueue(Collapsed(q))
           /\ Len(Collapsed(q)) = Len(q) => Collapsed(q) = q
<1> DEFINE first == {i \in DOMAIN q : \A j \in 1..(i - 1) : ~SameOperation(q[i], q[j])}
           once == Distinct(q)
           outer == {i \in DOMAIN once : ~Nested(once, i)}
<1>1. once = AtPositions(q, first) /\ Collapsed(q) = AtPositions(once, outer)
  BY DEF Distinct, Collapsed
<1>2. first \in SUBSET DOMAIN q /\ outer \in SUBSET DOMAIN once
  OBVIOUS
<1> HIDE DEF first, outer, once
<1>3. /\ IsQueue(once) /\ Len(once) = Cardinality(first) /\ Cardinality(first) <= Len(q)
      /\ Cardinality(first) = Len(q) => first = DOMAIN q
  BY <1>1, <1>2, PositionsLeft
<1>4. /\ IsQueue(Collapsed(q)) /\ Len(Collapsed(q)) = Cardinality(outer)
      /\ Cardinality(outer) <= Len(once)
      /\ Cardinality(outer) = Len(once) => outer = DOMAIN once
  BY <1>1, <1>2, <1>3, PositionsLeft
<1>5. ASSUME Len(Collapsed(q)) = Len(q) PROVE Collapsed(q) = q
  <2>1. Len(q) \in Nat /\ Len(once) \in Nat
    BY <1>3 DEF IsQueue
  <2>2. first = DOMAIN q /\ outer = DOMAIN once
    BY <1>3, <1>4, <1>5, <2>1
  <2> QED
    BY <1>1, <1>3, <2>2, PositionsAll
<1> QED
  BY <1>4, <1>5

-----------------------------------------------------------------------------

\* The greater and the lesser of two numbers.
LEMMA MaxOfInts ==
    ASSUME NEW a \in Int, NEW b \in Int
    PROVE  Max({a, b}) = IF a >= b THEN a ELSE b
<1>1. PICK m \in {a, b} : m = IF a >= b THEN a ELSE b
  OBVIOUS
<1>2. \A y \in {a, b} : m >= y
  BY <1>1
<1>3. \A x \in {a, b} : (\A y \in {a, b} : x >= y) => x = m
  BY <1>1
<1> QED
  BY <1>1, <1>2, <1>3 DEF Max

\* The lesser of two numbers.
LEMMA MinOfInts ==
    ASSUME NEW a \in Int, NEW b \in Int
    PROVE  Min({a, b}) = IF a <= b THEN a ELSE b
<1>1. PICK m \in {a, b} : m = IF a <= b THEN a ELSE b
  OBVIOUS
<1>2. \A y \in {a, b} : m <= y
  BY <1>1
<1>3. \A x \in {a, b} : (\A y \in {a, b} : x <= y) => x = m
  BY <1>1
<1> QED
  BY <1>1, <1>2, <1>3 DEF Min

\* A queue is its positions, and empty where it has none.
LEMMA QueueLength ==
    ASSUME NEW q, IsQueue(q)
    PROVE  /\ Len(q) \in Nat /\ DOMAIN q = 1..Len(q)
           /\ q = <<>> <=> Len(q) = 0
BY DEF IsQueue

\* A page has a line, and fits the lines of the screen.
LEMMA PageIs ==
    ASSUME NEW v, v.height \in Nat
    PROVE  Page(v) \in Nat \ {0} /\ (v.height >= 5 => Page(v) <= v.height - 4)
<1>1. Max({1, v.height - 6}) = IF 1 >= v.height - 6 THEN 1 ELSE v.height - 6
  BY MaxOfInts
<1> QED
  BY <1>1 DEF Page

\* A review that starts again draws what counts as seen.
LEMMA ResetShows ==
    ASSUME NEW v, v = ViewRecord(v), v.mode = "review", v.height \in Nat,
           NEW q, IsQueue(q), NEW r, IsQueue(r), Len(r) = Len(q),
           NEW w, w = ResetReview(v, q)
    PROVE  /\ w = ViewRecord(w) /\ w.mode = "review" /\ w.height = v.height
           /\ w.cursor \in Nat /\ w.offset \in Nat /\ w.seen \in Nat
           /\ w.height >= 5 => \A i \in DOMAIN r : i <= w.seen => i \in Visible(w, r)
<1> DEFINE seen == Min({Len(q), Page(v)})
<1>1. w = [v EXCEPT !.cursor = 0, !.offset = 0, !.seen = seen, !.dryRun = FALSE]
  BY DEF ResetReview
<1>2. Page(v) \in Nat \ {0} /\ (v.height >= 5 => Page(v) <= v.height - 4)
  BY PageIs
<1>3. Len(q) \in Nat /\ DOMAIN r = 1..Len(q) /\ (r = <<>> <=> Len(q) = 0)
  BY QueueLength
<1>4. seen = IF Len(q) <= Page(v) THEN Len(q) ELSE Page(v)
  BY <1>2, <1>3, MinOfInts
<1> HIDE DEF seen
<1>5. /\ w = ViewRecord(w) /\ w.mode = "review" /\ w.height = v.height
      /\ w.cursor = 0 /\ w.offset = 0 /\ w.seen = seen
  BY <1>1 DEF ViewRecord
<1>6. Page(w) = Page(v)
  BY <1>5 DEF Page
<1>7. ASSUME w.height >= 5, NEW i \in DOMAIN r, i <= w.seen PROVE i \in Visible(w, r)
  <2>1. Len(r) # 0 /\ Len(r) \in Nat /\ r # <<>>
    BY <1>3, <1>7
  <2>2. Min({w.offset, Len(r) - 1}) = 0
    BY <1>5, <2>1, MinOfInts
  <2>3. i > 0 /\ i <= Page(w) /\ i <= w.height - 4 /\ i \in Nat
    BY <1>2, <1>3, <1>4, <1>5, <1>6, <1>7
  <2> QED
    BY <1>2, <1>5, <1>6, <2>1, <2>2, <2>3 DEF Visible
<1> QED
  BY <1>2, <1>3, <1>4, <1>5, <1>7

\* Moving in the review counts as seen what was seen and what is drawn now.
LEMMA ClampShows ==
    ASSUME NEW v, v = ViewRecord(v), v.mode = "review", v.height \in Nat,
           v.cursor \in Int, v.offset \in Nat, v.seen \in Nat,
           NEW q, IsQueue(q), NEW w, w = ClampReview(v, q)
    PROVE  /\ w = ViewRecord(w) /\ w.mode = "review" /\ w.height = v.height
           /\ w.cursor \in Nat /\ w.offset \in Nat /\ w.seen \in Nat
           /\ w.height >= 5 =>
                \A i \in DOMAIN q : i <= w.seen => i <= v.seen \/ i \in Visible(w, q)
<1>1. Page(v) \in Nat \ {0} /\ (v.height >= 5 => Page(v) <= v.height - 4)
  BY PageIs
<1>2. Len(q) \in Nat /\ DOMAIN q = 1..Len(q) /\ (q = <<>> <=> Len(q) = 0)
  BY QueueLength
<1>3. CASE q = <<>>
  <2>1. w = [v EXCEPT !.cursor = 0, !.offset = 0, !.seen = 0]
    BY <1>3 DEF ClampReview
  <2>2. /\ w = ViewRecord(w) /\ w.mode = "review" /\ w.height = v.height
        /\ w.cursor = 0 /\ w.offset = 0 /\ w.seen = 0
    BY <2>1 DEF ViewRecord
  <2> QED
    BY <1>2, <1>3, <2>2
<1>4. CASE q # <<>>
  <2> DEFINE cursor == Min({Max({0, v.cursor}), Len(q) - 1})
             follow == IF cursor < v.offset THEN cursor
                       ELSE IF cursor >= v.offset + Page(v) THEN cursor - Page(v) + 1
                       ELSE v.offset
             offset == Min({Max({0, follow}), Max({0, Len(q) - Page(v)})})
             end == Min({Len(q), offset + Page(v)})
             seen == IF offset <= v.seen THEN Max({v.seen, end}) ELSE v.seen
  <2>1. w = [v EXCEPT !.cursor = cursor, !.offset = offset, !.seen = seen]
    BY <1>4 DEF ClampReview
  <2>2. cursor \in Nat
    <3>1. Max({0, v.cursor}) = IF 0 >= v.cursor THEN 0 ELSE v.cursor
      BY MaxOfInts
    <3>2. Max({0, v.cursor}) \in Nat /\ Len(q) - 1 \in Nat
      BY <1>2, <1>4, <3>1
    <3>3. PICK a \in Nat : a = Max({0, v.cursor})
      BY <3>2
    <3>4. Min({a, Len(q) - 1}) = IF a <= Len(q) - 1 THEN a ELSE Len(q) - 1
      BY <3>2, MinOfInts
    <3> QED
      BY <3>2, <3>3, <3>4
  <2> HIDE DEF cursor
  <2>3. follow \in Int
    BY <1>1, <2>2
  <2> HIDE DEF follow
  <2>4. offset \in Nat /\ offset <= Len(q) - 1
    <3>1. Max({0, follow}) = IF 0 >= follow THEN 0 ELSE follow
      BY <2>3, MaxOfInts
    <3>2. Len(q) - Page(v) \in Int
      BY <1>1, <1>2
    <3>3. Max({0, Len(q) - Page(v)}) = IF 0 >= Len(q) - Page(v) THEN 0 ELSE Len(q) - Page(v)
      BY <3>2, MaxOfInts
    <3>4. Max({0, follow}) \in Nat /\ Max({0, Len(q) - Page(v)}) \in Nat
      BY <2>3, <3>1, <3>2, <3>3
    <3>5. PICK a \in Nat, b \in Nat : a = Max({0, follow}) /\ b = Max({0, Len(q) - Page(v)})
      BY <3>4
    <3>6. Min({a, b}) = IF a <= b THEN a ELSE b
      BY MinOfInts
    <3>7. offset = Min({a, b}) /\ b <= Len(q) - 1
      BY <1>1, <1>2, <1>4, <3>3, <3>5
    <3> QED
      BY <3>6, <3>7
  <2> HIDE DEF offset
  <2>5. end \in Nat /\ end <= offset + Page(v)
    <3>1. offset + Page(v) \in Nat
      BY <1>1, <2>4
    <3>2. end = IF Len(q) <= offset + Page(v) THEN Len(q) ELSE offset + Page(v)
      BY <1>2, <3>1, MinOfInts
    <3> QED
      BY <1>2, <3>1, <3>2
  <2> HIDE DEF end
  <2>6. seen \in Nat /\ (seen = v.seen \/ (offset <= v.seen /\ seen = end))
    <3>1. Max({v.seen, end}) = IF v.seen >= end THEN v.seen ELSE end
      BY <2>5, MaxOfInts
    <3> QED
      BY <2>5, <3>1
  <2> HIDE DEF seen
  <2>7. /\ w = ViewRecord(w) /\ w.mode = "review" /\ w.height = v.height
        /\ w.cursor = cursor /\ w.offset = offset /\ w.seen = seen
    BY <2>1 DEF ViewRecord
  <2>8. Page(w) = Page(v)
    BY <2>7 DEF Page
  <2>9. ASSUME w.height >= 5, NEW i \in DOMAIN q, i <= w.seen, ~(i <= v.seen)
        PROVE  i \in Visible(w, q)
    <3>1. i \in Nat
      BY <1>2
    <3>2. i > offset /\ i <= offset + Page(w) /\ i <= offset + w.height - 4
      BY <1>1, <2>4, <2>5, <2>6, <2>7, <2>8, <2>9, <3>1
    <3>3. Min({w.offset, Len(q) - 1}) = offset
      BY <1>2, <2>4, <2>7, MinOfInts
    <3> QED
      BY <1>4, <2>7, <2>9, <3>1, <3>2, <3>3 DEF Visible
  <2> QED
    BY <2>2, <2>4, <2>6, <2>7, <2>9
<1> QED
  BY <1>3, <1>4

-----------------------------------------------------------------------------
(***************************************************************************)
(* What is applied was reviewed                                            *)
(***************************************************************************)

\* The terminal has a line for an operation beside the four above it.
LinesForAll == \A h \in setup.heights : h >= 5

Counted ==
    /\ setup \in Setups /\ IsQueue(queue)
    /\ view.height \in setup.heights
    /\ view.cursor \in Nat /\ view.offset \in Nat /\ view.seen \in Nat
    /\ \A ask \in pending : ask.kind = "stage" => ask.what \in setup.stagings

\* What counts as seen was drawn, whether the review is on the screen or not.
Drawn ==
    LinesForAll =>
        \A i \in DOMAIN queue : i <= view.seen => queue[i] \in history.displayed

\* What is confirmed may be applied as it is, and all of it was drawn; while it
\* is applied it is still what was drawn.
Confirmed ==
    view.mode = "confirm" =>
        /\ queue # <<>> /\ ~Conflicting(queue) /\ Collapsed(queue) = queue
        /\ Len(queue) <= setup.maxQueue
Reviewed ==
    view.mode \in {"confirm", "applying"} /\ LinesForAll =>
        ToSet(queue) \subseteq history.displayed

Reviewing == Counted /\ Drawn /\ Confirmed /\ Reviewed

\* Heights are numbers of lines.
LEMMA HeightsAre ==
    ASSUME Counted
    PROVE  setup.heights \subseteq Nat /\ view.height \in Nat
BY SessionAssumption DEF Counted

\* The queue is as it was, and what was drawn stays.
LEMMA SameQueue ==
    ASSUME Reviewing, Remember, UNCHANGED <<setup, queue>>,
           \A ask \in pending' : ask.kind = "stage" => ask.what \in setup.stagings,
           view'.height \in setup.heights, view'.cursor = view.cursor,
           view'.offset = view.offset, view'.seen = view.seen,
           \/ view'.mode \notin {"confirm", "applying"}
           \/ view'.mode = view.mode
           \/ view.mode = "confirm" /\ view'.mode = "applying"
    PROVE  Reviewing'
<1>1. history.displayed \subseteq history'.displayed
  BY DEF Remember
<1>2. Counted'
  BY DEF Reviewing, Counted
<1>3. Drawn'
  BY <1>1 DEF Reviewing, Drawn, LinesForAll
<1>4. Confirmed'
  BY DEF Reviewing, Confirmed
<1>5. Reviewed'
  BY <1>1 DEF Reviewing, Reviewed, LinesForAll
<1> QED
  BY <1>2, <1>3, <1>4, <1>5 DEF Reviewing

\* Nothing of the review changes.
LEMMA SameReview ==
    ASSUME Reviewing, Remember, UNCHANGED <<setup, queue, view>>,
           \A ask \in pending' : ask.kind = "stage" => ask.what \in setup.stagings
    PROVE  Reviewing'
<1>1. view'.height \in setup.heights
  BY DEF Reviewing, Counted
<1> QED
  BY <1>1, SameQueue

\* The screen turns to something else than a confirmation.
LEMMA OtherScreen ==
    ASSUME Screens, Reviewing, Remember, UNCHANGED <<setup, queue>>,
           \A ask \in pending' : ask.kind = "stage" => ask.what \in setup.stagings,
           NEW m, view' = Mode(m),
           m \notin {"confirm", "applying"} \/ (view.mode = "confirm" /\ m = "applying")
    PROVE  Reviewing'
<1>1. view = ViewRecord(view)
  BY DEF Screens
<1>2. view' = [view EXCEPT !.mode = m]
  BY DEF Mode
<1>3. /\ view'.mode = m /\ view'.height = view.height /\ view'.cursor = view.cursor
      /\ view'.offset = view.offset /\ view'.seen = view.seen
  BY <1>1, <1>2 DEF ViewRecord
<1>4. view'.height \in setup.heights
  BY <1>3 DEF Reviewing, Counted
<1> QED
  BY <1>3, <1>4, SameQueue

\* A queue that has changed, or is reviewed again, is reviewed from its start.
LEMMA ReviewedAnew ==
    ASSUME Reviewing, Remember, UNCHANGED <<setup>>,
           \A ask \in pending' : ask.kind = "stage" => ask.what \in setup.stagings,
           NEW v, v = ViewRecord(v), v.mode = "review", v.height \in setup.heights,
           NEW q, IsQueue(q), IsQueue(queue'), Len(queue') = Len(q),
           view' = ResetReview(v, q)
    PROVE  Reviewing'
<1>1. v.height \in Nat
  BY HeightsAre DEF Reviewing
<1>2. PICK w : w = view'
  OBVIOUS
<1>3. PICK r : r = queue'
  OBVIOUS
<1>4. /\ w.mode = "review" /\ w.height = v.height
      /\ w.cursor \in Nat /\ w.offset \in Nat /\ w.seen \in Nat
      /\ w.height >= 5 => \A i \in DOMAIN r : i <= w.seen => i \in Visible(w, r)
  BY <1>1, <1>2, <1>3, ResetShows
<1>5. Counted'
  BY <1>2, <1>4 DEF Reviewing, Counted
<1>6. Drawn'
  <2>1. {r[i] : i \in Visible(w, r)} \subseteq history'.displayed
    BY <1>2, <1>3 DEF Remember
  <2> SUFFICES ASSUME LinesForAll', NEW i \in DOMAIN r, i <= w.seen
               PROVE  r[i] \in history'.displayed
    BY <1>2, <1>3 DEF Drawn
  <2>2. w.height >= 5
    BY <1>4 DEF LinesForAll
  <2> QED
    BY <1>4, <2>1, <2>2
<1>7. Confirmed' /\ Reviewed'
  BY <1>2, <1>4 DEF Confirmed, Reviewed
<1> QED
  BY <1>5, <1>6, <1>7 DEF Reviewing

\* What is drawn after a move counts as seen.
LEMMA MovedWithin ==
    ASSUME Reviewing, Remember, UNCHANGED <<setup, queue>>,
           \A ask \in pending' : ask.kind = "stage" => ask.what \in setup.stagings,
           NEW v, v = ViewRecord(v), v.mode = "review", v.height \in setup.heights,
           v.cursor \in Int, v.offset = view.offset, v.seen = view.seen,
           view' = ClampReview(v, queue)
    PROVE  Reviewing'
<1>1. v.height \in Nat
  BY HeightsAre DEF Reviewing
<1>2. PICK w : w = view'
  OBVIOUS
<1>3. IsQueue(queue) /\ v.offset \in Nat /\ v.seen \in Nat
  BY DEF Reviewing, Counted
<1>4. /\ w.mode = "review" /\ w.height = v.height
      /\ w.cursor \in Nat /\ w.offset \in Nat /\ w.seen \in Nat
      /\ w.height >= 5 => \A i \in DOMAIN queue :
                             i <= w.seen => i <= v.seen \/ i \in Visible(w, queue)
  BY <1>1, <1>2, <1>3, ClampShows
<1>5. Counted'
  BY <1>2, <1>4 DEF Reviewing, Counted
<1>6. Drawn'
  <2>1. /\ {queue[i] : i \in Visible(w, queue)} \subseteq history'.displayed
        /\ history.displayed \subseteq history'.displayed
    BY <1>2 DEF Remember
  <2> SUFFICES ASSUME LinesForAll', NEW i \in DOMAIN queue, i <= w.seen
               PROVE  queue[i] \in history'.displayed
    BY <1>2 DEF Drawn
  <2>2. w.height >= 5 /\ LinesForAll
    BY <1>4 DEF LinesForAll
  <2>3. CASE i <= view.seen
    BY <2>1, <2>2, <2>3 DEF Reviewing, Drawn
  <2>4. CASE ~(i <= view.seen)
    BY <1>4, <2>1, <2>2, <2>4
  <2> QED
    BY <2>3, <2>4
<1>7. Confirmed' /\ Reviewed'
  BY <1>2, <1>4 DEF Confirmed, Reviewed
<1> QED
  BY <1>5, <1>6, <1>7 DEF Reviewing

\* A queue of which an operation is taken, one of the same length, and one that
\* grows.
LEMMA QueueWithout ==
    ASSUME NEW q, IsQueue(q), NEW i \in DOMAIN q
    PROVE  IsQueue(RemoveAt(q, i))
<1>1. PICK S : q \in Seq(S)
  BY DEF IsQueue
<1>2. Len(q) \in Nat /\ DOMAIN q = 1..Len(q)
  BY <1>1
<1>3. SubSeq(q, 1, i - 1) \in Seq(S) /\ SubSeq(q, i + 1, Len(q)) \in Seq(S)
  BY <1>1, <1>2
<1> QED
  BY <1>3 DEF RemoveAt, IsQueue

\* Its operations replaced one by one leave a queue of the same length.
LEMMA QueueRearranged ==
    ASSUME NEW q, IsQueue(q), NEW S, NEW r \in [DOMAIN q -> S]
    PROVE  IsQueue(r) /\ Len(r) = Len(q)
<1>1. Len(q) \in Nat /\ DOMAIN q = 1..Len(q)
  BY QueueLength
<1>2. r \in Seq(S) /\ Len(r) = Len(q)
  BY <1>1
<1> QED
  BY <1>2 DEF IsQueue

\* Two queues joined are a queue.
LEMMA QueueGrown ==
    ASSUME NEW q, IsQueue(q), NEW r, IsQueue(r)
    PROVE  IsQueue(q \o r)
<1>1. PICK S : q \in Seq(S)
  BY DEF IsQueue
<1>2. PICK T : r \in Seq(T)
  BY DEF IsQueue
<1>3. q \in Seq(S \cup T) /\ r \in Seq(S \cup T)
  BY <1>1, <1>2
<1>4. q \o r \in Seq(S \cup T)
  BY <1>3
<1> QED
  BY <1>4 DEF IsQueue

\* So is the empty one.
LEMMA EmptyQueue == IsQueue(<<>>)
<1>1. <<>> \in Seq({})
  OBVIOUS
<1> QED
  BY <1>1 DEF IsQueue

\* The keys of the review.
LEMMA ReviewKeysReview ==
    ASSUME Screens, Reviewing, Remember,
           PressReview \/ PressMove \/ PressRemove \/ PressReorder \/ PressDiscard
           \/ PressClose \/ PressEnter \/ Resize \/ PressInput \/ PressExport
    PROVE  Reviewing'
<1>1. UNCHANGED <<setup, pending>>
  BY DEF PressReview, PressMove, PressRemove, PressReorder, PressDiscard, PressClose,
         PressEnter, Resize, PressInput, PressExport, ReviewOnly
<1>2. \A ask \in pending' : ask.kind = "stage" => ask.what \in setup.stagings
  BY <1>1 DEF Reviewing, Counted
<1>3. view = ViewRecord(view) /\ IsQueue(queue) /\ view.height \in setup.heights
      /\ view.cursor \in Nat /\ view.offset \in Nat /\ view.seen \in Nat
  BY DEF Screens, Reviewing, Counted
<1>4. CASE PressReview
  <2>1. view' = ResetReview(Mode("review"), queue) /\ UNCHANGED queue
    BY <1>4 DEF PressReview
  <2>2. Mode("review") = ViewRecord(Mode("review")) /\ Mode("review").mode = "review"
    BY ViewSet
  <2>3. Mode("review").height = view.height
    BY <1>3 DEF Mode, ViewRecord
  <2> QED
    BY <1>1, <1>2, <1>3, <2>1, <2>2, <2>3, ReviewedAnew
<1>5. CASE PressMove
  <2>1. PICK cursor \in {view.cursor + d : d \in {-1, 1, -Page(view), Page(view)}}
                     \cup {0, Max({0, Len(queue) - 1})} :
                view' = ClampReview([view EXCEPT !.cursor = cursor], queue)
    BY <1>5 DEF PressMove
  <2>2. cursor \in Int
    <3>1. Page(view) \in Nat
      BY HeightsAre, PageIs DEF Reviewing
    <3>2. Len(queue) - 1 \in Int
      BY <1>3, QueueLength
    <3>3. Max({0, Len(queue) - 1}) \in Int
      BY <3>2, MaxOfInts
    <3> QED
      BY <1>3, <2>1, <3>1, <3>3
  <2>3. PICK v : v = [view EXCEPT !.cursor = cursor]
    OBVIOUS
  <2>4. /\ v = ViewRecord(v) /\ v.mode = view.mode /\ v.height = view.height /\ v.cursor = cursor
        /\ v.offset = view.offset /\ v.seen = view.seen
    BY <1>3, <2>3 DEF ViewRecord
  <2>5. view.mode = "review" /\ UNCHANGED queue
    BY <1>5 DEF PressMove
  <2> QED
    BY <1>1, <1>2, <1>3, <2>1, <2>2, <2>3, <2>4, <2>5, MovedWithin
<1>6. CASE PressRemove
  <2>1. CASE view' = Mode("panic") /\ UNCHANGED queue
    BY <1>1, <1>2, <2>1, OtherScreen
  <2>2. CASE /\ view.cursor < Len(queue) /\ queue' = RemoveAt(queue, view.cursor + 1)
             /\ view' = ResetReview(view, queue')
    <3>1. view.mode = "review" /\ queue # <<>>
      BY <1>6 DEF PressRemove
    <3>2. view.cursor + 1 \in DOMAIN queue
      BY <1>3, <2>2, QueueLength
    <3>3. IsQueue(queue')
      BY <1>3, <2>2, <3>2, QueueWithout
    <3> QED
      BY <1>1, <1>2, <1>3, <2>2, <3>1, <3>3, ReviewedAnew
  <2> QED
    BY <1>6, <2>1, <2>2 DEF PressRemove
<1>7. CASE PressReorder
  <2>1. CASE view' = Mode("panic") /\ UNCHANGED queue
    BY <1>1, <1>2, <2>1, OtherScreen
  <2>2. CASE /\ \E i, j, x, y : queue' = [queue EXCEPT ![i] = x, ![j] = y]
             /\ view' = ResetReview(view, queue)
    <3>1. view.mode = "review"
      BY <1>7 DEF PressReorder
    <3>2. PICK i, j, x, y : queue' = [queue EXCEPT ![i] = x, ![j] = y]
      BY <2>2
    <3>3. PICK S : queue \in Seq(S)
      BY <1>3 DEF IsQueue
    <3>4. queue \in [DOMAIN queue -> S]
      BY <3>3
    <3>5. PICK t : t = [queue EXCEPT ![i] = x]
      OBVIOUS
    <3>6. t \in [DOMAIN queue -> S \cup {x}]
      BY <3>4, <3>5
    <3>7. queue' = [t EXCEPT ![j] = y]
      BY <3>2, <3>5
    <3>8. queue' \in [DOMAIN queue -> S \cup {x, y}]
      BY <3>6, <3>7
    <3>9. IsQueue(queue') /\ Len(queue') = Len(queue)
      BY <1>3, <3>8, QueueRearranged
    <3> QED
      BY <1>1, <1>2, <1>3, <2>2, <3>1, <3>9, ReviewedAnew
  <2>3. PICK to \in {view.cursor - 1, view.cursor + 1} \cap 0..(Len(queue) - 1) :
            IF view.cursor < Len(queue)
            THEN /\ queue' = [queue EXCEPT ![view.cursor + 1] = queue[to + 1],
                                           ![to + 1] = queue[view.cursor + 1]]
                 /\ view' = ResetReview(view, queue)
            ELSE UNCHANGED queue /\ view' = Mode("panic")
    BY <1>7 DEF PressReorder
  <2>4. CASE view.cursor < Len(queue)
    <3>1. \E i, j, x, y : queue' = [queue EXCEPT ![i] = x, ![j] = y]
      BY <2>3, <2>4
    <3> QED
      BY <2>2, <2>3, <2>4, <3>1
  <2> QED
    BY <2>1, <2>3, <2>4
<1>8. CASE PressDiscard
  <2>1. queue' = <<>> /\ view' = Mode("none")
    BY <1>8 DEF PressDiscard
  <2>2. /\ view'.mode = "none" /\ view'.height = view.height /\ view'.cursor = view.cursor
        /\ view'.offset = view.offset /\ view'.seen = view.seen
    BY <1>3, <2>1 DEF Mode, ViewRecord
  <2>3. Counted'
    BY <1>1, <1>3, <2>1, <2>2, EmptyQueue DEF Reviewing, Counted
  <2>4. Drawn' /\ Confirmed' /\ Reviewed'
    BY <2>1, <2>2 DEF Drawn, Confirmed, Reviewed
  <2> QED
    BY <2>3, <2>4 DEF Reviewing
<1>9. CASE PressClose \/ PressInput \/ PressExport
  <2>1. UNCHANGED queue /\ \E m \in {"none", "review", "input", "export"} : view' = Mode(m)
    BY <1>9 DEF PressClose, PressInput, PressExport
  <2> QED
    BY <1>1, <1>2, <2>1, OtherScreen
<1>10. CASE PressEnter
  <2>1. /\ view.mode = "review" /\ queue # <<>> /\ ~Conflicting(Collapsed(queue))
        /\ \/ /\ queue' = Collapsed(queue) /\ view' = ResetReview(view, queue')
           \/ /\ Len(Collapsed(queue)) = Len(queue) /\ WithinPolicy(queue) /\ UNCHANGED queue
              /\ view.seen < Len(queue)
              /\ view' = ClampReview([view EXCEPT !.cursor = Min({view.seen, Len(queue) - 1})], queue)
           \/ /\ Len(Collapsed(queue)) = Len(queue) /\ WithinPolicy(queue) /\ UNCHANGED queue
              /\ ~(view.seen < Len(queue))
              /\ view' = Mode("confirm")
    BY <1>10 DEF PressEnter
  <2>2. CASE queue' = Collapsed(queue) /\ view' = ResetReview(view, queue')
    <3>1. IsQueue(queue')
      BY <1>3, <2>2, CollapsedIsQueue
    <3> QED
      BY <1>1, <1>2, <1>3, <2>1, <2>2, <3>1, ReviewedAnew
  <2>3. CASE /\ UNCHANGED queue
             /\ view' = ClampReview([view EXCEPT !.cursor = Min({view.seen, Len(queue) - 1})], queue)
    <3>1. Len(queue) - 1 \in Int
      BY <1>3, QueueLength
    <3>2. PICK cursor \in Int : cursor = Min({view.seen, Len(queue) - 1})
      BY <1>3, <3>1, MinOfInts
    <3>3. PICK v : v = [view EXCEPT !.cursor = cursor]
      OBVIOUS
    <3>4. /\ v = ViewRecord(v) /\ v.mode = view.mode /\ v.height = view.height
          /\ v.cursor = cursor /\ v.offset = view.offset /\ v.seen = view.seen
      BY <1>3, <3>3 DEF ViewRecord
    <3> QED
      BY <1>1, <1>2, <1>3, <2>1, <2>3, <3>2, <3>3, <3>4, MovedWithin
  <2>4. CASE /\ Len(Collapsed(queue)) = Len(queue) /\ WithinPolicy(queue) /\ UNCHANGED queue
             /\ ~(view.seen < Len(queue))
             /\ view' = Mode("confirm")
    <3>1. Collapsed(queue) = queue /\ ~Conflicting(queue)
      BY <1>3, <2>1, <2>4, CollapsedIsQueue
    <3>2. /\ view'.mode = "confirm" /\ view'.height = view.height /\ view'.cursor = view.cursor
          /\ view'.offset = view.offset /\ view'.seen = view.seen
      BY <1>3, <2>4 DEF Mode, ViewRecord
    <3>3. history.displayed \subseteq history'.displayed
      BY <2>4 DEF Remember
    <3>4. Counted'
      BY <1>1, <1>3, <2>4, <3>2 DEF Reviewing, Counted
    <3>5. Drawn'
      BY <1>1, <2>4, <3>2, <3>3 DEF Reviewing, Drawn, LinesForAll
    <3>6. Confirmed'
      <4>1. queue # <<>> /\ Len(queue) <= setup.maxQueue
        BY <2>1, <2>4 DEF WithinPolicy
      <4>2. queue' = queue /\ setup' = setup
        BY <1>1, <2>4
      <4> QED
        BY <3>1, <4>1, <4>2 DEF Confirmed
    <3>7. Reviewed'
      <4>1. \A i \in DOMAIN queue : i <= view.seen
        BY <1>3, <2>4, QueueLength
      <4>2. LinesForAll => ToSet(queue) \subseteq history.displayed
        BY <4>1 DEF Reviewing, Drawn, ToSet
      <4> QED
        BY <1>1, <2>4, <3>3, <4>2 DEF Reviewed, LinesForAll
    <3> QED
      BY <3>4, <3>5, <3>6, <3>7 DEF Reviewing
  <2> QED
    BY <2>1, <2>2, <2>3, <2>4
<1>11. CASE Resize
  <2>1. PICK h \in setup.heights : view' = IF [view EXCEPT !.height = h].mode = "review"
                         THEN ClampReview([view EXCEPT !.height = h], queue)
                         ELSE [view EXCEPT !.height = h]
    BY <1>11 DEF Resize
  <2>2. PICK v : v = [view EXCEPT !.height = h]
    OBVIOUS
  <2>3. /\ v = ViewRecord(v) /\ v.mode = view.mode /\ v.height = h
        /\ v.cursor = view.cursor /\ v.offset = view.offset /\ v.seen = view.seen
    BY <1>3, <2>2 DEF ViewRecord
  <2>4. UNCHANGED queue
    BY <1>11 DEF Resize
  <2>5. CASE v.mode = "review"
    <3>1. view' = ClampReview(v, queue) /\ v.cursor \in Int
      BY <1>3, <2>1, <2>2, <2>3, <2>5
    <3> QED
      BY <1>1, <1>2, <1>3, <2>3, <2>4, <2>5, <3>1, MovedWithin
  <2>6. CASE v.mode # "review"
    <3>1. view' = v
      BY <2>1, <2>2, <2>6
    <3> QED
      BY <1>1, <1>2, <1>3, <2>3, <2>4, <3>1, SameQueue
  <2> QED
    BY <2>5, <2>6
<1> QED
  BY <1>4, <1>5, <1>6, <1>7, <1>8, <1>9, <1>10, <1>11

\* The keys that reach the scan, the disk or a job: of these APPLY alone turns a
\* confirmed queue into one that is applied.
LEMMA OtherKeysReview ==
    ASSUME Screens, Reviewing, Remember,
           PressRefresh \/ PressStop \/ PressStage \/ PressDryRun \/ PressSave
           \/ PressShell \/ PressApply \/ PressCancel
    PROVE  Reviewing'
<1>1. UNCHANGED <<setup, queue>>
  BY DEF PressRefresh, PressStop, PressStage, PressDryRun, PressSave, PressShell,
         PressApply, PressCancel
<1>2. \A ask \in pending : ask.kind = "stage" => ask.what \in setup.stagings
  BY DEF Reviewing, Counted
<1>3. \A ask \in pending' : ask.kind = "stage" => ask.what \in setup.stagings
  <2>1. CASE PressRefresh \/ PressStop \/ PressDryRun \/ PressApply \/ PressCancel
    <3>1. UNCHANGED pending
      BY <2>1 DEF PressRefresh, PressStop, PressDryRun, PressApply, PressCancel
    <3> QED
      BY <1>2, <3>1
  <2>2. CASE PressStage
    <3>1. PICK t \in setup.stagings : \E id :
            pending' = pending \cup {[kind |-> "stage", what |-> t, id |-> id]}
      BY <2>2 DEF PressStage
    <3> QED
      BY <1>2, <3>1
  <2>3. CASE PressSave \/ PressShell
    <3>1. PICK k \in {"export", "shell"} : \E x, id :
            pending' = pending \cup {[kind |-> k, what |-> x, id |-> id]}
      <4>1. CASE PressSave
        <5>1. pending' = pending \cup {[kind |-> "export", what |-> "a plan", id |-> 0]}
          BY <4>1 DEF PressSave
        <5> QED
          BY <5>1
      <4>2. CASE PressShell
        <5>1. pending' = pending \cup {[kind |-> "shell", what |-> "a shell", id |-> left.shell]}
          BY <4>2 DEF PressShell
        <5> QED
          BY <5>1
      <4> QED
        BY <2>3, <4>1, <4>2
    <3> QED
      BY <1>2, <3>1
  <2> QED
    BY <2>1, <2>2, <2>3
<1>4. CASE PressRefresh \/ PressStop \/ PressStage \/ PressSave \/ PressShell \/ PressCancel
  <2>1. UNCHANGED view
    BY <1>4 DEF PressRefresh, PressStop, PressStage, PressSave, PressShell, PressCancel
  <2> QED
    BY <1>1, <1>3, <2>1, SameReview
<1>5. CASE PressDryRun
  <2>1. view' = Mode("dryRun")
    BY <1>5 DEF PressDryRun
  <2> QED
    BY <1>1, <1>3, <2>1, OtherScreen
<1>6. CASE PressApply
  <2>1. view' = Mode("applying") /\ view.mode = "confirm"
    BY <1>6 DEF PressApply
  <2> QED
    BY <1>1, <1>3, <2>1, OtherScreen
<1> QED
  BY <1>4, <1>5, <1>6

\* A staging brings a queue that is reviewed from its start, or none.
LEMMA StagedReviews ==
    ASSUME Screens, Reviewing, Remember, Staged
    PROVE  Reviewing'
<1>1. PICK ask \in pending :
        /\ ask.kind = "stage" /\ pending' = pending \ {ask}
        /\ \/ UNCHANGED <<queue, view>>
           \/ UNCHANGED queue /\ view' = Mode("review")
           \/ /\ queue' = Collapsed(queue \o StagedBy(ask))
              /\ view' = ResetReview(Mode("review"), Collapsed(queue \o StagedBy(ask)))
  BY DEF Staged
<1>2. setup' = setup
  BY DEF Staged
<1>3. \A a \in pending' : a.kind = "stage" => a.what \in setup.stagings
  BY <1>1 DEF Reviewing, Counted
<1>4. CASE UNCHANGED <<queue, view>>
  BY <1>2, <1>3, <1>4, SameReview
<1>5. CASE UNCHANGED queue /\ view' = Mode("review")
  BY <1>2, <1>3, <1>5, OtherScreen
<1>6. CASE /\ queue' = Collapsed(queue \o StagedBy(ask))
           /\ view' = ResetReview(Mode("review"), Collapsed(queue \o StagedBy(ask)))
  <2>1. ask.what \in setup.stagings /\ setup \in Setups /\ IsQueue(queue)
        /\ view.height \in setup.heights
    BY <1>1 DEF Reviewing, Counted
  <2>2. ask.what.paths \in Seq(setup.known)
    BY <2>1, SessionAssumption
  <2>3. IsQueue(StagedBy(ask))
    <3>1. PICK n \in Nat : DOMAIN ask.what.paths = 1..n
      BY <2>2
    <3>2. PICK r : r = StagedBy(ask)
      OBVIOUS
    <3>3. DOMAIN r = 1..n /\ r = [i \in 1..n |-> r[i]]
      BY <3>1, <3>2 DEF StagedBy
    <3>4. r \in Seq({r[i] : i \in 1..n})
      BY <3>3
    <3> QED
      BY <3>2, <3>4 DEF IsQueue
  <2>4. IsQueue(queue')
    BY <1>6, <2>1, <2>3, QueueGrown, CollapsedIsQueue
  <2>5. Mode("review") = ViewRecord(Mode("review")) /\ Mode("review").mode = "review"
    BY ViewSet
  <2>6. Mode("review").height = view.height
    BY DEF Screens, Mode, ViewRecord
  <2> QED
    BY <1>2, <1>3, <1>6, <2>1, <2>4, <2>5, <2>6, ReviewedAnew
<1> QED
  BY <1>1, <1>4, <1>5, <1>6

\* What an apply has completed leaves the queue; what stays was drawn.
LEMMA AppliedReviews ==
    ASSUME Screens, Attended, ~Late, Reviewing, Remember, Applied
    PROVE  Reviewing'
<1>1. /\ job.kind = "apply" /\ job' = NoJob /\ view' = Mode("result") /\ UNCHANGED <<setup, pending>>
  BY DEF Applied
<1>2. view.mode = "applying"
  BY <1>1 DEF Attended
<1>3. \/ queue' = <<>>
      \/ \E keep \in SUBSET DOMAIN queue : queue' = AtPositions(queue, keep)
  <2> DEFINE completed == {r.id : r \in {x \in ToSet(job.results) : x.status \in {"ok", "completed"}}}
             keep == {i \in DOMAIN queue : queue[i].id \notin completed}
  <2>1. queue' = AtPositions(queue, keep) \/ queue' = <<>>
    BY DEF Applied
  <2>2. keep \in SUBSET DOMAIN queue
    OBVIOUS
  <2> QED
    BY <2>1, <2>2
<1>4. IsQueue(queue') /\ ToSet(queue') \subseteq ToSet(queue)
  <2>1. CASE queue' = <<>>
    BY <2>1, EmptyQueue DEF ToSet
  <2>2. CASE \E keep \in SUBSET DOMAIN queue : queue' = AtPositions(queue, keep)
    BY <2>2, PositionsLeft DEF Reviewing, Counted
  <2> QED
    BY <1>3, <2>1, <2>2
<1>5. /\ view'.mode = "result" /\ view'.height = view.height /\ view'.cursor = view.cursor
      /\ view'.offset = view.offset /\ view'.seen = view.seen
  BY <1>1 DEF Screens, Mode, ViewRecord
<1>6. job' # job
  BY <1>1 DEF NoJob
<1>7. history.displayed \subseteq history'.displayed
  BY <1>6 DEF Remember
<1>8. Counted'
  BY <1>1, <1>4, <1>5 DEF Reviewing, Counted
<1>9. Drawn'
  <2>1. LinesForAll' => ToSet(queue') \subseteq history'.displayed
    BY <1>1, <1>2, <1>4, <1>7 DEF Reviewing, Reviewed, LinesForAll
  <2> QED
    BY <2>1 DEF Drawn, ToSet
<1>10. Confirmed' /\ Reviewed'
  BY <1>5 DEF Confirmed, Reviewed
<1> QED
  BY <1>8, <1>9, <1>10 DEF Reviewing

\* Every answer.
LEMMA AnswersReview ==
    ASSUME Screens, Attended, ~Late, Reviewing, Remember, Answers
    PROVE  Reviewing'
<1>1. \A ask \in pending : ask.kind = "stage" => ask.what \in setup.stagings
  BY DEF Reviewing, Counted
<1>2. CASE ScanShows \/ ScanAnswers \/ SaveBegins \/ SaveEnds \/ ApplyOne
  <2>1. UNCHANGED <<setup, queue, view, pending>>
    BY <1>2 DEF ScanShows, ScanAnswers, SaveBegins, SaveEnds, ApplyOne
  <2> QED
    BY <1>1, <2>1, SameReview
<1>3. CASE ShellDone
  <2>1. UNCHANGED <<setup, queue, view>> /\ pending' \subseteq pending
    BY <1>3 DEF ShellDone
  <2>2. \A ask \in pending' : ask.kind = "stage" => ask.what \in setup.stagings
    BY <1>1, <2>1
  <2> QED
    BY <2>1, <2>2, SameReview
<1>4. CASE Exported
  <2>1. UNCHANGED <<setup, queue>> /\ view' = Mode("review") /\ pending' \subseteq pending
    BY <1>4 DEF Exported
  <2>2. \A ask \in pending' : ask.kind = "stage" => ask.what \in setup.stagings
    BY <1>1, <2>1
  <2> QED
    BY <2>1, <2>2, OtherScreen
<1>5. CASE DryRun
  <2>1. UNCHANGED <<setup, queue, pending>> /\ \E b : view' = [Mode("review") EXCEPT !.dryRun = b]
    BY <1>5 DEF DryRun
  <2>2. PICK m : m = Mode("review")
    OBVIOUS
  <2>3. /\ m = ViewRecord(m) /\ m.mode = "review" /\ m.height = view.height
        /\ m.cursor = view.cursor /\ m.offset = view.offset /\ m.seen = view.seen
    BY <2>2 DEF Screens, Mode, ViewRecord
  <2>4. PICK b : view' = [m EXCEPT !.dryRun = b]
    BY <2>1, <2>2
  <2>5. /\ view'.mode = "review" /\ view'.height = view.height
        /\ view'.cursor = view.cursor /\ view'.offset = view.offset /\ view'.seen = view.seen
    BY <2>3, <2>4 DEF ViewRecord
  <2>6. view'.height \in setup.heights
    BY <2>5 DEF Reviewing, Counted
  <2> QED
    BY <1>1, <2>1, <2>5, <2>6, SameQueue
<1>6. CASE Staged
  BY <1>6, StagedReviews
<1>7. CASE Applied
  BY <1>7, AppliedReviews
<1> QED
  BY <1>2, <1>3, <1>4, <1>5, <1>6, <1>7 DEF Answers

\* A session begins with an empty queue.
LEMMA BeginsReviewing == SessionInit => Reviewing
<1> SUFFICES ASSUME SessionInit PROVE Reviewing
  OBVIOUS
<1>1. setup \in Setups /\ queue = <<>> /\ pending = {} /\ view.height = Max(setup.heights)
      /\ view.mode = "none" /\ view.cursor = 0 /\ view.offset = 0 /\ view.seen = 0
  BY DEF SessionInit
<1>2. view.height \in setup.heights
  <2>1. \E top \in setup.heights : \A h \in setup.heights : h <= top
    BY <1>1, SessionAssumption
  <2>2. \E x \in setup.heights : \A y \in setup.heights : x >= y
    BY <2>1
  <2>3. Max(setup.heights) \in setup.heights
    BY <2>2 DEF Max
  <2> QED
    BY <1>1, <2>3
<1>3. Counted
  BY <1>1, <1>2, EmptyQueue DEF Counted
<1>4. Drawn /\ Confirmed /\ Reviewed
  BY <1>1 DEF Drawn, Confirmed, Reviewed
<1> QED
  BY <1>3, <1>4 DEF Reviewing

\* Every step, from states where the session responds.
LEMMA StepsReview ==
    ASSUME Responsive, Reviewing, [SessionNext \/ SessionRests]_sessionVars
    PROVE  Reviewing'
<1>1. CASE SessionNext
  <2>1. Screens /\ Attended /\ ~Late /\ (Pressed \/ Answers) /\ Remember
    BY <1>1 DEF SessionNext, Responsive
  <2>2. CASE Pressed
    BY <2>1, <2>2, ReviewKeysReview, OtherKeysReview DEF Pressed
  <2>3. CASE Answers
    BY <2>1, <2>3, AnswersReview
  <2> QED
    BY <2>1, <2>2, <2>3
<1>2. CASE UNCHANGED sessionVars
  <2>1. UNCHANGED <<setup, view, queue, pending, history>>
    BY <1>2 DEF sessionVars
  <2>2. Counted' /\ Confirmed'
    BY <2>1 DEF Reviewing, Counted, Confirmed
  <2>3. Drawn' /\ Reviewed'
    BY <2>1 DEF Reviewing, Drawn, Reviewed, LinesForAll
  <2> QED
    BY <2>2, <2>3 DEF Reviewing
<1> QED
  BY <1>1, <1>2 DEF SessionRests

\* Only APPLY, at the confirmation, begins an apply; its plan is the queue.
LEMMA OnlyConfirmedApplied ==
    ASSUME Screens, SessionNext, job.kind = "none", job'.kind = "apply"
    PROVE  view.mode = "confirm" /\ job'.plan = queue
<1>1. job = JobRecord(job)
  BY DEF Screens
<1>2. CASE PressApply
  BY <1>2 DEF PressApply, NoJob
<1>3. CASE PressDryRun
  BY <1>3 DEF PressDryRun, NoJob
<1>4. CASE PressCancel \/ DryRun \/ ApplyOne \/ Applied
  BY <1>1, <1>4 DEF PressCancel, DryRun, ApplyOne, Applied, NoJob, JobRecord
<1>5. CASE ~(PressApply \/ PressDryRun \/ PressCancel \/ DryRun \/ ApplyOne \/ Applied)
  <2>1. CASE PressRefresh \/ PressStop \/ PressInput \/ PressStage \/ PressExport
             \/ PressSave \/ PressShell
    <3>1. UNCHANGED job
      BY <2>1 DEF PressRefresh, PressStop, PressInput, PressStage, PressExport, PressSave,
                  PressShell, ReviewOnly
    <3> QED
      BY <3>1
  <2>2. CASE PressReview \/ PressMove \/ PressRemove \/ PressReorder \/ PressDiscard
             \/ PressClose \/ PressEnter \/ Resize
    <3>1. UNCHANGED job
      BY <2>2 DEF PressReview, PressMove, PressRemove, PressReorder, PressDiscard, PressClose,
                  PressEnter, Resize, ReviewOnly
    <3> QED
      BY <3>1
  <2>3. CASE ScanShows \/ ScanAnswers \/ SaveBegins \/ SaveEnds \/ Staged \/ Exported \/ ShellDone
    <3>1. UNCHANGED job
      BY <2>3 DEF ScanShows, ScanAnswers, SaveBegins, SaveEnds, Staged, Exported, ShellDone
    <3> QED
      BY <3>1
  <2> QED
    BY <1>5, <2>1, <2>2, <2>3 DEF SessionNext, Pressed, Answers
<1> QED
  BY <1>2, <1>3, <1>4, <1>5

\* What an apply begins with.
LEMMA BeginsWithReviewed ==
    ASSUME Responsive, Reviewing, [SessionNext \/ SessionRests]_sessionVars,
           job.kind = "none", job'.kind = "apply"
    PROVE  /\ job'.plan = queue /\ queue # <<>>
           /\ (\A h \in setup.heights : h >= 5) => ToSet(queue) \subseteq history.displayed
           /\ ~Conflicting(queue) /\ Collapsed(queue) = queue
           /\ Len(queue) <= setup.maxQueue
<1>1. SessionNext
  BY DEF SessionRests, sessionVars
<1>2. view.mode = "confirm" /\ job'.plan = queue
  BY <1>1, OnlyConfirmedApplied DEF Responsive
<1> QED
  BY <1>2 DEF Reviewing, Confirmed, Reviewed, LinesForAll

\* What APPLY starts is the queue as it is, without conflicts, within the cap,
\* and every operation of it has been drawn since the queue was last edited or
\* staged to (handleManagementKey, clampQueueReview, stagedMsg, runPlanCmd).
THEOREM OnlyReviewedApplied == SessionSpec => AppliedWasReviewed
<1>1. Responsive /\ Reviewing /\ [SessionNext \/ SessionRests]_sessionVars
        => [job.kind = "none" /\ job'.kind = "apply" =>
              /\ job'.plan = queue /\ queue # <<>>
              /\ (\A h \in setup.heights : h >= 5) => ToSet(queue) \subseteq history.displayed
              /\ ~Conflicting(queue) /\ Collapsed(queue) = queue
              /\ Len(queue) <= setup.maxQueue]_sessionVars
  BY BeginsWithReviewed
<1> QED
  BY <1>1, BeginsResponsive, StepsRespond, BeginsReviewing, StepsReview,
     PTL DEF SessionSpec, AppliedWasReviewed

-----------------------------------------------------------------------------
(***************************************************************************)
(* Paths, one within another                                               *)
(***************************************************************************)

\* A path without its last name.
LEMMA FrontIs ==
    ASSUME NEW p \in Seq(Int), p # <<>>
    PROVE  /\ Front(p) \in Seq(Int) /\ Len(Front(p)) = Len(p) - 1 /\ Len(p) \in Nat \ {0}
           /\ \A i \in 1..(Len(p) - 1) : Front(p)[i] = p[i]
<1>1. Len(p) \in Nat \ {0} /\ \A i \in 1..Len(p) : p[i] \in Int
  OBVIOUS
<1>2. PICK n \in Nat : n = Len(p) - 1
  BY <1>1
<1>3. \A i \in 1..n : p[i] \in Int
  BY <1>1, <1>2
<1>4. /\ SubSeq(p, 1, n) \in Seq(Int)
      /\ Len(SubSeq(p, 1, n)) = IF 1 <= n THEN n - 1 + 1 ELSE 0
      /\ \A i \in 1..(n - 1 + 1) : SubSeq(p, 1, n)[i] = p[1 + i - 1]
  BY <1>3, SubSeqProperties
<1>5. /\ Len(SubSeq(p, 1, n)) = n
      /\ \A i \in 1..n : SubSeq(p, 1, n)[i] = p[i]
  BY <1>4
<1>6. Front(p) = SubSeq(p, 1, n)
  BY <1>2 DEF Front
<1> QED
  BY <1>1, <1>2, <1>4, <1>5, <1>6

\* Two paths are the same when their names are.
LEMMA SamePath ==
    ASSUME NEW p \in Seq(Int), NEW q \in Seq(Int), Len(p) = Len(q),
           \A i \in 1..Len(p) : p[i] = q[i]
    PROVE  p = q
BY SeqEqual

\* What is within a path begins with it.
LEMMA WithinIs ==
    ASSUME NEW p \in Seq(Int), NEW q \in Seq(Int)
    PROVE  Within(p, q) <=> Len(p) <= Len(q) /\ \A i \in 1..Len(p) : q[i] = p[i]
<1>1. Len(p) \in Nat /\ Len(q) \in Nat
  OBVIOUS
<1>2. CASE Len(p) <= Len(q)
  <2>1. \A i \in 1..Len(p) : q[i] \in Int /\ p[i] \in Int
    BY <1>1, <1>2
  <2>2. /\ SubSeq(q, 1, Len(p)) \in Seq(Int) /\ Len(SubSeq(q, 1, Len(p))) = Len(p)
        /\ \A i \in 1..Len(p) : SubSeq(q, 1, Len(p))[i] = q[i]
    BY <1>1, <2>1, SubSeqProperties
  <2>3. /\ SubSeq(p, 1, Len(p)) \in Seq(Int) /\ Len(SubSeq(p, 1, Len(p))) = Len(p)
        /\ \A i \in 1..Len(p) : SubSeq(p, 1, Len(p))[i] = p[i]
    BY <1>1, <2>1, SubSeqProperties
  <2>4. SubSeq(p, 1, Len(p)) = p
    BY <2>3, SamePath
  <2>5. SubSeq(q, 1, Len(p)) = p <=> \A i \in 1..Len(p) : q[i] = p[i]
    BY <2>2, SamePath
  <2> QED
    BY <1>2, <2>4, <2>5 DEF Within, IsPrefix
<1>3. CASE ~(Len(p) <= Len(q))
  BY <1>1, <1>3 DEF Within, IsPrefix
<1> QED
  BY <1>2, <1>3

\* What is within a path is the path, or has its parent within it.
LEMMA WithinFront ==
    ASSUME NEW p \in Seq(Int), NEW q \in Seq(Int), q # <<>>, Within(p, q)
    PROVE  p = q \/ Within(p, Front(q))
<1>1. /\ Front(q) \in Seq(Int) /\ Len(Front(q)) = Len(q) - 1 /\ Len(q) \in Nat \ {0}
      /\ \A i \in 1..(Len(q) - 1) : Front(q)[i] = q[i]
  BY FrontIs
<1>2. PICK r : r = Front(q)
  OBVIOUS
<1>3. Len(p) \in Nat /\ Len(p) <= Len(q) /\ \A i \in 1..Len(p) : q[i] = p[i]
  BY WithinIs
<1>4. CASE Len(p) = Len(q)
  BY <1>3, <1>4, SamePath
<1>5. CASE Len(p) < Len(q)
  <2>1. Len(p) <= Len(r) /\ \A i \in 1..Len(p) : r[i] = p[i]
    BY <1>1, <1>2, <1>3, <1>5
  <2> QED
    BY <1>1, <1>2, <2>1, WithinIs
<1> QED
  BY <1>1, <1>3, <1>4, <1>5

\* A path contains itself, and what is within what it contains.
LEMMA WithinThrough ==
    ASSUME NEW p \in Seq(Int), NEW q \in Seq(Int), NEW r \in Seq(Int)
    PROVE  Within(p, p) /\ (Within(p, q) /\ Within(q, r) => Within(p, r))
<1>1. Len(p) \in Nat /\ Len(q) \in Nat /\ Len(r) \in Nat
  OBVIOUS
<1> QED
  BY <1>1, WithinIs

\* The entries of a directory are the paths whose parent it is.
LEMMA ChildIs ==
    ASSUME NEW p \in Seq(Int), NEW c \in Seq(Int)
    PROVE  Len(c) = Len(p) + 1 /\ IsPrefix(p, c) <=> c # <<>> /\ Front(c) = p
<1>1. Len(p) \in Nat /\ Len(c) \in Nat /\ (c = <<>> <=> Len(c) = 0)
  OBVIOUS
<1>2. CASE c = <<>>
  BY <1>1, <1>2
<1>3. CASE c # <<>>
  <2>1. PICK r : r = Front(c)
    OBVIOUS
  <2>2. /\ r \in Seq(Int) /\ Len(r) = Len(c) - 1
        /\ \A i \in 1..(Len(c) - 1) : r[i] = c[i]
    BY <1>3, <2>1, FrontIs
  <2>3. ASSUME Len(c) = Len(p) + 1, Within(p, c)
        PROVE  r = p
    <3>1. p # c
      BY <1>1, <2>3
    <3>2. Within(p, r)
      BY <1>3, <2>1, <2>3, <3>1, WithinFront
    <3>3. Len(r) = Len(p) /\ \A i \in 1..Len(p) : r[i] = p[i]
      BY <1>1, <2>2, <2>3, <3>2, WithinIs
    <3> QED
      BY <2>2, <3>3, SamePath
  <2>4. ASSUME r = p
        PROVE  Len(c) = Len(p) + 1 /\ Within(p, c)
    <3>1. Len(c) = Len(p) + 1 /\ Len(p) <= Len(c) /\ \A i \in 1..Len(p) : c[i] = p[i]
      BY <1>1, <2>2, <2>4
    <3> QED
      BY <3>1, WithinIs
  <2> QED
    BY <1>3, <2>1, <2>3, <2>4 DEF Within
<1> QED
  BY <1>2, <1>3

-----------------------------------------------------------------------------
\* A difference that comes first decides the order of two paths.
Differ(p, q, i) ==
    /\ i \in 1..Len(p) /\ i \in 1..Len(q)
    /\ p[i] < q[i] /\ \A j \in 1..(i - 1) : p[j] = q[j]

\* What the order of paths is: a first name that differs, or a shorter path.
LEMMA LessIs ==
    ASSUME NEW p \in Seq(Int), NEW q \in Seq(Int)
    PROVE  PathLess(p, q) <=> \/ Within(p, q) /\ Len(p) < Len(q)
                              \/ \E i \in Nat : Differ(p, q, i)
<1>0. Len(p) \in Nat /\ Len(q) \in Nat
  OBVIOUS
<1>1. DOMAIN p = 1..Len(p) /\ DOMAIN q = 1..Len(q)
  OBVIOUS
<1>2. IsStrictPrefix(p, q) <=> Within(p, q) /\ Len(p) < Len(q)
  <2>1. Within(p, q) /\ Len(p) = Len(q) => p = q
    BY WithinIs, SamePath
  <2>2. Within(p, q) => Len(p) <= Len(q)
    BY WithinIs
  <2>3. IsStrictPrefix(p, q) <=> Within(p, q) /\ p # q
    BY DEF IsStrictPrefix, Within
  <2>4. Len(p) < Len(q) => p # q
    BY <1>0
  <2>5. Within(p, q) => (p # q <=> Len(p) < Len(q))
    <3>1. CASE Within(p, q)
      <4>1. Len(p) <= Len(q) /\ (Len(p) = Len(q) => p = q)
        BY <2>1, <2>2, <3>1
      <4>2. Len(p) <= Len(q) => Len(p) = Len(q) \/ Len(p) < Len(q)
        BY <1>0
      <4>3. Len(p) = Len(q) => ~(Len(p) < Len(q))
        BY <1>0
      <4> QED
        BY <2>4, <4>1, <4>2, <4>3, Zenon
    <3> QED
      BY <3>1
  <2> QED
    BY <2>3, <2>5
<1>3. (\E i \in DOMAIN p \cap DOMAIN q : p[i] < q[i] /\ \A j \in 1..(i - 1) : p[j] = q[j])
      <=> \E i \in Nat : Differ(p, q, i)
  <2>1. ASSUME NEW i \in DOMAIN p \cap DOMAIN q, p[i] < q[i], \A j \in 1..(i - 1) : p[j] = q[j]
        PROVE  i \in Nat /\ Differ(p, q, i)
    BY <1>1, <2>1 DEF Differ
  <2>2. ASSUME NEW i \in Nat, Differ(p, q, i)
        PROVE  /\ i \in DOMAIN p \cap DOMAIN q
               /\ p[i] < q[i] /\ \A j \in 1..(i - 1) : p[j] = q[j]
    BY <1>1, <2>2 DEF Differ
  <2> QED
    BY <2>1, <2>2
<1> QED
  BY <1>2, <1>3 DEF PathLess

\* The order of paths is strict.
LEMMA LessIsStrict ==
    ASSUME NEW p \in Seq(Int)
    PROVE  ~PathLess(p, p)
<1>1. Len(p) \in Nat /\ \A i \in 1..Len(p) : p[i] \in Int
  OBVIOUS
<1> QED
  BY <1>1, LessIs DEF Differ

\* And transitive.
LEMMA LessThrough ==
    ASSUME NEW p \in Seq(Int), NEW q \in Seq(Int), NEW r \in Seq(Int),
           PathLess(p, q), PathLess(q, r)
    PROVE  PathLess(p, r)
<1>1. /\ Len(p) \in Nat /\ \A i \in 1..Len(p) : p[i] \in Int
      /\ Len(q) \in Nat /\ \A i \in 1..Len(q) : q[i] \in Int
      /\ Len(r) \in Nat /\ \A i \in 1..Len(r) : r[i] \in Int
  OBVIOUS
<1>2. CASE Within(p, q) /\ Len(p) < Len(q) /\ Within(q, r) /\ Len(q) < Len(r)
  BY <1>1, <1>2, WithinThrough, LessIs
<1>3. ASSUME Within(p, q), Len(p) < Len(q), NEW i \in Nat, Differ(q, r, i)
      PROVE  PathLess(p, r)
  <2>1. Len(p) <= Len(q) /\ \A j \in 1..Len(p) : q[j] = p[j]
    BY <1>3, WithinIs
  <2>2. CASE i <= Len(p)
    <3>1. Differ(p, r, i)
      BY <1>1, <1>3, <2>1, <2>2 DEF Differ
    <3> QED
      BY <3>1, LessIs
  <2>3. CASE Len(p) < i
    <3>1. Len(p) <= Len(r) /\ Len(p) < Len(r) /\ \A j \in 1..Len(p) : r[j] = p[j]
      BY <1>1, <1>3, <2>1, <2>3 DEF Differ
    <3> QED
      BY <3>1, WithinIs, LessIs
  <2> QED
    BY <1>1, <2>2, <2>3
<1>4. ASSUME NEW i \in Nat, Differ(p, q, i), Within(q, r), Len(q) < Len(r)
      PROVE  PathLess(p, r)
  <2>1. Len(q) <= Len(r) /\ \A j \in 1..Len(q) : r[j] = q[j]
    BY <1>4, WithinIs
  <2>2. Differ(p, r, i)
    BY <1>1, <1>4, <2>1 DEF Differ
  <2> QED
    BY <2>2, LessIs
<1>5. ASSUME NEW i \in Nat, Differ(p, q, i), NEW k \in Nat, Differ(q, r, k)
      PROVE  PathLess(p, r)
  <2>0. /\ i \in 1..Len(p) /\ i \in 1..Len(q) /\ k \in 1..Len(q) /\ k \in 1..Len(r)
        /\ p[i] < q[i] /\ q[k] < r[k]
        /\ \A j \in 1..(i - 1) : p[j] = q[j]
        /\ \A j \in 1..(k - 1) : q[j] = r[j]
    BY <1>5 DEF Differ
  <2>1. CASE i <= k
    <3>1. i \in 1..Len(r)
      BY <1>1, <2>0, <2>1
    <3>2. p[i] < r[i]
      <4>1. CASE i = k
        BY <1>1, <2>0, <4>1
      <4>2. CASE i < k
        <5>1. q[i] = r[i]
          BY <2>0, <4>2
        <5> QED
          BY <2>0, <5>1
      <4> QED
        BY <2>1, <4>1, <4>2
    <3>3. \A j \in 1..(i - 1) : p[j] = r[j]
      BY <2>0, <2>1
    <3>4. Differ(p, r, i)
      BY <2>0, <3>1, <3>2, <3>3 DEF Differ
    <3> QED
      BY <3>4, LessIs
  <2>2. CASE k < i
    <3>1. Differ(p, r, k)
      BY <1>1, <1>5, <2>2 DEF Differ
    <3> QED
      BY <3>1, LessIs
  <2> QED
    BY <2>1, <2>2
<1> QED
  BY <1>2, <1>3, <1>4, <1>5, LessIs

-----------------------------------------------------------------------------
\* A set of numbers that is not empty has a least one.
LEMMA Least ==
    ASSUME NEW S \in SUBSET Nat, S # {}
    PROVE  \E m \in S : \A k \in S : m <= k
<1> DEFINE R == {pair \in Nat \X Nat : pair[1] < pair[2]}
<1>1. IsWellFoundedOn(R, Nat)
  BY NatLessThanWellFounded DEF OpToRel
<1>2. PICK m \in S : \A k \in S : <<k, m>> \notin R
  <2> HIDE DEF R
  <2> QED
    BY <1>1, WFMin
<1>3. \A k \in S : ~(k < m)
  BY <1>2
<1> QED
  BY <1>3

\* A set that holds 0 and with every number its successor holds them all.
LEMMA Induction ==
    ASSUME NEW G, 0 \in G, \A n \in Nat : n \in G => n + 1 \in G
    PROVE  Nat \subseteq G
<1> SUFFICES ASSUME Nat \ G # {} PROVE FALSE
  OBVIOUS
<1>1. PICK m \in Nat \ G : \A k \in Nat \ G : m <= k
  BY Least
<1>2. m # 0 /\ m - 1 \in Nat /\ ~(m <= m - 1)
  BY <1>1
<1>3. m - 1 \in G
  BY <1>1, <1>2
<1>4. (m - 1) + 1 \in G
  BY <1>2, <1>3
<1> QED
  BY <1>1, <1>4

\* Some of finitely many paths has none before it.
LEMMA FirstPath ==
    ASSUME NEW S \in SUBSET Seq(Int), IsFiniteSet(S), S # {}
    PROVE  \E m \in S : \A f \in S : ~PathLess(f, m)
<1> DEFINE before(p) == {f \in S : PathLess(f, p)}
           counts == {Cardinality(before(p)) : p \in S}
<1>1. ASSUME NEW p \in S
      PROVE  IsFiniteSet(before(p)) /\ Cardinality(before(p)) \in Nat
  BY FS_Subset, FS_CardinalityType
<1>2. counts \in SUBSET Nat /\ counts # {}
  <2> HIDE DEF before
  <2> QED
    BY <1>1
<1>3. PICK least \in counts : \A k \in counts : least <= k
  <2> HIDE DEF counts
  <2> QED
    BY <1>2, Least
<1>4. PICK m \in S : Cardinality(before(m)) = least
  <2> HIDE DEF before
  <2> QED
    BY <1>3
<1>5. ASSUME NEW f \in S, PathLess(f, m)
      PROVE  FALSE
  <2>1. before(f) \in SUBSET before(m)
    BY <1>5, LessThrough
  <2>2. f \in before(m) /\ f \notin before(f)
    BY <1>5, LessIsStrict
  <2>3. Cardinality(before(f)) \in counts
    OBVIOUS
  <2> HIDE DEF before
  <2>4. /\ Cardinality(before(f)) <= Cardinality(before(m))
        /\ Cardinality(before(f)) = Cardinality(before(m)) => before(f) = before(m)
    BY <1>1, <2>1, FS_Subset
  <2>5. /\ Cardinality(before(f)) \in Nat /\ Cardinality(before(m)) \in Nat
        /\ Cardinality(before(m)) <= Cardinality(before(f))
    BY <1>1, <1>3, <1>4, <2>3
  <2>6. before(f) # before(m)
    BY <2>2
  <2> QED
    BY <2>4, <2>5, <2>6
<1> QED
  BY <1>5

-----------------------------------------------------------------------------
(***************************************************************************)
(* What deletions leave of a tree                                          *)
(***************************************************************************)

\* What is left of the paths D when the first n operations have deleted.
Rest(D, q, n) == {p \in D : \A j \in 1..n : ~Within(q[j].source, p)}

\* The paths of a session are names one after another, below directories.
LEMMA KnownAre ==
    ASSUME setup \in Setups
    PROVE  /\ IsFiniteSet(setup.known) /\ setup.known \subseteq Seq(Int)
           /\ setup.dirs \subseteq setup.known
           /\ \A p \in setup.known : p # <<>> => Front(p) \in setup.dirs
BY SessionAssumption

\* What is above a known path is a directory.
LEMMA AboveIsDirectory ==
    ASSUME setup \in Setups, NEW p \in setup.known, NEW s \in Seq(Int), Within(s, p), s # p
    PROVE  IsDirectory(s)
<1> DEFINE G == {n \in Nat : \A r \in setup.known :
                    Len(r) = n /\ Within(s, r) /\ s # r => IsDirectory(s)}
<1>1. ASSUME NEW n \in Nat, n = 0 \/ n - 1 \in G
      PROVE  n \in G
  <2> SUFFICES ASSUME NEW r \in setup.known, Len(r) = n, Within(s, r), s # r
               PROVE  IsDirectory(s)
    OBVIOUS
  <2>1. r \in Seq(Int)
    BY KnownAre
  <2>2. r # <<>>
    <3>1. ASSUME r = <<>> PROVE FALSE
      <4>1. Len(s) \in Nat /\ Len(r) = 0
        BY <3>1
      <4>2. Len(s) <= Len(r)
        BY <2>1, WithinIs
      <4>3. s = <<>>
        BY <4>1, <4>2
      <4> QED
        BY <3>1, <4>3
    <3> QED
      BY <3>1
  <2>3. PICK f : f = Front(r)
    OBVIOUS
  <2>4. f \in setup.dirs /\ f \in setup.known /\ f \in Seq(Int) /\ Len(f) = Len(r) - 1
    BY <2>1, <2>2, <2>3, KnownAre, FrontIs
  <2>5. Within(s, f)
    BY <2>1, <2>2, <2>3, WithinFront
  <2>6. CASE s = f
    BY <2>4, <2>6 DEF IsDirectory
  <2>7. CASE s # f
    <3>1. Len(r) \in Nat /\ Len(r) # 0
      BY <2>1, <2>2
    <3>2. n - 1 \in G /\ Len(f) = n - 1
      BY <1>1, <2>4, <3>1
    <3> QED
      BY <2>4, <2>5, <2>7, <3>2
  <2> QED
    BY <2>6, <2>7
<1>2. 0 \in G
  BY <1>1
<1>3. \A n \in Nat : n \in G => n + 1 \in G
  <2> SUFFICES ASSUME NEW n \in Nat, n \in G PROVE n + 1 \in G
    OBVIOUS
  <2>1. n + 1 \in Nat /\ (n + 1) - 1 = n
    OBVIOUS
  <2> HIDE DEF G
  <2> QED
    BY <1>1, <2>1
<1>4. Nat \subseteq G
  <2> HIDE DEF G
  <2> QED
    BY <1>2, <1>3, Induction
<1>5. Len(p) \in G
  BY <1>4, KnownAre
<1> QED
  BY <1>5

\* One more operation takes its source with what is below it.
LEMMA RestIs ==
    ASSUME NEW D, NEW q, NEW n \in Nat
    PROVE  /\ Rest(D, q, 0) = D
           /\ Rest(D, q, n + 1) = Rest(D, q, n) \ Subtree(Rest(D, q, n), q[n + 1].source)
<1>1. Rest(D, q, 0) = D
  BY DEF Rest
<1>2. ASSUME NEW p
      PROVE  p \in Rest(D, q, n + 1)
             <=> p \in Rest(D, q, n) \ Subtree(Rest(D, q, n), q[n + 1].source)
  <2>1. \A j : j \in 1..(n + 1) <=> j \in 1..n \/ j = n + 1
    OBVIOUS
  <2> QED
    BY <2>1 DEF Rest, Subtree
<1> QED
  BY <1>1, <1>2

\* And leaves of each earlier moment what it leaves at last.
LEMMA RestShrinks ==
    ASSUME NEW D, NEW q, NEW n \in Nat, NEW m \in 0..n
    PROVE  Rest(D, q, n) \subseteq Rest(D, q, m) /\ Rest(D, q, m) \subseteq D
BY DEF Rest

-----------------------------------------------------------------------------
(***************************************************************************)
(* Exact deletions                                                         *)
(***************************************************************************)

\* The j-th operation was a deletion after which no scan was needed: what it
\* removed was shown and counted, its directory is still there, and no file
\* elsewhere shared what it removed.
Exact(D, q, j) ==
    /\ q[j].action = "delete" /\ q[j].source \in Rest(D, q, j - 1) /\ Front(q[j].source) \in disk
    /\ IsDirectory(q[j].source) =>
         \A p \in Rest(D, q, j - 1) : IsDirectory(p) \/ OwnBytes(D, p) # 0
    /\ IsDirectory(q[j].source) \/ OwnBytes(D, q[j].source) = 0 \/ ~q[j].linked

ExactUntil(D, q, i) == \A j \in 1..i : Exact(D, q, j)

\* The tree after the first i operations: a file counts what it did at first, a
\* directory too unless an entry of it has gone, and then what it does now.
Counts(D, q, i, own) ==
    /\ own = [p \in Rest(D, q, i) |-> own[p]]
    /\ \A p \in Rest(D, q, i) :
          /\ own[p] = OwnBytes(D, p) \/ (IsDirectory(p) /\ own[p] = OwnBytes(disk, p))
          /\ (\E j \in 1..i : Front(q[j].source) = p) => own[p] = OwnBytes(disk, p)

Followed(D, q, i, w) ==
    /\ w = [own |-> w.own, changed |-> w.changed, needsScan |-> w.needsScan]
    /\ ~w.changed => w.own = tree.own
    /\ ~w.needsScan => ExactUntil(D, q, i) /\ Counts(D, q, i, w.own)

\* A deletion that is patched keeps the counts.
LEMMA PatchedCounts ==
    ASSUME setup \in Setups, NEW D \in SUBSET setup.known, NEW q, NEW i \in Nat, NEW own,
           Counts(D, q, i, own), q[i + 1].source \in Rest(D, q, i),
           Front(q[i + 1].source) \in disk, NEW x, x = Patched(own, q[i + 1])
    PROVE  Counts(D, q, i + 1, x)
<1>1. PICK R : R = Rest(D, q, i)
  OBVIOUS
<1>2. PICK s : s = q[i + 1].source
  OBVIOUS
<1>3. PICK f : f = Front(s)
  OBVIOUS
<1>4. PICK S : S = R \ Subtree(R, s)
  OBVIOUS
<1>5. Rest(D, q, i + 1) = S
  <2>1. Rest(D, q, i + 1) = Rest(D, q, i) \ Subtree(Rest(D, q, i), q[i + 1].source)
    BY RestIs
  <2> QED
    BY <1>1, <1>2, <1>4, <2>1
<1>6. x = [p \in S |-> IF p = f THEN OwnBytes(disk, f) ELSE own[p]]
  <2>1. own = [p \in R |-> own[p]]
    BY <1>1 DEF Counts
  <2>2. DOMAIN own = R
    BY <2>1
  <2>3. f \in disk
    BY <1>2, <1>3
  <2>4. PICK rest : rest = [p \in S |-> own[p]]
    OBVIOUS
  <2>5. Restrict(own, DOMAIN own \ Subtree(DOMAIN own, s)) = rest
    BY <1>4, <2>2, <2>4 DEF Restrict
  <2>6. x = [rest EXCEPT ![f] = OwnBytes(disk, f)]
    BY <1>2, <1>3, <2>3, <2>5 DEF Patched
  <2> QED
    BY <2>4, <2>6
<1>7. ASSUME NEW p \in S, p = f
      PROVE  IsDirectory(p)
  <2>1. s \in setup.known /\ s \in Seq(Int) /\ p \in Seq(Int)
    BY <1>1, <1>2, <1>4, KnownAre DEF Rest
  <2>2. ~Within(s, p)
    BY <1>4 DEF Subtree
  <2>3. s # <<>>
    <3>1. Len(p) \in Nat
      BY <2>1
    <3>2. <<>> \in Seq(Int) /\ Len(<<>>) = 0
      OBVIOUS
    <3>3. Within(<<>>, p)
      <4>1. Len(<<>>) <= Len(p) /\ \A j \in 1..Len(<<>>) : p[j] = <<>>[j]
        BY <3>1
      <4> QED
        BY <2>1, <3>2, <4>1, WithinIs
    <3> QED
      BY <2>2, <3>3
  <2> QED
    BY <1>3, <1>7, <2>1, <2>3, KnownAre DEF IsDirectory
<1>8. ASSUME NEW p \in S
      PROVE  /\ x[p] = OwnBytes(D, p) \/ (IsDirectory(p) /\ x[p] = OwnBytes(disk, p))
             /\ (\E j \in 1..(i + 1) : Front(q[j].source) = p) => x[p] = OwnBytes(disk, p)
  <2>1. CASE p = f
    BY <1>6, <1>7, <2>1
  <2>2. CASE p # f
    <3>1. x[p] = own[p]
      BY <1>6, <2>2
    <3>2. p \in R
      BY <1>4
    <3>3. /\ own[p] = OwnBytes(D, p) \/ (IsDirectory(p) /\ own[p] = OwnBytes(disk, p))
          /\ (\E j \in 1..i : Front(q[j].source) = p) => own[p] = OwnBytes(disk, p)
      BY <1>1, <3>2 DEF Counts
    <3>4. ASSUME NEW j \in 1..(i + 1), Front(q[j].source) = p
          PROVE  j \in 1..i
      <4>1. j # i + 1
        BY <1>2, <1>3, <2>2, <3>4
      <4> QED
        BY <4>1
    <3> QED
      BY <3>1, <3>3, <3>4
  <2> QED
    BY <2>1, <2>2
<1>9. x = [p \in S |-> x[p]]
  BY <1>6
<1> QED
  BY <1>5, <1>8, <1>9 DEF Counts

\* One result that was completed follows the operation it is of.
LEMMA FollowStep ==
    ASSUME setup \in Setups, NEW D \in SUBSET setup.known, NEW q, NEW i \in Nat, NEW w,
           Followed(D, q, i, w), NEW r, r.status = "ok", OpOf(r.id) = q[i + 1]
    PROVE  Followed(D, q, i + 1, Reconcile(w, r))
<1>1. PICK op : op = q[i + 1]
  OBVIOUS
<1>2. PICK x : x = Reconcile(w, r)
  OBVIOUS
<1>3. /\ w = [own |-> w.own, changed |-> w.changed, needsScan |-> w.needsScan]
      /\ ~w.changed => w.own = tree.own
      /\ ~w.needsScan => ExactUntil(D, q, i) /\ Counts(D, q, i, w.own)
  BY DEF Followed
<1>4. CASE op.action # "delete" \/ op.source \notin DOMAIN w.own
  <2>1. x = [w EXCEPT !.needsScan = TRUE]
    BY <1>1, <1>2, <1>4 DEF Reconcile
  <2>2. x.own = w.own /\ x.changed = w.changed /\ x.needsScan = TRUE
        /\ x = [own |-> x.own, changed |-> x.changed, needsScan |-> x.needsScan]
    BY <1>3, <2>1
  <2>3. Followed(D, q, i + 1, x)
    BY <1>3, <2>2 DEF Followed
  <2> QED
    BY <1>2, <2>3
<1>5. CASE op.action = "delete" /\ op.source \in DOMAIN w.own
  <2>1. PICK own : own = Patched(w.own, op)
    OBVIOUS
  <2>2. PICK n : n = (w.needsScan \/ NeedsReconciliation(w.own, op) \/ Front(op.source) \notin disk)
    OBVIOUS
  <2>3. x = [own |-> own, changed |-> TRUE, needsScan |-> n]
    BY <1>1, <1>2, <1>5, <2>1, <2>2 DEF Reconcile
  <2>4. x.own = own /\ x.changed = TRUE /\ x.needsScan = n
        /\ x = [own |-> x.own, changed |-> x.changed, needsScan |-> x.needsScan]
    BY <2>3
  <2>5. ASSUME ~n
        PROVE  ExactUntil(D, q, i + 1) /\ Counts(D, q, i + 1, own)
    <3>1. /\ ~w.needsScan /\ ~NeedsReconciliation(w.own, op) /\ Front(op.source) \in disk
      BY <2>2, <2>5
    <3>2. ExactUntil(D, q, i) /\ Counts(D, q, i, w.own)
      BY <1>3, <3>1
    <3>3. op.source \in Rest(D, q, i)
      <4>1. w.own = [p \in Rest(D, q, i) |-> w.own[p]]
        BY <3>2 DEF Counts
      <4>2. DOMAIN w.own = Rest(D, q, i)
        BY <4>1
      <4> QED
        BY <1>5, <4>2
    <3>4. Counts(D, q, i + 1, own)
      BY <1>1, <2>1, <3>1, <3>2, <3>3, PatchedCounts
    <3>5. \A p \in Rest(D, q, i) : ~IsDirectory(p) => w.own[p] = OwnBytes(D, p)
      BY <3>2 DEF Counts
    <3>6. IsDirectory(op.source) => \A p \in Rest(D, q, i) : IsDirectory(p) \/ OwnBytes(D, p) # 0
      <4>1. w.own = [p \in Rest(D, q, i) |-> w.own[p]]
        BY <3>2 DEF Counts
      <4>2. DOMAIN w.own = Rest(D, q, i)
        BY <4>1
      <4>3. ASSUME IsDirectory(op.source), NEW p \in Rest(D, q, i), ~IsDirectory(p)
            PROVE  w.own[p] # 0
        BY <3>1, <4>2, <4>3 DEF NeedsReconciliation, IsHardlink
      <4> QED
        BY <3>5, <4>3
    <3>7. IsDirectory(op.source) \/ OwnBytes(D, op.source) = 0 \/ ~op.linked
      <4>1. ASSUME ~IsDirectory(op.source), op.linked
            PROVE  w.own[op.source] = 0
        BY <3>1, <4>1 DEF NeedsReconciliation, IsHardlink
      <4> QED
        BY <3>3, <3>5, <4>1
    <3>8. Exact(D, q, i + 1)
      <4>1. (i + 1) - 1 = i
        OBVIOUS
      <4> QED
        BY <1>1, <1>5, <3>1, <3>3, <3>6, <3>7, <4>1 DEF Exact
    <3>9. ASSUME NEW j \in 1..(i + 1)
          PROVE  Exact(D, q, j)
      <4>1. j \in 1..i \/ j = i + 1
        OBVIOUS
      <4> QED
        BY <3>2, <3>8, <4>1 DEF ExactUntil
    <3> QED
      BY <3>4, <3>9 DEF ExactUntil
  <2>6. Followed(D, q, i + 1, x)
    BY <2>4, <2>5 DEF Followed
  <2> QED
    BY <1>2, <2>6
<1> QED
  BY <1>4, <1>5

-----------------------------------------------------------------------------
\* The results taken one after another.
Begun == [own |-> tree.own, changed |-> FALSE, needsScan |-> ~tree.complete]
After(g, i) == IF i = 0 THEN Begun ELSE Reconcile(g[i - 1], job.results[i])
IsAfter(g) == g = [i \in 0..Len(job.results) |-> After(g, i)]

\* There is a function that takes them so.
LEMMA AfterExists ==
    ASSUME Len(job.results) \in Nat
    PROVE  \E g : IsAfter(g)
<1> DEFINE D == 0..Len(job.results)
           Fits(k, m) == k = [i \in D |-> k[i]] /\ \A i \in D : i <= m => k[i] = After(k, i)
           G == {m \in Nat : \E k : Fits(k, m)}
<1>1. 0 \in G
  <2>1. PICK k : k = [i \in D |-> Begun]
    OBVIOUS
  <2>2. \A i \in D : i <= 0 => i = 0
    OBVIOUS
  <2>3. Fits(k, 0)
    BY <2>1, <2>2 DEF After
  <2> QED
    BY <2>3
<1>2. ASSUME NEW m \in Nat, m \in G
      PROVE  m + 1 \in G
  <2>1. PICK k : Fits(k, m)
    BY <1>2
  <2>2. PICK h : h = [i \in D |-> IF i <= m THEN k[i] ELSE After(k, i)]
    OBVIOUS
  <2>3. ASSUME NEW i \in D, i <= m + 1
        PROVE  h[i] = After(h, i)
    <3>1. h[i] = After(k, i)
      BY <2>1, <2>2
    <3>2. i # 0 => h[i - 1] = k[i - 1]
      <4>1. i # 0 => i - 1 \in D /\ i - 1 <= m
        BY <2>3
      <4> QED
        BY <2>2, <4>1
    <3> QED
      BY <3>1, <3>2 DEF After
  <2>4. h = [i \in D |-> h[i]]
    BY <2>2
  <2>5. Fits(h, m + 1)
    BY <2>3, <2>4
  <2> QED
    BY <2>5
<1>3. Nat \subseteq G
  <2> HIDE DEF G
  <2> QED
    BY <1>1, <1>2, Induction
<1>4. PICK k : Fits(k, Len(job.results))
  BY <1>3
<1>5. \A i \in D : k[i] = After(k, i)
  BY <1>4
<1>6. k = [i \in D |-> k[i]]
  BY <1>4
<1>7. k = [i \in D |-> After(k, i)]
  BY <1>5, <1>6
<1> QED
  BY <1>7 DEF IsAfter

\* What is reconciled is what the last result made of it.
LEMMA ReconciledIs ==
    ASSUME Len(job.results) \in Nat
    PROVE  \E g : IsAfter(g) /\ Reconciled = g[Len(job.results)]
<1> DEFINE it == CHOOSE g : IsAfter(g)
<1>1. IsAfter(it)
  BY AfterExists
<1>2. Reconciled = it[Len(job.results)]
  BY DEF Reconciled, IsAfter, After, Begun
<1> QED
  BY <1>1, <1>2

\* The results of a plan that was finished, each the operation it is of.
Finished(q, n) ==
    /\ n \in Nat /\ Len(job.results) = n
    /\ \A i \in 1..n : job.results[i].status = "ok" /\ OpOf(job.results[i].id) = q[i]

\* What is reconciled in the end follows all of them.
LEMMA ReconciledFollows ==
    ASSUME setup \in Setups, tree.own = Measure(DOMAIN tree.own),
           DOMAIN tree.own \subseteq setup.known, NEW q, NEW n, Finished(q, n)
    PROVE  Followed(DOMAIN tree.own, q, n, Reconciled)
<1>1. PICK D : D = DOMAIN tree.own
  OBVIOUS
<1>2. n \in Nat /\ Len(job.results) = n
      /\ \A i \in 1..n : job.results[i].status = "ok" /\ OpOf(job.results[i].id) = q[i]
  BY DEF Finished
<1>3. PICK g : IsAfter(g) /\ Reconciled = g[n]
  BY <1>2, ReconciledIs
<1>4. \A i \in 0..n : g[i] = After(g, i)
  BY <1>2, <1>3 DEF IsAfter
<1> DEFINE G == {m \in Nat : m <= n => Followed(D, q, m, g[m])}
<1>5. 0 \in G
  <2>1. g[0] = Begun
    BY <1>2, <1>4 DEF After
  <2>2. /\ g[0].own = tree.own /\ g[0].needsScan = (~tree.complete)
        /\ g[0] = [own |-> g[0].own, changed |-> g[0].changed, needsScan |-> g[0].needsScan]
    BY <2>1 DEF Begun
  <2>3. ExactUntil(D, q, 0)
    BY DEF ExactUntil
  <2>4. Counts(D, q, 0, tree.own)
    <3>1. Rest(D, q, 0) = D
      BY DEF Rest
    <3>2. tree.own = [p \in D |-> tree.own[p]] /\ \A p \in D : tree.own[p] = OwnBytes(D, p)
      BY <1>1 DEF Measure
    <3> QED
      BY <3>1, <3>2 DEF Counts
  <2>5. Followed(D, q, 0, g[0])
    BY <2>2, <2>3, <2>4 DEF Followed
  <2> QED
    BY <2>5
<1>6. ASSUME NEW m \in Nat, m \in G
      PROVE  m + 1 \in G
  <2> SUFFICES ASSUME m + 1 <= n PROVE Followed(D, q, m + 1, g[m + 1])
    OBVIOUS
  <2>1. Followed(D, q, m, g[m])
    BY <1>2, <1>6
  <2>2. g[m + 1] = Reconcile(g[m], job.results[m + 1])
    <3>1. m + 1 \in 0..n /\ m + 1 # 0 /\ (m + 1) - 1 = m
      BY <1>2
    <3> QED
      BY <1>4, <3>1 DEF After
  <2>3. job.results[m + 1].status = "ok" /\ OpOf(job.results[m + 1].id) = q[m + 1]
    BY <1>2
  <2> QED
    BY <1>1, <2>1, <2>2, <2>3, FollowStep
<1>7. Nat \subseteq G
  <2> HIDE DEF G
  <2> QED
    BY <1>5, <1>6, Induction
<1>8. Followed(D, q, n, g[n])
  BY <1>2, <1>7
<1> QED
  BY <1>1, <1>3, <1>8

-----------------------------------------------------------------------------
(***************************************************************************)
(* What is left is measured                                                *)
(***************************************************************************)

\* The file that the j-th operation removed had no other name then.
Unlinked(D, q, j) ==
    ~IsDirectory(q[j].source) /\ ~q[j].linked =>
        \A p \in Rest(D, q, j - 1) :
            ~IsDirectory(p) /\ setup.file[p] = setup.file[q[j].source] => p = q[j].source

\* A directory from which nothing was removed has the entries it had.
LEMMA SameEntries ==
    ASSUME setup \in Setups, NEW D \in SUBSET setup.known, NEW q, NEW n \in Nat,
           \A j \in 1..n : q[j].source \in setup.known,
           NEW p \in Rest(D, q, n), \A j \in 1..n : Front(q[j].source) # p
    PROVE  ChildrenIn(Rest(D, q, n), p) = ChildrenIn(D, p)
<1>1. p \in setup.known /\ p \in Seq(Int)
  BY KnownAre DEF Rest
<1>2. ASSUME NEW c \in ChildrenIn(D, p), c \notin Rest(D, q, n)
      PROVE  FALSE
  <2>1. c \in Seq(Int) /\ c \in D /\ c # <<>> /\ Front(c) = p
    <3>1. c \in Seq(Int) /\ c \in D /\ Len(c) = Len(p) + 1 /\ IsPrefix(p, c)
      BY <1>2, KnownAre DEF ChildrenIn
    <3> QED
      BY <1>1, <3>1, ChildIs
  <2>2. PICK j \in 1..n : Within(q[j].source, c)
    BY <1>2, <2>1 DEF Rest
  <2>3. PICK s : s = q[j].source
    OBVIOUS
  <2>4. s \in Seq(Int) /\ Front(s) # p
    BY <2>3, KnownAre
  <2>5. ~Within(s, p)
    BY <2>3 DEF Rest
  <2>6. s = c \/ Within(s, Front(c))
    BY <2>1, <2>2, <2>3, <2>4, WithinFront
  <2> QED
    BY <2>1, <2>4, <2>5, <2>6
<1>3. ChildrenIn(Rest(D, q, n), p) \subseteq ChildrenIn(D, p)
  BY DEF ChildrenIn, Rest
<1>4. ChildrenIn(D, p) \subseteq ChildrenIn(Rest(D, q, n), p)
  BY <1>2 DEF ChildrenIn
<1> QED
  BY <1>3, <1>4

\* The names of a file are those of each of them.
LEMMA NamesShared ==
    ASSUME NEW D, NEW p, NEW f \in SameFile(D, p)
    PROVE  SameFile(D, f) = SameFile(D, p)
BY DEF SameFile

\* A name that counts nothing has another before it that counts.
LEMMA OwnerIs ==
    ASSUME setup \in Setups, NEW D \in SUBSET setup.known, NEW p \in D, ~IsDirectory(p),
           OwnBytes(D, p) = 0
    PROVE  \E m \in SameFile(D, p) : PathLess(m, p) /\ OwnBytes(D, m) # 0
<1>1. PICK S : S = {f \in SameFile(D, p) : PathLess(f, p)}
  OBVIOUS
<1>2. S \in SUBSET Seq(Int) /\ S \in SUBSET setup.known
  BY <1>1, KnownAre DEF SameFile
<1>3. IsFiniteSet(S)
  BY <1>2, KnownAre, FS_Subset
<1>4. S # {}
  BY <1>1 DEF OwnBytes
<1>5. PICK m \in S : \A f \in S : ~PathLess(f, m)
  BY <1>2, <1>3, <1>4, FirstPath
<1>6. m \in SameFile(D, p) /\ PathLess(m, p) /\ m \in Seq(Int) /\ p \in Seq(Int)
  BY <1>1, <1>2, KnownAre
<1>7. SameFile(D, m) = SameFile(D, p) /\ ~IsDirectory(m)
  BY <1>6, NamesShared DEF SameFile, IsDirectory
<1>8. ASSUME NEW f \in SameFile(D, m), PathLess(f, m)
      PROVE  FALSE
  <2>1. f \in Seq(Int) /\ f \in SameFile(D, p)
    BY <1>7, KnownAre DEF SameFile
  <2>2. PathLess(f, p)
    BY <1>6, <1>8, <2>1, LessThrough
  <2>3. f \in S
    BY <1>1, <2>1, <2>2
  <2> QED
    BY <1>5, <1>8, <2>3
<1>9. OwnBytes(D, m) = 10
  BY <1>7, <1>8 DEF OwnBytes
<1> QED
  BY <1>6, <1>9

\* A file that counts nothing keeps a name before it when the deletions are
\* exact.
LEMMA OwnerStays ==
    ASSUME setup \in Setups, NEW D \in SUBSET setup.known, NEW q, NEW n \in Nat,
           \A j \in 1..n : q[j].source \in setup.known /\ Unlinked(D, q, j),
           ExactUntil(D, q, n),
           NEW p \in Rest(D, q, n), ~IsDirectory(p), OwnBytes(D, p) = 0
    PROVE  \E m \in SameFile(Rest(D, q, n), p) : PathLess(m, p)
<1>0. p \in D
  BY DEF Rest
<1>1. PICK m \in SameFile(D, p) : PathLess(m, p) /\ OwnBytes(D, m) # 0
  BY <1>0, OwnerIs
<1>2. m \in D /\ ~IsDirectory(m) /\ setup.file[m] = setup.file[p] /\ m \in setup.known
      /\ m \in Seq(Int) /\ p \in Seq(Int)
  BY <1>0, KnownAre DEF SameFile, IsDirectory
<1>3. m # p
  BY <1>1, <1>2, LessIsStrict
<1>4. ASSUME m \notin Rest(D, q, n)
      PROVE  FALSE
  <2>1. PICK J : J = {j \in 1..n : Within(q[j].source, m)}
    OBVIOUS
  <2>2. J # {} /\ J \in SUBSET Nat
    BY <1>2, <1>4, <2>1 DEF Rest
  <2>3. PICK j \in J : \A k \in J : j <= k
    BY <2>2, Least
  <2>4. j \in 1..n /\ Within(q[j].source, m)
    BY <2>1
  <2>5. m \in Rest(D, q, j - 1) /\ p \in Rest(D, q, j - 1)
    <3>1. ASSUME NEW k \in 1..(j - 1)
          PROVE  ~Within(q[k].source, m) /\ ~Within(q[k].source, p)
      <4>1. k \in 1..n /\ ~(j <= k)
        BY <2>4, <3>1
      <4> QED
        BY <2>1, <2>3, <4>1 DEF Rest
    <3> QED
      BY <1>0, <1>2, <3>1 DEF Rest
  <2>6. PICK s : s = q[j].source
    OBVIOUS
  <2>7. s \in setup.known /\ s \in Seq(Int) /\ Within(s, m) /\ Exact(D, q, j) /\ Unlinked(D, q, j)
    BY <2>4, <2>6, KnownAre DEF ExactUntil
  <2>8. CASE IsDirectory(s)
    BY <2>5, <2>6, <2>7, <2>8 DEF Exact
  <2>9. CASE ~IsDirectory(s)
    <3>1. s = m
      BY <1>2, <2>7, <2>9, AboveIsDirectory
    <3>2. ~q[j].linked
      BY <1>1, <2>6, <2>7, <2>9, <3>1 DEF Exact
    <3>3. p = s
      BY <1>2, <2>5, <2>6, <2>7, <2>9, <3>1, <3>2 DEF Unlinked
    <3> QED
      BY <1>3, <3>1, <3>3
  <2> QED
    BY <2>8, <2>9
<1>5. m \in SameFile(Rest(D, q, n), p)
  BY <1>2, <1>4 DEF SameFile, IsDirectory
<1> QED
  BY <1>1, <1>5

\* When no operation needed a scan, the tree is the one a scan would measure.
LEMMA CountsMeasure ==
    ASSUME setup \in Setups, NEW D \in SUBSET setup.known, NEW q, NEW n \in Nat,
           \A j \in 1..n : q[j].source \in setup.known /\ Unlinked(D, q, j),
           ExactUntil(D, q, n), disk = Rest(D, q, n), NEW own, Counts(D, q, n, own)
    PROVE  own = Measure(disk)
<1>1. ASSUME NEW p \in disk
      PROVE  own[p] = OwnBytes(disk, p)
  <2>1. /\ own[p] = OwnBytes(D, p) \/ (IsDirectory(p) /\ own[p] = OwnBytes(disk, p))
        /\ (\E j \in 1..n : Front(q[j].source) = p) => own[p] = OwnBytes(disk, p)
    BY DEF Counts
  <2>2. CASE IsDirectory(p) /\ \A j \in 1..n : Front(q[j].source) # p
    <3>1. ChildrenIn(disk, p) = ChildrenIn(D, p)
      BY <2>2, SameEntries
    <3>2. OwnBytes(disk, p) = OwnBytes(D, p)
      BY <2>2, <3>1 DEF OwnBytes
    <3> QED
      BY <2>1, <3>2
  <2>3. CASE ~IsDirectory(p)
    <3>1. own[p] = OwnBytes(D, p)
      BY <2>1, <2>3
    <3>2. CASE OwnBytes(D, p) = 0
      <4>1. \E m \in SameFile(disk, p) : PathLess(m, p)
        BY <2>3, <3>2, OwnerStays
      <4> QED
        BY <2>3, <3>1, <3>2, <4>1 DEF OwnBytes
    <3>3. CASE OwnBytes(D, p) # 0
      <4>1. ~\E f \in SameFile(D, p) : PathLess(f, p)
        BY <2>3, <3>3 DEF OwnBytes
      <4>2. SameFile(disk, p) \subseteq SameFile(D, p)
        BY DEF SameFile, Rest
      <4> QED
        BY <2>3, <3>1, <4>1, <4>2 DEF OwnBytes
    <3> QED
      BY <3>2, <3>3
  <2> QED
    BY <2>1, <2>2, <2>3
<1>2. own = [p \in disk |-> own[p]]
  BY DEF Counts
<1>3. own = [p \in disk |-> OwnBytes(disk, p)]
  BY <1>1, <1>2
<1> QED
  BY <1>3 DEF Measure

-----------------------------------------------------------------------------
(***************************************************************************)
(* What settles is the disk's                                              *)
(***************************************************************************)

\* What the entries D add to the total, in the session s.
SizeAmong(s, D, p) ==
    IF p \in s.dirs THEN 1 + Cardinality(ChildrenIn(D, p))
    ELSE IF \E f \in D \ s.dirs : s.file[f] = s.file[p] /\ PathLess(f, p) THEN 0 ELSE 10
Sizes(s, D) == [p \in D |-> SizeAmong(s, D, p)]

\* These are what a scan measures.
LEMMA SizesAre ==
    ASSUME NEW D
    PROVE  Measure(D) = Sizes(setup, D) /\ DOMAIN Measure(D) = D
<1>1. ASSUME NEW p \in D
      PROVE  OwnBytes(D, p) = SizeAmong(setup, D, p)
  <2>1. (\E f \in SameFile(D, p) : PathLess(f, p))
        <=> \E f \in D \ setup.dirs : setup.file[f] = setup.file[p] /\ PathLess(f, p)
    BY DEF SameFile
  <2> QED
    BY <2>1 DEF OwnBytes, SizeAmong, IsDirectory
<1> QED
  BY <1>1 DEF Measure, Sizes

\* An operation as it is staged.
Operational(s, op) ==
    /\ op.source \in s.known /\ op.action \in {"delete", "mkdir", "copy", "move"}
    /\ op.action \in {"copy", "move"} => op.dest \in s.known

Inside ==
    /\ tree = [own |-> tree.own, complete |-> tree.complete]
    /\ disk \subseteq setup.known
    /\ \A op \in ToSet(queue) : Operational(setup, op)

\* No two operations have the same id, now or when what is asked is staged.
UniqueIds(q) == \A i, j \in DOMAIN q : q[i].id = q[j].id => i = j
Budget == DOMAIN left = Bounded /\ left.stage \in Nat
Asked == {ask \in pending : ask.kind = "stage"}
Numbered ==
    /\ Budget /\ UniqueIds(queue)
    /\ \A ask \in Asked : ask.id \in Nat /\ ask.id > left.stage
    /\ \A a, b \in Asked : a.id = b.id => a = b
    /\ \A op \in ToSet(queue) :
          /\ op.id[1] \in Nat /\ op.id[1] > left.stage
          /\ \A ask \in Asked : ask.id # op.id[1]

\* A shell may be changing the disk, unseen.
ShellOut == \E ask \in pending : ask.kind = "shell"

\* The scan that is shown is one scan, of a generation not accepted yet, and
\* finds the disk as it is unless a shell is out.
CurrentScans ==
    \A s \in scans : s.generation = scan.generation =>
        /\ scan.on /\ latest < s.generation
        /\ \A t \in scans : t.generation = s.generation => t = s
        /\ ~ShellOut => s.always = disk /\ s.ever = disk

\* What is applied is the queue; every result but the last was a success.
Results == Len(job.results)
Carrying ==
    job.kind = "apply" =>
        /\ queue = job.plan /\ IsQueue(job.results) /\ Results <= Len(job.plan)
        /\ \A i \in 1..Results : job.results[i].id = job.plan[i].id
        /\ \A i \in 1..(Results - 1) : job.results[i].status = "ok"

\* The tree on the screen is complete and no scan is under way or owed.
Steady == tree.complete /\ ~scan.on /\ ~history.unsettled /\ ~scan.restart
Reliable == Steady /\ ~history.relinked /\ ~ShellOut

\* It is the disk's, but while a plan is applied.
Shown == Reliable /\ job.kind # "apply" => tree.own = Sizes(setup, disk)

\* Meanwhile it is the disk's as it was, if only deletions were done.
OnlyDeleted ==
    /\ setup.auditPath = NoPath
    /\ \A i \in 1..Results : job.results[i].status = "ok" /\ job.plan[i].action = "delete"
AloneIn(s, D, op) ==
    op.source \notin s.dirs /\ ~op.linked =>
        \A p \in D : p \notin s.dirs /\ s.file[p] = s.file[op.source] => p = op.source
During ==
    Reliable /\ job.kind = "apply" /\ OnlyDeleted =>
        /\ tree.own = Sizes(setup, DOMAIN tree.own) /\ DOMAIN tree.own \subseteq setup.known
        /\ disk = Rest(DOMAIN tree.own, job.plan, Results)
        /\ \A i \in 1..Results :
              AloneIn(setup, Rest(DOMAIN tree.own, job.plan, i - 1), job.plan[i])

\* What is steady is saved, or being saved, or a save has failed.
Written ==
    /\ \A v, w \in saves : v.generation = w.generation => v = w
    /\ \A v \in saves : v.generation # cache.generation
    /\ setup.store = "writable" /\ Steady =>
          \/ \E v \in saves : v.generation = latest /\ v.own = tree.own
          \/ cache.generation = latest /\ cache.own = tree.own
          \/ cache.failed /\ \A v \in saves : ~v.writing /\ v.generation < latest

Truthful == CurrentScans /\ Carrying /\ Shown /\ During /\ Written
Settling == Inside /\ Numbered /\ Truthful
Known == Screens /\ ScansKnown /\ Attended /\ ~Late /\ CacheInv /\ Reviewing

-----------------------------------------------------------------------------
\* Nothing has been staged or shown when a session begins.
LEMMA BeginsSettling == SessionInit => Settling
<1> SUFFICES ASSUME SessionInit PROVE Settling
  OBVIOUS
<1>0. setup \in Setups /\ queue = <<>> /\ pending = {} /\ scan.on = TRUE /\ job = NoJob
      /\ saves = {} /\ latest = 0 /\ scan.generation = 1
  BY DEF SessionInit
<1>1. ToSet(queue) = {} /\ DOMAIN queue = {} /\ Asked = {} /\ ~ShellOut
  BY <1>0 DEF ToSet, Asked, ShellOut
<1>2. Inside
  <2>1. tree = [own |-> tree.own, complete |-> tree.complete]
    BY DEF SessionInit
  <2>2. disk \subseteq setup.known
    BY <1>0, SessionAssumption DEF SessionInit
  <2> QED
    BY <1>1, <2>1, <2>2 DEF Inside
<1>3. Numbered
  <2>1. left = setup.may
    BY DEF SessionInit
  <2>2. DOMAIN setup.may = Bounded /\ \A k \in Bounded : setup.may[k] \in Nat
    BY <1>0, SessionAssumption
  <2>3. DOMAIN left = Bounded
    BY <2>1, <2>2
  <2>4. left.stage \in Nat
    BY <2>1, <2>2 DEF Bounded
  <2> QED
    BY <1>1, <2>3, <2>4 DEF Numbered, Budget, UniqueIds
<1>4. CurrentScans
  <2>1. scans = {[generation |-> 1, canceled |-> FALSE, always |-> disk, ever |-> disk]}
    BY DEF SessionInit
  <2> QED
    BY <1>0, <2>1 DEF CurrentScans
<1>5. job.kind = "none"
  BY <1>0 DEF NoJob
<1>6. Carrying /\ Shown /\ During /\ Written
  BY <1>0, <1>5 DEF Carrying, Shown, During, Written, Reliable, Steady
<1> QED
  BY <1>2, <1>3, <1>4, <1>6 DEF Settling, Truthful

\* A scan is over that is not taken up again.
Over == scan.on /\ ~scan'.on /\ ~scan'.restart

\* What is remembered of a step.
LEMMA Remembered ==
    ASSUME Remember
    PROVE  /\ Over => (history'.unsettled <=> latest' = latest)
           /\ ~Over => (history'.unsettled <=> history.unsettled)
           /\ ~Over => (history'.relinked <=> history.relinked \/ LinkedSince)
<1>1. history'.unsettled = IF Over THEN latest' = latest ELSE history.unsettled
  BY DEF Remember, Over
<1>2. history'.relinked = ((history.relinked \/ LinkedSince) /\ ~(Over /\ latest' # latest))
  BY DEF Remember, Over
<1> QED
  BY <1>1, <1>2

\* The work goes on as it was.
SameWork ==
    /\ job'.kind = "apply" <=> job.kind = "apply"
    /\ job.kind = "apply" => job'.plan = job.plan /\ job'.results = job.results /\ queue' = queue
SameShells == ShellOut' <=> ShellOut

\* Where only the scan's record matters: no new result, no scan that ends.
LEMMA NothingRelinked ==
    ASSUME Remember, ~Over, SameWork
    PROVE  (history'.unsettled <=> history.unsettled) /\ (history'.relinked <=> history.relinked)
BY Remembered DEF LinkedSince, SameWork

\* Keys and answers that leave the scans, the disk and the cache alone.
LEMMA QuietKeeps ==
    ASSUME Remember, UNCHANGED <<setup, disk, tree, scan, latest, saves, cache>>,
           scans' \subseteq scans, SameWork, SameShells, Truthful
    PROVE  Truthful'
<1>1. ~Over
  BY DEF Over
<1>2. (history'.unsettled <=> history.unsettled) /\ (history'.relinked <=> history.relinked)
  BY <1>1, NothingRelinked
<1>3. (Steady' <=> Steady) /\ (Reliable' <=> Reliable)
  BY <1>2 DEF Steady, Reliable, SameShells
<1>4. CurrentScans'
  BY DEF Truthful, CurrentScans, SameShells
<1>5. Carrying'
  BY DEF Truthful, Carrying, SameWork, Results
<1>6. Shown'
  BY <1>3 DEF Truthful, Shown, SameWork
<1>7. During'
  BY <1>3 DEF Truthful, During, SameWork, Results, OnlyDeleted
<1>8. Written'
  BY <1>3 DEF Truthful, Written
<1> QED
  BY <1>4, <1>5, <1>6, <1>7, <1>8 DEF Truthful

\* Spending something else leaves the number of stagings to come.
LEMMA SpendElse ==
    ASSUME Budget, NEW k \in Bounded \ {"stage"}, Spend(k)
    PROVE  Budget' /\ left'.stage = left.stage
<1>1. DOMAIN left' = DOMAIN left
  BY DEF Spend
<1>2. "stage" \in DOMAIN left
  BY DEF Budget, Bounded
<1>3. left'["stage"] = left["stage"]
  BY <1>2 DEF Spend
<1> QED
  BY <1>1, <1>3 DEF Budget

\* Pressing a key that stages takes one of them.
LEMMA SpendStage ==
    ASSUME Budget, Spend("stage")
    PROVE  Budget' /\ left'.stage = left.stage - 1
<1>1. DOMAIN left' = DOMAIN left
  BY DEF Spend
<1>2. "stage" \in DOMAIN left
  BY DEF Budget, Bounded
<1>3. left'["stage"] = left["stage"] - 1 /\ left["stage"] > 0
  BY <1>2 DEF Spend
<1>4. left'.stage \in Nat
  BY <1>3 DEF Budget
<1> QED
  BY <1>1, <1>3, <1>4 DEF Budget

-----------------------------------------------------------------------------
\* A queue of which some is left, in whatever order.
Fewer(r, q) == ToSet(r) \subseteq ToSet(q) /\ (UniqueIds(q) => UniqueIds(r))

\* What stays of a queue stays with its ids.
LEMMA FewerPositions ==
    ASSUME NEW q, IsQueue(q), NEW keep \in SUBSET DOMAIN q
    PROVE  Fewer(AtPositions(q, keep), q)
<1>1. ToSet(AtPositions(q, keep)) \subseteq ToSet(q) /\ IsFiniteSet(keep)
  BY PositionsLeft
<1>2. PICK n : n = Cardinality(keep)
  OBVIOUS
<1>3. keep \in SUBSET Nat
  <2>1. Len(q) \in Nat /\ DOMAIN q = 1..Len(q)
    BY QueueLength
  <2> QED
    BY <2>1
<1>4. ASSUME NEW k \in 1..n
      PROVE  Nth(keep, k) \in DOMAIN q /\ Cardinality({j \in keep : j < Nth(keep, k)}) = k - 1
  <2>1. k \in 1..Cardinality(keep)
    BY <1>2
  <2>2. Nth(keep, k) \in keep /\ Cardinality({j \in keep : j < Nth(keep, k)}) = k - 1
    BY <1>1, <1>3, <2>1, NthIs
  <2> QED
    BY <2>2
<1>5. PICK r : r = [k \in 1..n |-> q[Nth(keep, k)]]
  OBVIOUS
<1>6. ASSUME UniqueIds(q), NEW a \in 1..n, NEW b \in 1..n, r[a].id = r[b].id
      PROVE  a = b
  <2>1. PICK i : i = Nth(keep, a)
    OBVIOUS
  <2>2. PICK j : j = Nth(keep, b)
    OBVIOUS
  <2>3. i \in DOMAIN q /\ j \in DOMAIN q /\ q[i].id = q[j].id
    BY <1>4, <1>5, <1>6, <2>1, <2>2
  <2>4. i = j
    BY <1>6, <2>3 DEF UniqueIds
  <2>5. Cardinality({x \in keep : x < i}) = a - 1 /\ Cardinality({x \in keep : x < j}) = b - 1
    BY <1>4, <2>1, <2>2
  <2>6. a - 1 = b - 1
    BY <2>4, <2>5
  <2> QED
    BY <2>6
<1>7. UniqueIds(q) => UniqueIds(r)
  <2>1. DOMAIN r = 1..n
    BY <1>5
  <2> QED
    BY <1>6, <2>1 DEF UniqueIds
<1>8. AtPositions(q, keep) = r
  BY <1>2, <1>5 DEF AtPositions
<1> QED
  BY <1>1, <1>7, <1>8 DEF Fewer

\* So it is when repetitions and contained deletions are dropped.
LEMMA FewerCollapsed ==
    ASSUME NEW q, IsQueue(q)
    PROVE  Fewer(Collapsed(q), q)
<1>1. PICK first : first = {i \in DOMAIN q : \A j \in 1..(i - 1) : ~SameOperation(q[i], q[j])}
  OBVIOUS
<1>2. PICK once : once = Distinct(q)
  OBVIOUS
<1>3. PICK outer : outer = {i \in DOMAIN once : ~Nested(once, i)}
  OBVIOUS
<1>4. once = AtPositions(q, first)
  BY <1>1, <1>2 DEF Distinct
<1>5. Collapsed(q) = AtPositions(once, outer)
  BY <1>2, <1>3 DEF Collapsed
<1>6. IsQueue(once) /\ Fewer(once, q)
  BY <1>1, <1>4, PositionsLeft, FewerPositions
<1>7. Fewer(AtPositions(once, outer), once)
  BY <1>3, <1>6, FewerPositions
<1> QED
  BY <1>5, <1>6, <1>7 DEF Fewer

\* Also when one is taken out,
LEMMA FewerWithout ==
    ASSUME NEW q, IsQueue(q), NEW i \in DOMAIN q
    PROVE  Fewer(RemoveAt(q, i), q)
<1>1. PICK S : q \in Seq(S)
  BY DEF IsQueue
<1>2. Len(q) \in Nat /\ DOMAIN q = 1..Len(q)
  BY <1>1
<1>3. PICK n \in Nat : n = Len(q)
  BY <1>2
<1>4. PICK a : a = SubSeq(q, 1, i - 1)
  OBVIOUS
<1>5. PICK b : b = SubSeq(q, i + 1, n)
  OBVIOUS
<1>6. i \in 1..n
  BY <1>2, <1>3
<1>7. a \in Seq(S) /\ Len(a) = i - 1 /\ \A k \in 1..(i - 1) : a[k] = q[k]
  BY <1>1, <1>3, <1>4, <1>6
<1>8. b \in Seq(S) /\ Len(b) = n - i /\ \A k \in 1..(n - i) : b[k] = q[k + i]
  BY <1>1, <1>3, <1>5, <1>6
<1>9. PICK r : r = a \o b
  OBVIOUS
<1>10. r \in Seq(S) /\ Len(r) = n - 1 /\ DOMAIN r = 1..(n - 1)
  <2>0. a \in Seq(S) /\ b \in Seq(S)
    BY <1>7, <1>8
  <2>1. r \in Seq(S) /\ Len(r) = Len(a) + Len(b)
    BY <1>9, <2>0
  <2>2. Len(r) = n - 1
    BY <1>6, <1>7, <1>8, <2>1
  <2>3. DOMAIN r = 1..Len(r)
    BY <2>1
  <2> QED
    BY <2>1, <2>2, <2>3
<1>11. ASSUME NEW k \in 1..(n - 1)
       PROVE  r[k] = q[IF k < i THEN k ELSE k + 1]
  <2>1. CASE k < i
    <3>1. k \in 1..Len(a) /\ k \in 1..(i - 1)
      BY <1>6, <1>7, <2>1
    <3>2. r[k] = a[k]
      BY <1>7, <1>8, <1>9, <3>1
    <3> QED
      BY <1>7, <2>1, <3>1, <3>2
  <2>2. CASE ~(k < i)
    <3>1. k - (i - 1) \in 1..(n - i) /\ (k - (i - 1)) + i = k + 1
      BY <1>6, <2>2
    <3>2. k \in (Len(a) + 1)..(Len(a) + Len(b)) /\ k - Len(a) = k - (i - 1)
      BY <1>6, <1>7, <1>8, <2>2
    <3>3. r[k] = b[k - Len(a)]
      BY <1>7, <1>8, <1>9, <3>2
    <3>4. r[k] = q[(k - (i - 1)) + i]
      BY <1>8, <3>1, <3>2, <3>3
    <3> QED
      BY <2>2, <3>1, <3>4
  <2> QED
    BY <2>1, <2>2
<1>12. ASSUME NEW k \in 1..(n - 1)
       PROVE  (IF k < i THEN k ELSE k + 1) \in 1..n
  BY <1>6
<1>13. ToSet(r) \subseteq ToSet(q)
  BY <1>2, <1>3, <1>10, <1>11, <1>12 DEF ToSet
<1>14. ASSUME UniqueIds(q), NEW k \in 1..(n - 1), NEW m \in 1..(n - 1), r[k].id = r[m].id
       PROVE  k = m
  <2>1. PICK x : x = IF k < i THEN k ELSE k + 1
    OBVIOUS
  <2>2. PICK y : y = IF m < i THEN m ELSE m + 1
    OBVIOUS
  <2>3. x \in 1..n /\ y \in 1..n /\ q[x].id = q[y].id
    BY <1>11, <1>12, <1>14, <2>1, <2>2
  <2>4. x = y
    BY <1>2, <1>3, <1>14, <2>3 DEF UniqueIds
  <2> QED
    BY <1>6, <2>1, <2>2, <2>4
<1>15. UniqueIds(q) => UniqueIds(r)
  BY <1>10, <1>14 DEF UniqueIds
<1>16. RemoveAt(q, i) = r
  BY <1>3, <1>4, <1>5, <1>9 DEF RemoveAt
<1> QED
  BY <1>13, <1>15, <1>16 DEF Fewer

\* and when two change places.
LEMMA FewerSwapped ==
    ASSUME NEW q, NEW a \in DOMAIN q, NEW b \in DOMAIN q,
           NEW r, r = [q EXCEPT ![a] = q[b], ![b] = q[a]]
    PROVE  Fewer(r, q)
<1>1. DOMAIN r = DOMAIN q
  OBVIOUS
<1>2. ASSUME NEW k \in DOMAIN q
      PROVE  r[k] = q[IF k = b THEN a ELSE IF k = a THEN b ELSE k]
  OBVIOUS
<1>3. ToSet(r) \subseteq ToSet(q)
  BY <1>1, <1>2 DEF ToSet
<1>4. ASSUME UniqueIds(q), NEW k \in DOMAIN q, NEW m \in DOMAIN q, r[k].id = r[m].id
      PROVE  k = m
  <2>1. PICK x : x = IF k = b THEN a ELSE IF k = a THEN b ELSE k
    OBVIOUS
  <2>2. PICK y : y = IF m = b THEN a ELSE IF m = a THEN b ELSE m
    OBVIOUS
  <2>3. x \in DOMAIN q /\ y \in DOMAIN q /\ q[x].id = q[y].id
    BY <1>2, <1>4, <2>1, <2>2
  <2>4. x = y
    BY <1>4, <2>3 DEF UniqueIds
  <2> QED
    BY <2>1, <2>2, <2>4
<1> QED
  BY <1>1, <1>3, <1>4 DEF Fewer, UniqueIds

\* Nothing is fewer than anything, and the same is.
LEMMA FewerTrivially == \A q : Fewer(<<>>, q) /\ Fewer(q, q)
<1>1. DOMAIN <<>> = {}
  OBVIOUS
<1> QED
  BY <1>1 DEF Fewer, ToSet, UniqueIds

-----------------------------------------------------------------------------
\* The disk, the tree and the operations stay what they are.
LEMMA InsideKeeps ==
    ASSUME Inside, UNCHANGED setup, ToSet(queue') \subseteq ToSet(queue),
           disk' \subseteq setup.known,
           tree' = [own |-> tree'.own, complete |-> tree'.complete]
    PROVE  Inside'
BY DEF Inside, Operational

\* Ids stay apart while nothing is staged.
LEMMA NumberedKeeps ==
    ASSUME Numbered, Fewer(queue', queue), Asked' \subseteq Asked, Budget',
           left'.stage = left.stage
    PROVE  Numbered'
<1>1. UniqueIds(queue')
  BY DEF Numbered, Fewer
<1>2. \A op \in ToSet(queue') : op \in ToSet(queue)
  BY DEF Fewer
<1> QED
  BY <1>1, <1>2 DEF Numbered, UniqueIds

\* What a step that stages nothing does to the queue and the bounds.
Spared == UNCHANGED left \/ \E k \in Bounded \ {"stage"} : Spend(k)
NoneStaged == Fewer(queue', queue) /\ Asked' \subseteq Asked /\ Spared

\* Then the shape of the queue and of the ids stays.
LEMMA NumberedStays ==
    ASSUME Numbered, NoneStaged
    PROVE  Numbered'
<1>1. Budget
  BY DEF Numbered
<1>2. Budget' /\ left'.stage = left.stage
  <2>1. CASE UNCHANGED left
    BY <1>1, <2>1 DEF Budget
  <2>2. CASE \E k \in Bounded \ {"stage"} : Spend(k)
    BY <1>1, <2>2, SpendElse
  <2> QED
    BY <2>1, <2>2 DEF NoneStaged, Spared
<1> QED
  BY <1>2, NumberedKeeps DEF NoneStaged

\* A quiet step that stages nothing.
LEMMA QuietSettles ==
    ASSUME Settling, Remember, UNCHANGED <<setup, disk, data, store>>,
           NoneStaged, SameWork, SameShells
    PROVE  Settling'
<1>1. Inside /\ Numbered /\ Truthful
  BY DEF Settling
<1>2. UNCHANGED <<setup, disk, tree, scan, scans, latest, saves, cache>>
  BY DEF data, store
<1>3. Truthful'
  BY <1>1, <1>2, QuietKeeps
<1>4. Numbered'
  BY <1>1, NumberedStays
<1>5. ToSet(queue') \subseteq ToSet(queue)
  BY DEF NoneStaged, Fewer
<1>6. disk' \subseteq setup.known
  BY <1>1, <1>2 DEF Inside
<1>7. tree' = [own |-> tree'.own, complete |-> tree'.complete]
  BY <1>1, <1>2 DEF Inside
<1>8. Inside'
  BY <1>1, <1>2, <1>5, <1>6, <1>7, InsideKeeps
<1> QED
  BY <1>3, <1>4, <1>8 DEF Settling

\* The keys of the review take from the queue or turn it round, and leave a
\* plan alone that is applied.
LEMMA ReviewKeysTake ==
    ASSUME Known, PressReview \/ PressMove \/ PressRemove \/ PressReorder \/ PressDiscard
                  \/ PressClose \/ PressEnter \/ Resize \/ PressInput \/ PressExport
    PROVE  Fewer(queue', queue) /\ (job.kind = "apply" => queue' = queue)
<1>1. IsQueue(queue)
  BY DEF Known, Reviewing, Counted
<1>2. job.kind = "apply" => view.mode = "applying"
  BY DEF Known, Attended
<1>3. CASE UNCHANGED queue
  BY <1>3, FewerTrivially
<1>4. CASE PressRemove /\ queue' = RemoveAt(queue, view.cursor + 1) /\ view.cursor < Len(queue)
  <2>1. view.cursor + 1 \in DOMAIN queue
    BY <1>1, <1>4, QueueLength DEF Known, Reviewing, Counted
  <2>2. Fewer(RemoveAt(queue, view.cursor + 1), queue)
    BY <1>1, <2>1, FewerWithout
  <2>3. view.mode = "review"
    BY <1>4 DEF PressRemove
  <2> QED
    BY <1>2, <1>4, <2>2, <2>3
<1>5. CASE PressReorder /\ queue' # queue
  <2>1. PICK to \in {view.cursor - 1, view.cursor + 1} \cap 0..(Len(queue) - 1) :
          /\ view.cursor < Len(queue)
          /\ queue' = [queue EXCEPT ![view.cursor + 1] = queue[to + 1],
                                    ![to + 1] = queue[view.cursor + 1]]
    BY <1>5 DEF PressReorder
  <2>2. Len(queue) \in Nat /\ DOMAIN queue = 1..Len(queue) /\ view.cursor \in Nat
    BY <1>1, QueueLength DEF Known, Reviewing, Counted
  <2>3. view.cursor + 1 \in DOMAIN queue /\ to + 1 \in DOMAIN queue
    BY <2>1, <2>2
  <2>4. PICK a \in DOMAIN queue : a = view.cursor + 1
    BY <2>3
  <2>5. PICK b \in DOMAIN queue : b = to + 1
    BY <2>3
  <2>6. queue' = [queue EXCEPT ![a] = queue[b], ![b] = queue[a]]
    BY <2>1, <2>4, <2>5
  <2>7. Fewer(queue', queue)
    BY <2>6, FewerSwapped
  <2>8. view.mode = "review"
    BY <1>5 DEF PressReorder
  <2> QED
    BY <1>2, <2>7, <2>8
<1>6. CASE PressDiscard
  <2>1. view.mode = "review" /\ queue' = <<>>
    BY <1>6 DEF PressDiscard
  <2> QED
    BY <1>2, <2>1, FewerTrivially
<1>7. CASE PressEnter /\ queue' = Collapsed(queue)
  <2>1. view.mode = "review"
    BY <1>7 DEF PressEnter
  <2> QED
    BY <1>1, <1>2, <1>7, <2>1, FewerCollapsed
<1> QED
  BY <1>3, <1>4, <1>5, <1>6, <1>7 DEF PressReview, PressMove, PressRemove, PressReorder,
     PressDiscard, PressClose, PressEnter, Resize, PressInput, PressExport

\* The keys of the review and of the screens beside it.
LEMMA ReviewKeysSettle ==
    ASSUME Known, Settling, Remember,
           PressReview \/ PressMove \/ PressRemove \/ PressReorder \/ PressDiscard
           \/ PressClose \/ PressEnter \/ Resize \/ PressInput \/ PressExport
    PROVE  Settling'
<1>1. UNCHANGED <<setup, disk, data, store, job, pending>>
  BY DEF PressReview, PressMove, PressRemove, PressReorder, PressDiscard, PressClose,
         PressEnter, Resize, PressInput, PressExport, ReviewOnly
<1>2. Spared
  <2>1. {"review", "edit", "resize", "input", "export"} \subseteq Bounded \ {"stage"}
    BY DEF Bounded
  <2> QED
    BY <2>1 DEF Spared, PressReview, PressMove, PressRemove, PressReorder, PressDiscard,
                PressClose, PressEnter, Resize, PressInput, PressExport
<1>3. Fewer(queue', queue) /\ (job.kind = "apply" => queue' = queue)
  BY ReviewKeysTake
<1>4. SameWork
  BY <1>1, <1>3 DEF SameWork
<1>5. SameShells /\ NoneStaged
  BY <1>1, <1>2, <1>3 DEF SameShells, ShellOut, NoneStaged, Asked
<1> QED
  BY <1>1, <1>4, <1>5, QuietSettles

\* Two queues one after the other.
LEMMA Joined ==
    ASSUME NEW q, IsQueue(q), NEW r, IsQueue(r)
    PROVE  /\ ToSet(q \o r) \subseteq ToSet(q) \cup ToSet(r)
           /\ UniqueIds(q) /\ UniqueIds(r) /\ (\A a \in ToSet(q), b \in ToSet(r) : a.id # b.id) =>
                UniqueIds(q \o r)
<1>1. PICK S : q \in Seq(S)
  BY DEF IsQueue
<1>2. PICK T : r \in Seq(T)
  BY DEF IsQueue
<1>3. PICK m \in Nat : m = Len(q)
  BY <1>1
<1>4. PICK n \in Nat : n = Len(r)
  BY <1>2
<1>5. DOMAIN q = 1..m /\ DOMAIN r = 1..n
  BY <1>1, <1>2, <1>3, <1>4
<1>6. PICK s : s = q \o r
  OBVIOUS
<1>7. DOMAIN s = 1..(m + n)
  <2>1. q \in Seq(S \cup T) /\ r \in Seq(S \cup T)
    BY <1>1, <1>2
  <2>2. s \in Seq(S \cup T) /\ Len(s) = m + n
    BY <1>3, <1>4, <1>6, <2>1
  <2> QED
    BY <2>2
<1>8. ASSUME NEW k \in 1..(m + n)
      PROVE  s[k] = IF k <= m THEN q[k] ELSE r[k - m]
  BY <1>1, <1>2, <1>3, <1>4, <1>6
<1>9. ASSUME NEW k \in 1..(m + n)
      PROVE  (k <= m => k \in DOMAIN q) /\ (~(k <= m) => k - m \in DOMAIN r)
  BY <1>5
<1>10. ASSUME NEW k \in 1..(m + n)
       PROVE  (k <= m => s[k] \in ToSet(q)) /\ (~(k <= m) => s[k] \in ToSet(r))
  BY <1>8, <1>9 DEF ToSet
<1>11. ToSet(s) \subseteq ToSet(q) \cup ToSet(r)
  <2>1. \A x \in ToSet(s) : \E k \in 1..(m + n) : x = s[k]
    BY <1>7 DEF ToSet
  <2> QED
    BY <1>10, <2>1
<1>12. ASSUME UniqueIds(q), UniqueIds(r), \A a \in ToSet(q), b \in ToSet(r) : a.id # b.id,
              NEW i \in 1..(m + n), NEW j \in 1..(m + n), s[i].id = s[j].id
       PROVE  i = j
  <2>1. CASE i <= m /\ j <= m
    <3>1. q[i].id = q[j].id /\ i \in DOMAIN q /\ j \in DOMAIN q
      BY <1>8, <1>9, <1>12, <2>1
    <3> QED
      BY <1>12, <3>1 DEF UniqueIds
  <2>2. CASE ~(i <= m) /\ ~(j <= m)
    <3>1. r[i - m].id = r[j - m].id /\ i - m \in DOMAIN r /\ j - m \in DOMAIN r
      BY <1>8, <1>9, <1>12, <2>2
    <3>2. i - m = j - m
      BY <1>12, <3>1 DEF UniqueIds
    <3> QED
      BY <3>2
  <2>3. CASE i <= m /\ ~(j <= m)
    BY <1>10, <1>12, <2>3
  <2>4. CASE ~(i <= m) /\ j <= m
    <3>1. s[j] \in ToSet(q) /\ s[i] \in ToSet(r)
      BY <1>10, <2>4
    <3>2. s[j].id # s[i].id
      BY <1>12, <3>1
    <3> QED
      BY <1>12, <3>2
  <2> QED
    BY <2>1, <2>2, <2>3, <2>4
<1> QED
  BY <1>6, <1>7, <1>11, <1>12 DEF UniqueIds

\* What is asked to be staged, as operations.
LEMMA StagedAre ==
    ASSUME setup \in Setups, NEW ask, ask.what \in setup.stagings
    PROVE  /\ IsQueue(StagedBy(ask)) /\ UniqueIds(StagedBy(ask))
           /\ \A op \in ToSet(StagedBy(ask)) : Operational(setup, op) /\ op.id[1] = ask.id
<1>1. PICK t : t = ask.what
  OBVIOUS
<1>2. /\ t.action \in {"delete", "mkdir", "copy", "move"} /\ t.paths \in Seq(setup.known)
      /\ t.action \in {"copy", "move"} =>
            \A i \in DOMAIN t.paths : DestIn(t, t.paths[i]) \in setup.known
  BY <1>1, SessionAssumption
<1>3. PICK n \in Nat : n = Len(t.paths)
  BY <1>2
<1>4. DOMAIN t.paths = 1..n /\ \A i \in 1..n : t.paths[i] \in setup.known
  BY <1>2, <1>3
<1>5. PICK r : r = StagedBy(ask)
  OBVIOUS
<1>6. DOMAIN r = 1..n
  BY <1>1, <1>4, <1>5 DEF StagedBy
<1>7. ASSUME NEW i \in 1..n
      PROVE  /\ r[i].id = <<ask.id, i>> /\ r[i].action = t.action /\ r[i].source = t.paths[i]
             /\ r[i].dest = DestIn(t, t.paths[i])
  BY <1>1, <1>4, <1>5 DEF StagedBy
<1>8. IsQueue(r)
  <2>1. r = [i \in 1..n |-> r[i]]
    <3>1. \E e : r = [i \in DOMAIN t.paths |-> e[i]]
      <4>1. PICK e : e = [i \in DOMAIN ask.what.paths |->
        LET p == ask.what.paths[i] IN
        [id |-> <<ask.id, i>>, action |-> ask.what.action, source |-> p,
         dest |-> DestIn(ask.what, p),
         recursive |-> ask.what.action = "delete" /\ IsDirectory(p),
         linked |-> ~IsDirectory(p) /\ Cardinality(SameFile(disk, p)) > 1]]
        OBVIOUS
      <4>2. r = e
        BY <1>5, <4>1 DEF StagedBy
      <4>3. e = [i \in DOMAIN t.paths |-> e[i]]
        BY <1>1, <4>1
      <4> QED
        BY <4>2, <4>3
    <3>2. PICK e : r = [i \in DOMAIN t.paths |-> e[i]]
      BY <3>1
    <3> QED
      BY <1>4, <3>2
  <2>2. PICK S : S = {r[i] : i \in 1..n}
    OBVIOUS
  <2>3. r \in [1..n -> S]
    BY <2>1, <2>2
  <2>4. r \in Seq(S)
    BY <2>3
  <2> QED
    BY <2>4 DEF IsQueue
<1>9. UniqueIds(r)
  <2>1. ASSUME NEW i \in 1..n, NEW j \in 1..n, r[i].id = r[j].id
        PROVE  i = j
    <3>1. <<ask.id, i>> = <<ask.id, j>>
      BY <1>7, <2>1
    <3> QED
      BY <3>1
  <2> QED
    BY <1>6, <2>1 DEF UniqueIds
<1>10. ASSUME NEW op \in ToSet(r)
       PROVE  Operational(setup, op) /\ op.id[1] = ask.id
  <2>1. PICK i \in 1..n : op = r[i]
    BY <1>6 DEF ToSet
  <2>2. op.id = <<ask.id, i>> /\ op.action = t.action /\ op.source = t.paths[i]
        /\ op.dest = DestIn(t, t.paths[i])
    BY <1>7, <2>1
  <2>3. op.id[1] = ask.id
    BY <2>2
  <2> QED
    BY <1>2, <1>4, <2>2, <2>3 DEF Operational
<1> QED
  BY <1>5, <1>8, <1>9, <1>10

\* What was asked for is staged, at the end of the queue.
LEMMA StagedSettles ==
    ASSUME Known, Settling, Remember, Staged
    PROVE  Late' \/ Settling'
<1>1. PICK ask \in pending :
        /\ ask.kind = "stage" /\ pending' = pending \ {ask}
        /\ \/ UNCHANGED queue
           \/ /\ queue' = Collapsed(queue \o StagedBy(ask))
              /\ view' = ResetReview(Mode("review"), Collapsed(queue \o StagedBy(ask)))
  BY DEF Staged
<1>2. UNCHANGED <<setup, disk, data, store, job, left>>
  BY DEF Staged
<1>3. Inside /\ Numbered /\ Truthful
  BY DEF Settling
<1>4. Asked' = Asked \ {ask} /\ SameShells /\ ask \in Asked
  <2>1. Asked' = Asked \ {ask} /\ ask \in Asked
    BY <1>1 DEF Asked
  <2>2. ShellOut' <=> ShellOut
    BY <1>1 DEF ShellOut
  <2> QED
    BY <2>1, <2>2 DEF SameShells
<1>5. CASE UNCHANGED queue
  <2>1. NoneStaged
    BY <1>2, <1>4, <1>5, FewerTrivially DEF NoneStaged, Spared
  <2>2. SameWork
    BY <1>2, <1>5 DEF SameWork
  <2> QED
    BY <1>2, <1>4, <2>1, <2>2, QuietSettles
<1>6. CASE queue' # queue /\ job.kind = "apply"
  <2>1. Mode("review") = ViewRecord(Mode("review")) /\ Mode("review").mode = "review"
    BY ViewSet DEF Known
  <2>2. view'.mode = "review"
    BY <1>1, <1>6, <2>1, ReviewKeepsMode
  <2> QED
    BY <1>2, <1>6, <2>2 DEF Late
<1>7. CASE queue' # queue /\ job.kind # "apply"
  <2>1. PICK r : r = StagedBy(ask)
    OBVIOUS
  <2>2. setup \in Setups /\ IsQueue(queue) /\ ask.what \in setup.stagings
    BY <1>1 DEF Known, Reviewing, Counted
  <2>3. /\ IsQueue(r) /\ UniqueIds(r)
        /\ \A op \in ToSet(r) : Operational(setup, op) /\ op.id[1] = ask.id
    BY <2>1, <2>2, StagedAre
  <2>4. \A op \in ToSet(queue) : op.id[1] # ask.id
    BY <1>3, <1>4 DEF Numbered
  <2>5. PICK c : c = queue \o r
    OBVIOUS
  <2>6. IsQueue(c)
    BY <2>2, <2>3, <2>5, QueueGrown
  <2>7. ToSet(c) \subseteq ToSet(queue) \cup ToSet(r) /\ UniqueIds(c)
    <3>1. \A a \in ToSet(queue), b \in ToSet(r) : a.id # b.id
      BY <2>3, <2>4
    <3>2. UniqueIds(queue)
      BY <1>3 DEF Numbered
    <3> QED
      BY <2>2, <2>3, <2>5, <3>1, <3>2, Joined
  <2>8. queue' = Collapsed(c) /\ Fewer(Collapsed(c), c)
    BY <1>1, <1>7, <2>1, <2>5, <2>6, FewerCollapsed
  <2>9. UniqueIds(queue') /\ ToSet(queue') \subseteq ToSet(queue) \cup ToSet(r)
    BY <2>7, <2>8 DEF Fewer
  <2>10. Numbered'
    <3>1. Budget' /\ left'.stage = left.stage
      BY <1>2, <1>3 DEF Numbered, Budget
    <3>2. \A x \in Asked' : x \in Asked /\ x.id # ask.id
      BY <1>3, <1>4 DEF Numbered
    <3>3. \A x \in Asked' : x.id \in Nat /\ x.id > left.stage
      BY <1>3, <3>2 DEF Numbered
    <3>4. \A a, b \in Asked' : a.id = b.id => a = b
      BY <1>3, <3>2 DEF Numbered
    <3>5. ASSUME NEW op \in ToSet(queue')
          PROVE  /\ op.id[1] \in Nat /\ op.id[1] > left.stage
                 /\ \A x \in Asked' : x.id # op.id[1]
      <4>1. CASE op \in ToSet(queue)
        BY <1>3, <3>2, <4>1 DEF Numbered
      <4>2. CASE op \in ToSet(r)
        <5>1. op.id[1] = ask.id /\ ask.id \in Nat /\ ask.id > left.stage
          BY <1>3, <1>4, <2>3, <4>2 DEF Numbered
        <5> QED
          BY <3>2, <5>1
      <4> QED
        BY <2>9, <4>1, <4>2
    <3> QED
      BY <2>9, <3>1, <3>3, <3>4, <3>5 DEF Numbered, UniqueIds
  <2>11. Inside'
    <3>1. \A op \in ToSet(queue') : Operational(setup, op)
      BY <1>3, <2>3, <2>9 DEF Inside
    <3> QED
      BY <1>2, <1>3, <3>1 DEF Inside, Operational, data
  <2>12. Truthful'
    <3>1. SameWork
      BY <1>2, <1>7 DEF SameWork
    <3>2. UNCHANGED <<setup, disk, tree, scan, scans, latest, saves, cache>>
      BY <1>2 DEF data, store
    <3> QED
      BY <1>3, <1>4, <3>1, <3>2, QuietKeeps
  <2> QED
    BY <2>10, <2>11, <2>12 DEF Settling
<1> QED
  BY <1>1, <1>5, <1>6, <1>7

\* A key that stages leaves what is asked for with an id of its own.
LEMMA PressStageSettles ==
    ASSUME Settling, Remember, PressStage
    PROVE  Settling'
<1>1. PICK ask : /\ ask.kind = "stage" /\ ask.id = left.stage
                 /\ pending' = pending \cup {ask}
  <2>1. PICK t \in setup.stagings :
          pending' = pending \cup {[kind |-> "stage", what |-> t, id |-> left.stage]}
    BY DEF PressStage
  <2> QED
    BY <2>1
<1>2. UNCHANGED <<setup, disk, data, store, queue, job>> /\ Spend("stage")
  BY DEF PressStage
<1>3. Inside /\ Numbered /\ Truthful
  BY DEF Settling
<1>4. Asked' = Asked \cup {ask} /\ SameShells
  <2>1. Asked' = Asked \cup {ask}
    BY <1>1 DEF Asked
  <2>2. ShellOut' <=> ShellOut
    BY <1>1 DEF ShellOut
  <2> QED
    BY <2>1, <2>2 DEF SameShells
<1>5. Budget' /\ left'.stage = left.stage - 1 /\ left.stage \in Nat
  BY <1>2, <1>3, SpendStage DEF Numbered, Budget
<1>6. Numbered'
  <2>1. \A x \in Asked' : x.id \in Nat /\ x.id > left'.stage
    BY <1>1, <1>3, <1>4, <1>5 DEF Numbered
  <2>2. \A a, b \in Asked' : a.id = b.id => a = b
    <3>1. \A a \in Asked : a.id # ask.id
      BY <1>1, <1>3, <1>5 DEF Numbered
    <3> QED
      BY <1>3, <1>4, <3>1 DEF Numbered
  <2>3. ASSUME NEW op \in ToSet(queue)
        PROVE  op.id[1] \in Nat /\ op.id[1] > left'.stage /\ \A x \in Asked' : x.id # op.id[1]
    <3>1. op.id[1] \in Nat /\ op.id[1] > left.stage /\ \A x \in Asked : x.id # op.id[1]
      BY <1>3 DEF Numbered
    <3> QED
      BY <1>1, <1>4, <1>5, <3>1
  <2>4. UniqueIds(queue')
    BY <1>2, <1>3 DEF Numbered
  <2>5. queue' = queue
    BY <1>2
  <2> QED
    BY <1>5, <2>1, <2>2, <2>3, <2>4, <2>5 DEF Numbered
<1>7. Inside'
  <2>1. ToSet(queue') \subseteq ToSet(queue) /\ disk' \subseteq setup.known
    BY <1>2, <1>3 DEF Inside
  <2>2. tree' = [own |-> tree'.own, complete |-> tree'.complete]
    BY <1>2, <1>3 DEF Inside, data
  <2> QED
    BY <1>2, <1>3, <2>1, <2>2, InsideKeeps
<1>8. Truthful'
  <2>1. SameWork
    BY <1>2 DEF SameWork
  <2>2. UNCHANGED <<setup, disk, tree, scan, scans, latest, saves, cache>>
    BY <1>2 DEF data, store
  <2> QED
    BY <1>3, <1>4, <2>1, <2>2, QuietKeeps
<1> QED
  BY <1>6, <1>7, <1>8 DEF Settling

\* The dry run, a plan that is exported, and a job that is canceled.
LEMMA QuietJobsSettle ==
    ASSUME Known, Settling, Remember,
           \/ PressDryRun \/ DryRun \/ PressSave \/ PressCancel
           \/ Exported /\ UNCHANGED <<disk, data>>
    PROVE  Settling'
<1>1. UNCHANGED <<setup, disk, data, store, queue>>
  BY DEF PressDryRun, DryRun, PressSave, PressCancel, Exported
<1>2. Spared
  <2>1. {"dryRun", "cancel"} \subseteq Bounded \ {"stage"}
    BY DEF Bounded
  <2> QED
    BY <2>1 DEF Spared, PressDryRun, DryRun, PressSave, PressCancel, Exported
<1>3. SameShells /\ Asked' \subseteq Asked
  <2>1. CASE UNCHANGED pending
    BY <2>1 DEF SameShells, ShellOut, Asked
  <2>2. CASE PressSave
    <3>1. PICK ask : ask.kind = "export" /\ pending' = pending \cup {ask}
      <4>1. [kind |-> "export", what |-> "a plan", id |-> 0].kind = "export"
        OBVIOUS
      <4> QED
        BY <2>2, <4>1 DEF PressSave
    <3> QED
      BY <3>1 DEF SameShells, ShellOut, Asked
  <2>3. CASE Exported
    <3>1. PICK ask \in pending : ask.kind = "export" /\ pending' = pending \ {ask}
      BY <2>3 DEF Exported
    <3> QED
      BY <3>1 DEF SameShells, ShellOut, Asked
  <2> QED
    BY <2>1, <2>2, <2>3 DEF PressDryRun, DryRun, PressCancel
<1>4. SameWork
  <2>1. CASE PressDryRun
    <3>1. job'.kind = "dryRun" /\ view.mode = "review"
      BY <2>1 DEF PressDryRun, NoJob
    <3>2. job.kind # "apply"
      BY <3>1 DEF Known, Attended
    <3> QED
      BY <3>1, <3>2 DEF SameWork
  <2>2. CASE DryRun
    BY <2>2 DEF DryRun, NoJob, SameWork
  <2>3. CASE PressSave \/ Exported
    BY <1>1, <2>3 DEF PressSave, Exported, SameWork
  <2>4. CASE PressCancel
    <3>1. job' = [job EXCEPT !.canceled = TRUE] /\ job = JobRecord(job)
      BY <2>4 DEF PressCancel, Known, Screens
    <3>2. job'.kind = job.kind /\ job'.plan = job.plan /\ job'.results = job.results
      BY <3>1 DEF JobRecord
    <3> QED
      BY <1>1, <3>2 DEF SameWork
  <2> QED
    BY <2>1, <2>2, <2>3, <2>4
<1>5. NoneStaged
  BY <1>1, <1>2, <1>3, FewerTrivially DEF NoneStaged
<1> QED
  BY <1>1, <1>3, <1>4, <1>5, QuietSettles

-----------------------------------------------------------------------------
\* startScan: the new scan is the only one of its generation, and finds what
\* is there.
LEMMA StartScanIsTruthful ==
    ASSUME ScansKnown, CacheInv, NEW own, NEW complete, StartScan(own, complete),
           UNCHANGED <<setup, store>>, Written, job'.kind # "apply"
    PROVE  Truthful' /\ tree' = [own |-> tree'.own, complete |-> tree'.complete]
<1> DEFINE new == [generation |-> scan.generation + 1, canceled |-> FALSE,
                   always |-> disk', ever |-> disk']
<1>1. /\ scans' = Canceled(scans) \cup {new}
      /\ scan' = [on |-> TRUE, retain |-> complete, generation |-> scan.generation + 1,
                  restart |-> FALSE]
      /\ tree' = [own |-> own, complete |-> complete]
  BY DEF StartScan
<1>2. new.generation = scan.generation + 1 /\ new.always = disk' /\ new.ever = disk'
  OBVIOUS
<1> HIDE DEF new
<1>3. scan'.on = TRUE /\ scan'.generation = scan.generation + 1
  BY <1>1
<1>4. scan.generation \in Nat /\ latest \in Nat /\ latest <= scan.generation /\ latest' = latest
  BY DEF CacheInv, GenerationsGrow, store
<1>5. \A s \in scans' : s.generation = scan'.generation => s = new
  <2>1. ASSUME NEW s \in Canceled(scans)
        PROVE  s.generation # scan'.generation
    BY <1>3, <1>4, <2>1, CanceledAre
  <2> QED
    BY <1>1, <2>1
<1>6. CurrentScans'
  <2>1. latest' < new.generation
    BY <1>2, <1>4
  <2> QED
    BY <1>2, <1>3, <1>5, <2>1 DEF CurrentScans
<1>7. ~Steady'
  BY <1>3 DEF Steady
<1>8. Carrying' /\ Shown' /\ During'
  BY <1>7 DEF Carrying, Shown, During, Reliable
<1>9. Written'
  BY <1>7 DEF Written, store
<1> QED
  BY <1>1, <1>6, <1>8, <1>9 DEF Truthful

\* A scan begins: asked for, after a shell, or after a plan was exported.
LEMMA ScanBeginsSettles ==
    ASSUME Known, Settling, Remember,
           PressRefresh \/ ShellDone \/ (Exported /\ StartScan(tree.own, tree.complete))
    PROVE  Late' \/ Settling'
<1>1. UNCHANGED <<setup, store, queue, job>> /\ StartScan(tree.own, tree.complete)
  BY DEF PressRefresh, ShellDone, Refresh, Exported
<1>2. Inside /\ Numbered /\ Written
  BY DEF Settling, Truthful
<1>3. CASE job.kind = "apply"
  <2>1. job'.kind = "apply" /\ scan'.on = TRUE
    BY <1>1, <1>3 DEF StartScan
  <2> QED
    BY <2>1 DEF Late
<1>4. CASE job.kind # "apply"
  <2>1. Truthful' /\ tree' = [own |-> tree'.own, complete |-> tree'.complete]
    BY <1>1, <1>2, <1>4, StartScanIsTruthful DEF Known
  <2>2. disk' \subseteq setup.known
    <3>1. setup.planPath \in setup.known
      BY SessionAssumption DEF Known, Reviewing, Counted
    <3>2. disk' = disk \/ disk' = disk \cup {setup.planPath}
      BY DEF PressRefresh, ShellDone, Refresh, Exported
    <3> QED
      BY <1>2, <3>1, <3>2 DEF Inside
  <2>3. Inside'
    BY <1>1, <1>2, <2>1, <2>2, InsideKeeps
  <2>4. Asked' \subseteq Asked
    BY DEF PressRefresh, ShellDone, Exported, Asked
  <2>5. Spared
    <3>1. "refresh" \in Bounded \ {"stage"}
      BY DEF Bounded
    <3> QED
      BY <3>1 DEF Spared, PressRefresh, ShellDone, Exported
  <2>6. Numbered'
    BY <1>1, <1>2, <2>4, <2>5, NumberedStays, FewerTrivially DEF NoneStaged
  <2> QED
    BY <2>1, <2>3, <2>6 DEF Settling
<1> QED
  BY <1>3, <1>4

\* While no plan is applied and no shell comes or goes, and the queue stays,
\* only what is shown and saved has to be looked at.
Elsewhere ==
    /\ UNCHANGED <<setup, queue, job, pending>> /\ Spared
    /\ disk' \subseteq setup.known
    /\ tree' = [own |-> tree'.own, complete |-> tree'.complete]

\* The rest of the invariant then stays.
LEMMA ElsewhereKeeps ==
    ASSUME Settling, Elsewhere
    PROVE  Inside' /\ Numbered' /\ Carrying' /\ SameWork /\ (ShellOut' <=> ShellOut)
<1>1. Inside /\ Numbered /\ Carrying
  BY DEF Settling, Truthful
<1>2. Asked' = Asked /\ (ShellOut' <=> ShellOut) /\ SameWork
  BY DEF Elsewhere, Asked, ShellOut, SameWork
<1>3. Numbered'
  BY <1>1, <1>2, NumberedStays, FewerTrivially DEF Elsewhere, NoneStaged
<1>4. Inside'
  BY <1>1, InsideKeeps DEF Elsewhere
<1>5. Carrying'
  BY <1>1 DEF Elsewhere, Carrying, Results
<1> QED
  BY <1>2, <1>3, <1>4, <1>5

\* A shallow picture while the scan runs.
LEMMA ScanShowsSettles ==
    ASSUME Known, Settling, Remember, ScanShows
    PROVE  Settling'
<1>1. PICK s \in scans : s.generation = scan.generation /\ scan' = [scan EXCEPT !.on = TRUE]
  BY DEF ScanShows
<1>2. UNCHANGED <<setup, disk, scans, store, view, queue, job, pending>>
  BY DEF ScanShows
<1>3. scan.on /\ Inside
  BY <1>1 DEF Settling, Truthful, CurrentScans
<1>4. scan'.on = TRUE /\ scan'.generation = scan.generation
  <2>1. scan = ScanRecord
    BY DEF Known, ScansKnown
  <2> QED
    BY <1>1, <2>1 DEF ScanRecord
<1>5. tree' = [own |-> tree'.own, complete |-> tree'.complete]
  <2>1. CASE tree' = tree
    BY <1>3, <2>1 DEF Inside
  <2>2. CASE tree' # tree
    <3>1. \E m : tree' = [own |-> m, complete |-> FALSE]
      BY <2>2 DEF ScanShows
    <3> QED
      BY <3>1
  <2> QED
    BY <2>1, <2>2
<1>6. Spared
  <2>1. "progress" \in Bounded \ {"stage"}
    BY DEF Bounded
  <2> QED
    BY <2>1 DEF Spared, ScanShows
<1>7. Elsewhere
  BY <1>2, <1>3, <1>5, <1>6 DEF Elsewhere, Inside
<1>8. Inside' /\ Numbered' /\ Carrying' /\ (ShellOut' <=> ShellOut)
  BY <1>7, ElsewhereKeeps
<1>9. ~Steady'
  BY <1>4 DEF Steady
<1>10. CurrentScans'
  BY <1>2, <1>4, <1>8 DEF Settling, Truthful, CurrentScans, store
<1>11. Written'
  BY <1>2, <1>9 DEF Settling, Truthful, Written, store
<1>12. Shown' /\ During'
  BY <1>9 DEF Shown, During, Reliable
<1> QED
  BY <1>8, <1>10, <1>11, <1>12 DEF Settling, Truthful

\* A scan that is no longer shown answers.
LEMMA StaleAnswerSettles ==
    ASSUME Settling, Remember, UNCHANGED <<setup, disk, tree, scan, store, view>>,
           UNCHANGED <<queue, job, pending, left>>, scans' \subseteq scans
    PROVE  Settling'
<1>1. Inside /\ Numbered /\ Truthful
  BY DEF Settling
<1>2. Elsewhere
  BY <1>1 DEF Elsewhere, Spared, Inside
<1>3. Inside' /\ Numbered' /\ SameWork /\ SameShells
  BY <1>2, ElsewhereKeeps DEF SameShells
<1>4. Truthful'
  BY <1>1, <1>3, QuietKeeps DEF store
<1> QED
  BY <1>3, <1>4 DEF Settling

\* A tree that a scan has found is the disk's, and newer than any before.
LEMMA ScanCompletesIsTruthful ==
    ASSUME ScansKnown, CacheInv, CurrentScans, Written, job.kind # "apply",
           UNCHANGED <<setup, disk, job, pending>>,
           NEW s \in scans, s.generation = scan.generation, ScanCompletes(s)
    PROVE  /\ Shown' /\ Written' /\ latest' # latest
           /\ tree' = [own |-> tree'.own, complete |-> tree'.complete]
<1>1. PICK some \in SUBSET (s.ever \ s.always) :
        tree' = [own |-> Measure(s.always \cup some), complete |-> TRUE]
  BY DEF ScanCompletes
<1>2. latest < s.generation /\ (~ShellOut => s.always = disk /\ s.ever = disk)
  BY DEF CurrentScans
<1>3. /\ latest \in Nat /\ s.generation \in Nat
      /\ cache.generation \in Nat /\ cache.generation <= latest
  BY DEF CacheInv, GenerationsGrow, StoredAccepted, ScansKnown
<1>4. latest' = s.generation
  <2>1. /\ Max({latest, s.generation}) \in {latest, s.generation}
        /\ Max({latest, s.generation}) >= s.generation
    BY <1>3, MaxOfTwo
  <2>2. latest' = Max({latest, s.generation})
    BY DEF ScanCompletes
  <2> QED
    BY <1>2, <1>3, <2>1, <2>2
<1>5. tree' = [own |-> tree'.own, complete |-> tree'.complete]
  BY <1>1
<1>6. Shown'
  <2> SUFFICES ASSUME ~ShellOut PROVE tree'.own = Sizes(setup, disk)
    BY DEF Shown, Reliable, ShellOut
  <2>1. s.always \cup some = disk
    BY <1>1, <1>2
  <2>2. tree'.own = Measure(disk)
    BY <1>1, <2>1
  <2> QED
    BY <2>2, SizesAre
<1>7. ASSUME NEW v \in saves
      PROVE  v.generation # s.generation
  BY <1>2, <1>3 DEF CacheInv, SavesAccepted
<1>8. cache' = cache
  BY DEF ScanCompletes
<1>9. cache.generation # s.generation
  BY <1>2, <1>3
<1>10. CASE setup.store = "writable"
  <2>1. PICK new : new = [generation |-> s.generation, own |-> tree'.own, writing |-> FALSE]
    OBVIOUS
  <2>2. saves' = saves \cup {new} /\ new.generation = s.generation /\ new.own = tree'.own
    BY <1>10, <2>1 DEF ScanCompletes
  <2> QED
    BY <1>2, <1>3, <1>4, <1>5, <1>6, <1>7, <1>8, <1>9, <2>2 DEF Written
<1>11. CASE setup.store # "writable"
  <2>1. saves' = saves
    BY <1>11 DEF ScanCompletes
  <2> QED
    BY <1>2, <1>3, <1>4, <1>5, <1>6, <1>8, <1>11, <2>1 DEF Written
<1> QED
  BY <1>10, <1>11

\* The answers of scans.
LEMMA ScanAnswersSettle ==
    ASSUME Known, Settling, Remember, ScanAnswers
    PROVE  Settling'
<1>1. PICK s \in scans :
        /\ scans' = scans \ {s}
        /\ IF s.generation # scan.generation
           THEN UNCHANGED <<tree, scan, store, left>>
           ELSE /\ scan' = [scan EXCEPT !.on = FALSE, !.retain = FALSE]
                /\ ScanCompletes(s) \/ ScanFallsShort(s) \/ ScanFails
  BY DEF ScanAnswers
<1>2. UNCHANGED <<setup, disk, view, queue, job, pending>>
  BY DEF ScanAnswers
<1>3. CASE s.generation # scan.generation
  BY <1>1, <1>2, <1>3, StaleAnswerSettles
<1>4. CASE s.generation = scan.generation
  <2>0. Inside /\ CurrentScans /\ Written
    BY DEF Settling, Truthful
  <2>1. scan.on /\ \A t \in scans : t.generation = s.generation => t = s
    BY <1>4, <2>0 DEF CurrentScans
  <2>2. job.kind # "apply" /\ ~scan.restart
    BY <2>1 DEF Known, Attended, Late
  <2>3. ~scan'.on /\ ~scan'.restart /\ scan'.generation = scan.generation
    <3>1. scan' = [scan EXCEPT !.on = FALSE, !.retain = FALSE]
      BY <1>1, <1>4
    <3> QED
      BY <2>2, <3>1, ScanFieldSet DEF Known
  <2>4. history'.unsettled <=> latest' = latest
    BY <2>1, <2>3, Remembered DEF Over
  <2>5. CurrentScans'
    BY <1>1, <1>4, <2>1, <2>3 DEF CurrentScans
  <2>6. "fault" \in Bounded \ {"stage"}
    BY DEF Bounded
  <2>7. Carrying' /\ During'
    BY <1>2, <2>2 DEF Carrying, During
  <2>8. /\ Shown' /\ Written' /\ Spared
        /\ tree' = [own |-> tree'.own, complete |-> tree'.complete]
    <3>1. CASE ScanCompletes(s)
      <4>1. Spared
        BY <3>1 DEF ScanCompletes, Spared
      <4> QED
        BY <1>2, <1>4, <2>0, <2>2, <3>1, <4>1, ScanCompletesIsTruthful DEF Known
    <3>2. CASE ScanFallsShort(s)
      <4>1. \E m : tree' = [own |-> m, complete |-> FALSE]
        BY <3>2 DEF ScanFallsShort
      <4>2. tree' = [own |-> tree'.own, complete |-> tree'.complete] /\ ~tree'.complete
        BY <4>1
      <4>3. ~Steady' /\ UNCHANGED store /\ Spared
        BY <2>6, <3>2, <4>2 DEF Steady, ScanFallsShort, Spared
      <4> QED
        BY <2>0, <4>2, <4>3 DEF Shown, Reliable, Written, store
    <3>3. CASE ScanFails
      <4>1. UNCHANGED <<tree, store>> /\ Spared
        BY <2>6, <3>3 DEF ScanFails, Spared
      <4>2. ~Steady'
        BY <2>4, <4>1 DEF Steady, store
      <4> QED
        BY <2>0, <4>1, <4>2 DEF Shown, Reliable, Written, store, Inside
    <3> QED
      BY <1>1, <1>4, <3>1, <3>2, <3>3
  <2>9. Elsewhere
    BY <1>2, <2>0, <2>8 DEF Elsewhere, Inside
  <2>10. Inside' /\ Numbered'
    BY <2>9, ElsewhereKeeps
  <2> QED
    BY <2>5, <2>7, <2>8, <2>10 DEF Settling, Truthful
<1> QED
  BY <1>3, <1>4

\* A scan that is stopped answers no more, and nothing is shown as settled.
LEMMA PressStopSettles ==
    ASSUME Known, Settling, Remember, PressStop
    PROVE  Settling'
<1>1. /\ view.mode = "none" /\ scan.on /\ DropScan(scan.restart) /\ Spend("stop")
      /\ UNCHANGED <<setup, disk, tree, store, view, queue, job, pending>>
  BY DEF PressStop
<1>2. ~scan.restart
  BY <1>1 DEF Known, Attended
<1>3. /\ ~scan'.on /\ ~scan'.restart /\ scan'.generation = scan.generation + 1
      /\ scans' = Canceled(scans)
  BY <1>1, <1>2 DEF DropScan
<1>4. ~Steady'
  <2>1. Over /\ latest' = latest
    BY <1>1, <1>3 DEF Over, store
  <2> QED
    BY <2>1, Remembered DEF Steady
<1>5. CurrentScans'
  <2>1. \A s \in scans' : s.generation # scan'.generation
    BY <1>3, CanceledAre DEF Known, ScansKnown
  <2> QED
    BY <2>1 DEF CurrentScans
<1>6. Elsewhere
  <2>1. "stop" \in Bounded \ {"stage"}
    BY DEF Bounded
  <2> QED
    BY <1>1, <2>1 DEF Elsewhere, Spared, Settling, Inside
<1>7. Inside' /\ Numbered' /\ Carrying'
  BY <1>6, ElsewhereKeeps
<1>8. Written'
  BY <1>1, <1>4 DEF Settling, Truthful, Written, store
<1>9. Shown' /\ During'
  BY <1>4 DEF Shown, During, Reliable
<1> QED
  BY <1>5, <1>7, <1>8, <1>9 DEF Settling, Truthful

\* Of a generation there is one scan.
OneShown(ss, g) == \A s, t \in ss : s.generation = g /\ t.generation = g => s = t

\* The disk changes under the scans: they stay what they are.
LEMMA DiskBecomesKeepsScans ==
    ASSUME ScansKnown, NEW S, DiskBecomes(S), UNCHANGED scan
    PROVE  /\ \A s \in scans' : \E t \in scans : s.generation = t.generation
           /\ OneShown(scans, scan.generation) => OneShown(scans', scan.generation)
<1> DEFINE f(s) == IF s.canceled THEN s
                   ELSE [s EXCEPT !.always = @ \cap S, !.ever = @ \cup S]
<1>1. scans' = {f(s) : s \in scans}
  BY DEF DiskBecomes
<1>2. ASSUME NEW s \in scans
      PROVE  f(s).generation = s.generation
  <2>1. s = RunningRecord(s)
    BY DEF ScansKnown
  <2>2. CASE ~s.canceled
    <3>1. f(s) = [s EXCEPT !.always = s.always \cap S, !.ever = s.ever \cup S]
      BY <2>2
    <3> HIDE DEF f
    <3> QED
      BY <2>1, <3>1 DEF RunningRecord
  <2> QED
    BY <2>2
<1> HIDE DEF f
<1> QED
  BY <1>1, <1>2 DEF OneShown

\* A shell is out: nothing is settled until a scan has followed it.
LEMMA PressShellSettles ==
    ASSUME Known, Settling, Remember, PressShell
    PROVE  Settling'
<1>1. /\ view.mode = "none" /\ Spend("shell")
      /\ UNCHANGED <<setup, tree, scan, store, view, queue, job>>
  BY DEF PressShell
<1>2. PICK S : DiskBecomes(S) /\ S \subseteq setup.known
  <2>1. PICK p \in setup.loose :
          DiskBecomes(IF p \in disk THEN disk \ Subtree(disk, p) ELSE disk \cup {p})
    BY DEF PressShell
  <2>2. disk \subseteq setup.known /\ p \in setup.known
    BY SessionAssumption DEF Known, Reviewing, Counted, Settling, Inside
  <2> QED
    BY <2>1, <2>2
<1>3. PICK ask : ask.kind = "shell" /\ pending' = pending \cup {ask}
  <2>1. PICK ask : ask = [kind |-> "shell", what |-> "a shell", id |-> left.shell]
    OBVIOUS
  <2>2. ask.kind = "shell" /\ pending' = pending \cup {ask}
    BY <2>1 DEF PressShell
  <2> QED
    BY <2>2
<1>4. ShellOut' /\ Asked' = Asked
  BY <1>3 DEF ShellOut, Asked
<1>5. job.kind # "apply"
  BY <1>1 DEF Known, Attended
<1>6. Inside /\ Numbered /\ CurrentScans /\ Written
  BY DEF Settling, Truthful
<1>7. Inside'
  <2>1. disk' \subseteq setup.known
    BY <1>2 DEF DiskBecomes
  <2> QED
    BY <1>1, <1>6, <2>1 DEF Inside, Operational
<1>8. Numbered'
  <2>1. "shell" \in Bounded \ {"stage"}
    BY DEF Bounded
  <2>2. NoneStaged
    BY <1>1, <1>4, <2>1, FewerTrivially DEF NoneStaged, Spared
  <2> QED
    BY <1>6, <2>2, NumberedStays
<1>9. CurrentScans'
  <2>1. OneShown(scans, scan.generation)
    BY <1>6 DEF CurrentScans, OneShown
  <2>2. /\ \A s \in scans' : \E t \in scans : s.generation = t.generation
        /\ OneShown(scans', scan.generation)
    BY <1>1, <1>2, <2>1, DiskBecomesKeepsScans DEF Known
  <2>3. latest' = latest /\ scan' = scan
    BY <1>1 DEF store
  <2> QED
    BY <1>4, <1>6, <2>2, <2>3 DEF CurrentScans, OneShown
<1>10. Steady' <=> Steady
  <2>1. ~Over /\ SameWork
    BY <1>1, <1>5 DEF Over, SameWork
  <2>2. history'.unsettled <=> history.unsettled
    BY <2>1, NothingRelinked
  <2> QED
    BY <1>1, <2>2 DEF Steady
<1>11. Written'
  BY <1>1, <1>6, <1>10 DEF Written, store
<1>12. Carrying' /\ Shown' /\ During'
  BY <1>1, <1>4, <1>5 DEF Carrying, Shown, During, Reliable
<1> QED
  BY <1>7, <1>8, <1>9, <1>11, <1>12 DEF Settling, Truthful

-----------------------------------------------------------------------------
\* A save starts, or is left for a newer one; what is steady is still to be written.
LEMMA SaveBeginsWritten ==
    ASSUME CacheInv, Written, UNCHANGED <<setup, latest, cache, tree>>, Steady' <=> Steady,
           SaveBegins
    PROVE  Written'
<1>1. PICK v \in saves : saves' = IF v.generation < latest THEN saves \ {v}
                                  ELSE (saves \ {v}) \cup {[v EXCEPT !.writing = TRUE]}
  BY DEF SaveBegins
<1>2. v.generation \in Nat /\ latest \in Nat /\ v.generation <= latest
  BY DEF CacheInv, SavesAccepted, GenerationsGrow
<1>3. CASE v.generation < latest
  <2>1. saves' = saves \ {v}
    BY <1>1, <1>3
  <2> QED
    BY <1>2, <1>3, <2>1 DEF Written
<1>4. CASE ~(v.generation < latest)
  <2>1. PICK w : w = [v EXCEPT !.writing = TRUE]
    OBVIOUS
  <2>2. w.generation = v.generation /\ w.own = v.own
    BY <2>1 DEF CacheInv, SavesAccepted, SaveRecord
  <2>3. saves' = (saves \ {v}) \cup {w}
    BY <1>1, <1>4, <2>1
  <2>4. \A x, y \in saves' : x.generation = y.generation => x = y
    BY <2>2, <2>3 DEF Written
  <2>5. \A x \in saves' : x.generation # cache.generation
    BY <2>2, <2>3 DEF Written
  <2>6. (\E x \in saves : x.generation = latest /\ x.own = tree.own)
        => \E x \in saves' : x.generation = latest /\ x.own = tree.own
    BY <2>2, <2>3
  <2>7. ~\A x \in saves : ~x.writing /\ x.generation < latest
    BY <1>4
  <2> QED
    BY <2>4, <2>5, <2>6, <2>7 DEF Written
<1> QED
  BY <1>3, <1>4

\* A save that fails is remembered, and no other is being written.
LEMMA SaveEndsWritten ==
    ASSUME CacheInv, Written, UNCHANGED <<setup, latest, tree>>, Steady' <=> Steady, SaveEnds
    PROVE  Written'
<1>1. PICK v \in saves :
        /\ v.writing /\ saves' = saves \ {v}
        /\ \/ cache' = [generation |-> v.generation, own |-> v.own, failed |-> FALSE]
           \/ cache' = [cache EXCEPT !.failed = TRUE]
  BY DEF SaveEnds
<1>2. /\ v.generation \in Nat /\ v.generation <= latest /\ latest \in Nat
      /\ cache.generation \in Nat /\ cache.generation <= v.generation
      /\ \A o \in saves : o.writing => o = v
  BY <1>1 DEF CacheInv, SavesAccepted, GenerationsGrow, OneWrites, StoredAccepted
<1>3. /\ \A x, y \in saves : x.generation = y.generation => x = y
      /\ \A x \in saves : x.generation # cache.generation
  BY DEF Written
<1>4. CASE cache' = [generation |-> v.generation, own |-> v.own, failed |-> FALSE]
  <2>1. cache'.generation = v.generation /\ cache'.own = v.own
    BY <1>4
  <2>2. setup.store = "writable" /\ Steady =>
          \/ \E x \in saves' : x.generation = latest /\ x.own = tree.own
          \/ cache'.generation = latest /\ cache'.own = tree.own
    BY <1>1, <1>2, <1>3, <2>1 DEF Written
  <2>3. \A x \in saves' : x.generation # cache'.generation
    BY <1>1, <1>3, <2>1
  <2> QED
    BY <1>1, <1>3, <2>2, <2>3 DEF Written
<1>5. CASE cache' = [cache EXCEPT !.failed = TRUE]
  <2>1. cache'.generation = cache.generation /\ cache'.failed = TRUE
    BY <1>5 DEF CacheInv, StoredAccepted, CacheRecord
  <2>2. \A x \in saves' : ~x.writing
    BY <1>1, <1>2
  <2>3. setup.store = "writable" /\ Steady =>
          \/ \E x \in saves' : x.generation = latest /\ x.own = tree.own
          \/ v.generation = latest
    BY <1>1, <1>2, <1>3 DEF Written
  <2>4. ASSUME v.generation = latest, NEW x \in saves'
        PROVE  x.generation < latest
    <3>1. x \in saves /\ x.generation # v.generation
      BY <1>1, <1>3, <2>4
    <3>2. x.generation \in Nat /\ x.generation <= latest
      BY <3>1 DEF CacheInv, SavesAccepted
    <3> QED
      BY <1>2, <2>4, <3>1, <3>2
  <2> QED
    BY <1>1, <1>3, <2>1, <2>2, <2>3, <2>4 DEF Written
<1> QED
  BY <1>1, <1>4, <1>5

\* Saves touch the store alone.
LEMMA SavesSettle ==
    ASSUME Known, Settling, Remember, SaveBegins \/ SaveEnds
    PROVE  Settling'
<1>1. UNCHANGED <<setup, disk, data, latest, view, queue, job, pending>>
  BY DEF SaveBegins, SaveEnds
<1>2. Inside /\ Numbered /\ Truthful
  BY DEF Settling
<1>3. Spared
  <2>1. "fault" \in Bounded \ {"stage"}
    BY DEF Bounded
  <2> QED
    BY <2>1 DEF Spared, SaveBegins, SaveEnds
<1>4. Elsewhere
  BY <1>1, <1>2, <1>3 DEF Elsewhere, Inside, data
<1>5. Inside' /\ Numbered' /\ Carrying' /\ SameWork /\ (ShellOut' <=> ShellOut)
  BY <1>4, ElsewhereKeeps
<1>6. (history'.unsettled <=> history.unsettled) /\ (history'.relinked <=> history.relinked)
  BY <1>1, <1>5, NothingRelinked DEF Over, data
<1>7. (Steady' <=> Steady) /\ (Reliable' <=> Reliable)
  BY <1>1, <1>5, <1>6 DEF Steady, Reliable, data
<1>8. CurrentScans'
  BY <1>1, <1>2, <1>5 DEF Truthful, CurrentScans, data
<1>9. Shown' /\ During'
  BY <1>1, <1>2, <1>7 DEF Truthful, Shown, During, OnlyDeleted, Results, data
<1>10. Written'
  <2>1. SaveBegins => UNCHANGED cache
    BY DEF SaveBegins
  <2> QED
    BY <1>1, <1>2, <1>7, <2>1, SaveBeginsWritten, SaveEndsWritten DEF Truthful, Known, data
<1> QED
  BY <1>5, <1>8, <1>9, <1>10 DEF Settling, Truthful

\* What is applied is the queue, and nothing of it is done yet.
LEMMA PressApplySettles ==
    ASSUME Known, Settling, Remember, PressApply
    PROVE  Settling'
<1>1. /\ view.mode = "confirm" /\ Spend("apply")
      /\ job' = [NoJob EXCEPT !.kind = "apply", !.plan = queue]
      /\ UNCHANGED <<setup, disk, tree, store, queue, pending>>
      /\ \/ scan.on /\ DropScan(TRUE)
         \/ ~scan.on /\ scan' = [scan EXCEPT !.restart = FALSE] /\ UNCHANGED scans
  BY DEF PressApply
<1>2. job'.kind = "apply" /\ job'.plan = queue /\ job'.results = <<>>
  BY <1>1 DEF NoJob
<1>3. job.kind # "apply" /\ ~scan.restart
  BY <1>1 DEF Known, Attended
<1>4. Inside /\ Numbered /\ Truthful
  BY DEF Settling
<1>5. /\ ~scan'.on /\ ~Over /\ \A s \in scans' : s.generation # scan'.generation
      /\ ~scan'.restart => ~scan.on
  <2>1. CASE scan.on /\ DropScan(TRUE)
    <3>1. /\ ~scan'.on /\ scan'.restart /\ scan'.generation = scan.generation + 1
          /\ scans' = Canceled(scans)
      BY <2>1 DEF DropScan
    <3>2. \A s \in scans' : s.generation # scan'.generation
      BY <3>1, CanceledAre DEF Known, ScansKnown
    <3> QED
      BY <3>1, <3>2 DEF Over
  <2>2. CASE ~scan.on /\ scan' = [scan EXCEPT !.restart = FALSE] /\ UNCHANGED scans
    <3>1. ~scan'.on /\ scan'.generation = scan.generation
      BY <2>2, ScanFieldSet DEF Known
    <3>2. \A s \in scans' : s.generation # scan'.generation
      BY <1>4, <2>2, <3>1 DEF Truthful, CurrentScans
    <3> QED
      BY <2>2, <3>1, <3>2 DEF Over
  <2> QED
    BY <1>1, <2>1, <2>2
<1>6. (history'.unsettled <=> history.unsettled) /\ (history'.relinked <=> history.relinked)
  BY <1>3, <1>5, Remembered DEF LinkedSince
<1>7. Steady' => Steady
  BY <1>1, <1>3, <1>5, <1>6 DEF Steady
<1>8. Reliable' => Reliable
  BY <1>1, <1>6, <1>7 DEF Reliable, ShellOut
<1>9. CurrentScans'
  BY <1>5 DEF CurrentScans
<1>10. Carrying'
  <2>1. IsQueue(job'.results) /\ Len(job'.results) = 0 /\ Len(queue) \in Nat
    BY <1>2, EmptyQueue, QueueLength DEF Known, Reviewing, Counted
  <2> QED
    BY <1>1, <1>2, <2>1 DEF Carrying, Results
<1>11. Shown'
  BY <1>2 DEF Shown
<1>12. During'
  <2> SUFFICES ASSUME Reliable
               PROVE  /\ tree.own = Sizes(setup, DOMAIN tree.own)
                      /\ DOMAIN tree.own \subseteq setup.known
                      /\ disk = Rest(DOMAIN tree.own, queue, 0)
    BY <1>1, <1>2, <1>8 DEF During, Results
  <2>1. tree.own = Sizes(setup, disk)
    BY <1>3, <1>4 DEF Truthful, Shown
  <2>2. DOMAIN tree.own = disk
    BY <2>1 DEF Sizes
  <2> QED
    BY <1>4, <2>1, <2>2, RestIs DEF Inside
<1>13. Written'
  BY <1>1, <1>4, <1>7 DEF Truthful, Written, store
<1>14. Numbered'
  <2>1. "apply" \in Bounded \ {"stage"}
    BY DEF Bounded
  <2>2. NoneStaged
    BY <1>1, <2>1, FewerTrivially DEF NoneStaged, Spared, Asked
  <2> QED
    BY <1>4, <2>2, NumberedStays
<1>15. Inside'
  BY <1>1, <1>4 DEF Inside, Operational
<1> QED
  BY <1>9, <1>10, <1>11, <1>12, <1>13, <1>14, <1>15 DEF Settling, Truthful

\* Of at most one name there are no two.
LEMMA OneName ==
    ASSUME NEW S, IsFiniteSet(S), ~(Cardinality(S) > 1), NEW a \in S, NEW b \in S
    PROVE  a = b
<1> SUFFICES ASSUME a # b PROVE FALSE
  OBVIOUS
<1>1. IsFiniteSet({a}) /\ Cardinality({a}) = 1
  BY FS_Singleton
<1>2. Cardinality({a} \cup {b}) = Cardinality({a}) + 1 /\ IsFiniteSet({a} \cup {b})
  BY <1>1, FS_AddElement
<1>3. {a} \cup {b} \in SUBSET S
  OBVIOUS
<1>4. Cardinality({a} \cup {b}) <= Cardinality(S)
  BY <1>3, FS_Subset
<1>5. Cardinality(S) \in Nat
  BY FS_CardinalityType
<1> QED
  BY <1>1, <1>2, <1>4, <1>5

\* The operation that comes next is one of the queue.
LEMMA NextIs ==
    ASSUME Settling, job.kind = "apply", Len(job.results) < Len(job.plan), IsQueue(queue)
    PROVE  /\ NextOp = job.plan[Results + 1] /\ Results \in Nat /\ Results + 1 \in 1..Len(job.plan)
           /\ Operational(setup, NextOp)
<1>1. queue = job.plan /\ IsQueue(job.results)
  BY DEF Settling, Truthful, Carrying
<1>2. Results \in Nat /\ Len(job.plan) \in Nat /\ DOMAIN job.plan = 1..Len(job.plan)
  BY <1>1, QueueLength DEF Results
<1>3. NextOp = job.plan[Results + 1] /\ Results + 1 \in 1..Len(job.plan)
  BY <1>2 DEF NextOp, Results
<1>4. NextOp \in ToSet(queue)
  BY <1>1, <1>2, <1>3 DEF ToSet
<1> QED
  BY <1>2, <1>3, <1>4 DEF Settling, Inside

\* What is done to the disk stays among the known paths.
LEMMA AppliedInside ==
    ASSUME Known, Inside, Operational(setup, NextOp), NEW S,
           S \in {disk, Done(NextOp)} \/ S \subseteq disk
    PROVE  S \subseteq setup.known /\ Audited(S) \subseteq setup.known
<1>1. setup.auditPath \in setup.known \cup {NoPath}
  BY SessionAssumption DEF Known, Reviewing, Counted
<1>2. disk \subseteq setup.known
  BY DEF Inside
<1>3. Done(NextOp) \subseteq setup.known
  <2>1. CASE NextOp.action = "delete"
    BY <1>2, <2>1 DEF Done
  <2>2. CASE NextOp.action = "mkdir"
    BY <1>2, <2>2 DEF Done, Operational
  <2>3. CASE NextOp.action = "copy"
    BY <1>2, <2>3 DEF Done, Operational
  <2>4. CASE NextOp.action = "move"
    BY <1>2, <2>4 DEF Done, Operational
  <2> QED
    BY <2>1, <2>2, <2>3, <2>4 DEF Operational
<1> QED
  BY <1>1, <1>2, <1>3 DEF Audited

\* One operation is done, or not, and the disk is what becomes of it.
OneDone(status, S) ==
    /\ job' = [job EXCEPT !.results = Append(@, [id |-> NextOp.id, status |-> status])]
    /\ DiskBecomes(S) /\ S \subseteq setup.known
    /\ status = "ok" => Possible(disk, NextOp) /\ S = Audited(Done(NextOp))

\* Whatever comes of it, the disk stays among the known paths.
LEMMA ApplyOneDoes ==
    ASSUME Known, Inside, Operational(setup, NextOp), ApplyOne
    PROVE  Spared /\ \E status, S : OneDone(status, S)
<1>1. PICK status \in {"ok", "error", "completed", "partial"} :
          /\ job' = [job EXCEPT !.results = Append(@, [id |-> NextOp.id, status |-> status])]
          /\ CASE status = "ok" ->
                    Possible(disk, NextOp) /\ DiskBecomes(Audited(Done(NextOp))) /\ UNCHANGED left
               [] status = "error" /\ ~Possible(disk, NextOp) ->
                    DiskBecomes(Audited(disk)) /\ UNCHANGED left
               [] status = "error" /\ Possible(disk, NextOp) ->
                    DiskBecomes(Audited(disk)) /\ Spend("fault")
               [] status = "completed" ->
                    Possible(disk, NextOp) /\ DiskBecomes(Done(NextOp)) /\ Spend("fault")
               [] OTHER ->
                    /\ NextOp.action = "delete" /\ Possible(disk, NextOp) /\ Spend("fault")
                    /\ \E c \in ChildrenIn(disk, NextOp.source) :
                          DiskBecomes(Audited(disk \ Subtree(disk, c)))
  BY DEF ApplyOne
<1>2. "fault" \in Bounded \ {"stage"}
  BY DEF Bounded
<1>3. CASE status = "ok"
  <2>1. Possible(disk, NextOp) /\ DiskBecomes(Audited(Done(NextOp))) /\ UNCHANGED left
    BY <1>1, <1>3
  <2>2. OneDone(status, Audited(Done(NextOp)))
    BY <1>1, <2>1, AppliedInside DEF OneDone
  <2> QED
    BY <2>1, <2>2 DEF Spared
<1>4. CASE status = "error"
  <2>1. DiskBecomes(Audited(disk)) /\ (UNCHANGED left \/ Spend("fault"))
    BY <1>1, <1>4
  <2>2. OneDone(status, Audited(disk))
    BY <1>1, <1>4, <2>1, AppliedInside DEF OneDone
  <2> QED
    BY <1>2, <2>1, <2>2 DEF Spared
<1>5. CASE status = "completed"
  <2>1. DiskBecomes(Done(NextOp)) /\ Spend("fault")
    BY <1>1, <1>5
  <2>2. OneDone(status, Done(NextOp))
    BY <1>1, <1>5, <2>1, AppliedInside DEF OneDone
  <2> QED
    BY <1>2, <2>1, <2>2 DEF Spared
<1>6. CASE status = "partial"
  <2>1. PICK c : DiskBecomes(Audited(disk \ Subtree(disk, c))) /\ Spend("fault")
    BY <1>1, <1>6
  <2>2. PICK S : S = disk \ Subtree(disk, c)
    OBVIOUS
  <2>3. Audited(S) \subseteq setup.known
    BY <2>2, AppliedInside
  <2>4. OneDone(status, Audited(S))
    BY <1>1, <1>6, <2>1, <2>2, <2>3 DEF OneDone
  <2> QED
    BY <1>2, <2>1, <2>4 DEF Spared
<1> QED
  BY <1>1, <1>3, <1>4, <1>5, <1>6

\* An operation that follows others that succeeded is one more result.
LEMMA OneMoreResult ==
    ASSUME Known, Settling, job.kind = "apply", Len(job.results) < Len(job.plan), ~Stopped,
           NEW status, NEW S, OneDone(status, S), UNCHANGED queue
    PROVE  /\ job'.kind = "apply" /\ job'.plan = job.plan
           /\ Results' = Results + 1 /\ Carrying' /\ job'.results # job.results
           /\ \A i \in 1..Results : job'.results[i] = job.results[i]
           /\ job'.results[Results + 1].status = status
<1>1. queue = job.plan /\ IsQueue(job.results) /\ Results <= Len(job.plan) /\ IsQueue(queue)
      /\ (\A i \in 1..Results : job.results[i].id = job.plan[i].id)
      /\ \A i \in 1..(Results - 1) : job.results[i].status = "ok"
  BY DEF Settling, Truthful, Carrying, Known, Reviewing, Counted
<1>2. NextOp = job.plan[Results + 1] /\ Results \in Nat /\ Results + 1 \in 1..Len(job.plan)
  BY <1>1, NextIs
<1>3. PICK n \in Nat : n = Results /\ n = Len(job.results)
  BY <1>2 DEF Results
<1>4. PICK e : e = [id |-> NextOp.id, status |-> status]
  OBVIOUS
<1>5. PICK r : r = Append(job.results, e)
  OBVIOUS
<1>6. PICK T : job.results \in Seq(T)
  BY <1>1 DEF IsQueue
<1>7. job.results \in Seq(T \cup {e}) /\ e \in T \cup {e}
  BY <1>6
<1>8. /\ r \in Seq(T \cup {e}) /\ Len(r) = n + 1 /\ r[n + 1] = e
      /\ \A i \in 1..n : r[i] = job.results[i]
  BY <1>3, <1>5, <1>7
<1>9. job'.kind = "apply" /\ job'.plan = job.plan /\ job'.results = r
  <2>1. job' = [job EXCEPT !.results = r] /\ job = JobRecord(job)
    BY <1>4, <1>5 DEF OneDone, Known, Screens
  <2> QED
    BY <2>1 DEF JobRecord
<1>10. Results' = n + 1 /\ job'.results # job.results
  <2>1. Len(r) # Len(job.results)
    BY <1>3, <1>8
  <2> QED
    BY <1>8, <1>9, <2>1 DEF Results
<1>11. e.id = NextOp.id /\ e.status = status
  BY <1>4
<1>12. ASSUME NEW i \in 1..(n + 1)
       PROVE  r[i].id = job.plan[i].id
  <2>1. CASE i = n + 1
    BY <1>2, <1>3, <1>8, <1>11, <2>1
  <2>2. CASE i # n + 1
    <3>1. i \in 1..n
      BY <2>2
    <3> QED
      BY <1>1, <1>3, <1>8, <3>1
  <2> QED
    BY <2>1, <2>2
<1>13. ASSUME NEW i \in 1..n
       PROVE  r[i].status = "ok"
  <2>1. CASE i = n
    <3>1. job.results # <<>>
      BY <1>3, <2>1
    <3>2. Last(job.results).status = "ok"
      BY <3>1 DEF Stopped
    <3>3. Last(job.results) = job.results[n]
      BY <1>3 DEF Last
    <3> QED
      BY <1>8, <2>1, <3>2, <3>3
  <2>2. CASE i # n
    <3>1. i \in 1..(Results - 1)
      BY <1>3, <2>2
    <3> QED
      BY <1>1, <1>8, <3>1
  <2> QED
    BY <2>1, <2>2
<1>14. Carrying'
  <2>1. IsQueue(r)
    BY <1>8 DEF IsQueue
  <2>2. n + 1 <= Len(job.plan)
    <3>1. Len(job.plan) \in Nat
      BY <1>1, QueueLength
    <3> QED
      BY <1>2, <1>3, <3>1
  <2>3. (n + 1) - 1 = n
    OBVIOUS
  <2>4. queue' = job.plan
    BY <1>1
  <2> QED
    BY <1>9, <1>10, <1>12, <1>13, <2>1, <2>2, <2>3, <2>4 DEF Carrying
<1>15. r[n + 1].status = status
  BY <1>8, <1>11
<1> QED
  BY <1>3, <1>8, <1>9, <1>10, <1>14, <1>15

\* A deletion that succeeds removes its source, and the only name of the file
\* unless it was known to have several.
LEMMA DeletionStays ==
    ASSUME Known, Settling, Remember, job.kind = "apply", ~scan.on,
           UNCHANGED <<scan, pending, tree>>, Len(job.results) < Len(job.plan), ~Stopped,
           NEW status, NEW S, OneDone(status, S), UNCHANGED <<setup, queue>>
    PROVE  During'
<1>1. /\ job'.kind = "apply" /\ job'.plan = job.plan /\ Results' = Results + 1
      /\ job'.results # job.results
      /\ \A i \in 1..Results : job'.results[i] = job.results[i]
      /\ job'.results[Results + 1].status = status
  BY OneMoreResult
<1>2. IsQueue(queue)
  BY DEF Known, Reviewing, Counted
<1>3. PICK n \in Nat : n = Results /\ NextOp = job.plan[n + 1]
  BY <1>2, NextIs
<1>4. PICK D : D = DOMAIN tree.own
  OBVIOUS
<1> SUFFICES ASSUME Reliable', OnlyDeleted'
             PROVE  /\ tree.own = Sizes(setup, D) /\ D \subseteq setup.known
                    /\ S = Rest(D, job.plan, n + 1)
                    /\ \A i \in 1..(n + 1) :
                          AloneIn(setup, Rest(D, job.plan, i - 1), job.plan[i])
  <2>1. disk' = S
    BY DEF OneDone, DiskBecomes
  <2> QED
    BY <1>1, <1>3, <1>4, <2>1 DEF During
<1>5. Reliable /\ ~LinkedSince
  <2>1. ~Over
    BY DEF Over
  <2>2. /\ history'.unsettled <=> history.unsettled
        /\ history'.relinked <=> history.relinked \/ LinkedSince
    BY <2>1, Remembered
  <2> QED
    BY <2>2 DEF Reliable, Steady, ShellOut
<1>6. setup.auditPath = NoPath
      /\ \A i \in 1..(n + 1) : job'.results[i].status = "ok" /\ job.plan[i].action = "delete"
  BY <1>1, <1>3 DEF OnlyDeleted
<1>7. OnlyDeleted
  <2>1. \A i \in 1..n : i \in 1..(n + 1) /\ job.results[i] = job'.results[i]
    BY <1>1, <1>3
  <2> QED
    BY <1>3, <1>6, <2>1 DEF OnlyDeleted
<1>8. /\ tree.own = Sizes(setup, D) /\ D \subseteq setup.known
      /\ disk = Rest(D, job.plan, n)
      /\ \A i \in 1..n : AloneIn(setup, Rest(D, job.plan, i - 1), job.plan[i])
  BY <1>3, <1>4, <1>5, <1>7 DEF Settling, Truthful, During
<1>9. n + 1 \in 1..(n + 1)
  OBVIOUS
<1>10. status = "ok" /\ NextOp.action = "delete" /\ Possible(disk, NextOp)
  <2>1. status = "ok" /\ NextOp.action = "delete"
    BY <1>1, <1>3, <1>6, <1>9
  <2> QED
    BY <2>1 DEF OneDone
<1>11. S = Rest(D, job.plan, n + 1)
  <2>1. S = disk \ Subtree(disk, NextOp.source)
    BY <1>6, <1>10 DEF OneDone, Audited, Done
  <2>2. PICK q : q = job.plan
    OBVIOUS
  <2>3. Rest(D, q, n + 1) = Rest(D, q, n) \ Subtree(Rest(D, q, n), q[n + 1].source)
    BY RestIs
  <2> QED
    BY <1>3, <1>8, <2>1, <2>2, <2>3
<1>12. AloneIn(setup, disk, NextOp)
  <2> SUFFICES ASSUME NextOp.source \notin setup.dirs, ~NextOp.linked,
                      NEW p \in disk, p \notin setup.dirs, setup.file[p] = setup.file[NextOp.source]
               PROVE  p = NextOp.source
    BY DEF AloneIn
  <2>1. ~(Cardinality(SameFile(disk, NextOp.source)) > 1)
    BY <1>1, <1>5 DEF LinkedSince, IsDirectory
  <2>2. IsFiniteSet(SameFile(disk, NextOp.source))
    <3>1. SameFile(disk, NextOp.source) \in SUBSET setup.known
      BY DEF SameFile, Settling, Inside
    <3> QED
      BY <3>1, KnownAre, FS_Subset DEF Known, Reviewing, Counted
  <2>3. NextOp.source \in disk
    BY <1>10 DEF Possible
  <2>4. p \in SameFile(disk, NextOp.source) /\ NextOp.source \in SameFile(disk, NextOp.source)
    BY <2>3 DEF SameFile
  <2> QED
    BY <2>1, <2>2, <2>4, OneName
<1>13. ASSUME NEW i \in 1..(n + 1)
       PROVE  AloneIn(setup, Rest(D, job.plan, i - 1), job.plan[i])
  <2>1. CASE i = n + 1
    <3>1. i - 1 = n
      BY <2>1
    <3> QED
      BY <1>3, <1>8, <1>12, <2>1, <3>1
  <2>2. CASE i # n + 1
    <3>1. i \in 1..n
      BY <2>2
    <3> QED
      BY <1>8, <3>1
  <2> QED
    BY <2>1, <2>2
<1> QED
  BY <1>8, <1>11, <1>13

\* One operation of what is applied.
LEMMA ApplyOneSettles ==
    ASSUME Known, Settling, Remember, ApplyOne
    PROVE  Settling'
<1>1. /\ job.kind = "apply" /\ ~Stopped /\ Len(job.results) < Len(job.plan)
      /\ UNCHANGED <<setup, tree, scan, store, view, queue, pending>>
  BY DEF ApplyOne
<1>2. ~scan.on
  BY <1>1 DEF Known, Late
<1>3. Inside /\ Numbered /\ Truthful /\ IsQueue(queue)
  BY DEF Settling, Known, Reviewing, Counted
<1>4. Operational(setup, NextOp)
  BY <1>1, <1>3, NextIs
<1>5. Spared /\ \E status, S : OneDone(status, S)
  BY <1>3, <1>4, ApplyOneDoes
<1>6. PICK status, S : OneDone(status, S)
  BY <1>5
<1>7. DiskBecomes(S) /\ disk' = S /\ S \subseteq setup.known
  BY <1>6 DEF OneDone, DiskBecomes
<1>8. During'
  BY <1>1, <1>2, <1>6, DeletionStays
<1>9. Carrying' /\ job'.kind = "apply"
  BY <1>1, <1>6, OneMoreResult
<1>10. Shown'
  BY <1>9 DEF Shown
<1>11. CurrentScans'
  <2>1. \A s \in scans : s.generation # scan.generation
    BY <1>2, <1>3 DEF Truthful, CurrentScans
  <2>2. \A s \in scans' : \E t \in scans : s.generation = t.generation
    BY <1>1, <1>7, DiskBecomesKeepsScans DEF Known
  <2> QED
    BY <1>1, <2>1, <2>2 DEF CurrentScans
<1>12. Written'
  <2>1. ~Over
    BY <1>2 DEF Over
  <2>2. history'.unsettled <=> history.unsettled
    BY <2>1, Remembered
  <2> QED
    BY <1>1, <1>3, <2>2 DEF Truthful, Written, Steady, store
<1>13. Numbered'
  <2>1. NoneStaged
    BY <1>1, <1>5, FewerTrivially DEF NoneStaged, Asked
  <2> QED
    BY <1>3, <2>1, NumberedStays
<1>14. Inside'
  BY <1>1, <1>3, <1>7 DEF Inside, Operational
<1> QED
  BY <1>8, <1>9, <1>10, <1>11, <1>12, <1>13, <1>14 DEF Settling, Truthful

\* What has been reconciled: a tree that has not changed is the one shown, and
\* only deletions ask for no scan.
Noted(i, w) ==
    /\ w = [own |-> w.own, changed |-> w.changed, needsScan |-> w.needsScan]
    /\ ~w.changed => w.own = tree.own
    /\ ~w.needsScan =>
          \A j \in 1..i : job.results[j].status = "ok" => OpOf(job.results[j].id).action = "delete"

\* Every result keeps that.
LEMMA NotedStep ==
    ASSUME NEW i \in Nat, NEW w, Noted(i, w)
    PROVE  Noted(i + 1, Reconcile(w, job.results[i + 1]))
<1>1. PICK r : r = job.results[i + 1]
  OBVIOUS
<1>2. PICK op : op = OpOf(r.id)
  OBVIOUS
<1>3. PICK x : x = Reconcile(w, r)
  OBVIOUS
<1>4. /\ w = [own |-> w.own, changed |-> w.changed, needsScan |-> w.needsScan]
      /\ ~w.changed => w.own = tree.own
      /\ ~w.needsScan =>
            \A j \in 1..i :
                job.results[j].status = "ok" => OpOf(job.results[j].id).action = "delete"
  BY DEF Noted
<1>5. \A j \in 1..(i + 1) : j \in 1..i \/ j = i + 1
  OBVIOUS
<1>6. CASE r.status \notin {"ok", "completed"}
  <2>1. x = w
    BY <1>2, <1>3, <1>6 DEF Reconcile
  <2>2. r.status # "ok"
    BY <1>6
  <2>3. Noted(i + 1, w)
    BY <1>1, <1>4, <1>5, <2>2 DEF Noted
  <2> QED
    BY <1>1, <1>3, <2>1, <2>3
<1>7. CASE /\ r.status \in {"ok", "completed"}
           /\ op.action # "delete" \/ op.source \notin DOMAIN w.own
  <2>1. x = [w EXCEPT !.needsScan = TRUE]
    BY <1>2, <1>3, <1>7 DEF Reconcile
  <2>2. /\ x.own = w.own /\ x.changed = w.changed /\ x.needsScan = TRUE
        /\ x = [own |-> x.own, changed |-> x.changed, needsScan |-> x.needsScan]
    BY <1>4, <2>1
  <2>3. Noted(i + 1, x)
    BY <1>4, <2>2 DEF Noted
  <2> QED
    BY <1>1, <1>3, <2>3
<1>8. CASE r.status \in {"ok", "completed"} /\ op.action = "delete" /\ op.source \in DOMAIN w.own
  <2>1. PICK own : own = Patched(w.own, op)
    OBVIOUS
  <2>2. PICK n : n = (w.needsScan \/ NeedsReconciliation(w.own, op) \/ Front(op.source) \notin disk)
    OBVIOUS
  <2>3. x = [own |-> own, changed |-> TRUE, needsScan |-> n]
    BY <1>2, <1>3, <1>8, <2>1, <2>2 DEF Reconcile
  <2>4. /\ x.changed = TRUE /\ x.needsScan = n
        /\ x = [own |-> x.own, changed |-> x.changed, needsScan |-> x.needsScan]
    BY <2>3
  <2>5. ASSUME ~n, NEW j \in 1..(i + 1), job.results[j].status = "ok"
        PROVE  OpOf(job.results[j].id).action = "delete"
    <3>1. CASE j = i + 1
      BY <1>1, <1>2, <1>8, <3>1
    <3>2. CASE j \in 1..i
      BY <1>4, <2>2, <2>5, <3>2
    <3> QED
      BY <1>5, <3>1, <3>2
  <2>6. Noted(i + 1, x)
    BY <2>4, <2>5 DEF Noted
  <2> QED
    BY <1>1, <1>3, <2>6
<1> QED
  BY <1>6, <1>7, <1>8

\* So it is of what is reconciled in the end.
LEMMA ReconciledNoted ==
    ASSUME Len(job.results) \in Nat
    PROVE  Noted(Len(job.results), Reconciled)
<1>1. PICK n \in Nat : n = Len(job.results)
  OBVIOUS
<1>2. PICK g : IsAfter(g) /\ Reconciled = g[n]
  BY <1>1, ReconciledIs
<1>3. \A i \in 0..n : g[i] = After(g, i)
  BY <1>1, <1>2 DEF IsAfter
<1> DEFINE G == {m \in Nat : m <= n => Noted(m, g[m])}
<1>4. 0 \in G
  <2>1. g[0] = Begun
    BY <1>1, <1>3 DEF After
  <2>2. g[0].own = tree.own
        /\ g[0] = [own |-> g[0].own, changed |-> g[0].changed, needsScan |-> g[0].needsScan]
    BY <2>1 DEF Begun
  <2>3. Noted(0, g[0])
    BY <2>2 DEF Noted
  <2> QED
    BY <2>3
<1>5. ASSUME NEW m \in Nat, m \in G
      PROVE  m + 1 \in G
  <2> SUFFICES ASSUME m + 1 <= n PROVE Noted(m + 1, g[m + 1])
    OBVIOUS
  <2>1. Noted(m, g[m])
    BY <1>1, <1>5
  <2>2. g[m + 1] = Reconcile(g[m], job.results[m + 1])
    <3>1. m + 1 \in 0..n /\ m + 1 # 0 /\ (m + 1) - 1 = m
      BY <1>1
    <3> QED
      BY <1>3, <3>1 DEF After
  <2> QED
    BY <2>1, <2>2, NotedStep
<1>6. Nat \subseteq G
  <2> HIDE DEF G
  <2> QED
    BY <1>4, <1>5, Induction
<1>7. Noted(n, g[n])
  BY <1>1, <1>6
<1> QED
  BY <1>1, <1>2, <1>7

\* A plan that did not fail was finished, and each result is of its operation.
LEMMA PlanFinished ==
    ASSUME Settling, job.kind = "apply", ~ApplyFailed, IsQueue(queue)
    PROVE  Finished(job.plan, Results) /\ Results = Len(job.plan)
<1>1. /\ queue = job.plan /\ IsQueue(job.results) /\ Results <= Len(job.plan)
      /\ \A i \in 1..Results : job.results[i].id = job.plan[i].id
      /\ \A i \in 1..(Results - 1) : job.results[i].status = "ok"
  BY DEF Settling, Truthful, Carrying
<1>2. PICK n \in Nat : n = Results /\ n = Len(job.results)
  BY <1>1, QueueLength DEF Results
<1>3. n = Len(job.plan) /\ DOMAIN job.plan = 1..n
  <2>1. Len(job.plan) \in Nat /\ DOMAIN job.plan = 1..Len(job.plan)
    BY <1>1, QueueLength
  <2>2. ~(Len(job.results) < Len(job.plan))
    BY DEF ApplyFailed
  <2> QED
    BY <1>1, <1>2, <2>1, <2>2
<1>4. ASSUME NEW i \in 1..n
      PROVE  job.results[i].status = "ok"
  <2>1. CASE i = n
    <3>1. job.results # <<>>
      BY <1>2, <2>1
    <3>2. Last(job.results).status = "ok"
      BY <3>1 DEF ApplyFailed, Stopped
    <3>3. Last(job.results) = job.results[n]
      BY <1>2 DEF Last
    <3> QED
      BY <2>1, <3>2, <3>3
  <2>2. CASE i # n
    <3>1. i \in 1..(Results - 1)
      BY <1>2, <2>2
    <3> QED
      BY <1>1, <3>1
  <2> QED
    BY <2>1, <2>2
<1>5. ASSUME NEW i \in 1..n
      PROVE  OpOf(job.results[i].id) = job.plan[i]
  <2>1. PICK it : it = OpOf(job.results[i].id)
    OBVIOUS
  <2>2. queue[i] \in ToSet(queue) /\ queue[i].id = job.results[i].id
    BY <1>1, <1>2, <1>3 DEF ToSet
  <2>3. it \in ToSet(queue) /\ it.id = job.results[i].id
    BY <2>1, <2>2 DEF OpOf
  <2>4. PICK k \in DOMAIN queue : it = queue[k]
    BY <2>3 DEF ToSet
  <2>5. UniqueIds(queue)
    BY DEF Settling, Numbered
  <2>6. k = i
    BY <1>1, <1>3, <2>2, <2>3, <2>4, <2>5 DEF UniqueIds
  <2> QED
    BY <1>1, <2>1, <2>4, <2>6
<1>6. Finished(job.plan, n)
  BY <1>2, <1>4, <1>5 DEF Finished
<1> QED
  BY <1>2, <1>3, <1>6

\* Exact deletions leave what a scan would measure.
LEMMA ExactDeletions ==
    ASSUME Known, Settling, job.kind = "apply", Reliable, ~ApplyFailed, ~AuditInside,
           ~Reconciled.needsScan
    PROVE  Reconciled.own = Sizes(setup, disk)
<1>1. setup \in Setups /\ IsQueue(queue) /\ queue = job.plan
  BY DEF Known, Reviewing, Counted, Settling, Truthful, Carrying
<1>2. PICK q : q = job.plan
  OBVIOUS
<1>3. PICK n : n = Results
  OBVIOUS
<1>4. Finished(q, n) /\ n = Len(q)
  BY <1>1, <1>2, <1>3, PlanFinished
<1>5. n \in Nat /\ Len(job.results) = n
      /\ \A i \in 1..n : job.results[i].status = "ok" /\ OpOf(job.results[i].id) = q[i]
  BY <1>4 DEF Finished
<1>6. \A i \in 1..n : q[i].action = "delete"
  <2>1. Noted(n, Reconciled)
    BY <1>5, ReconciledNoted
  <2> QED
    BY <1>5, <2>1 DEF Noted
<1>7. OnlyDeleted
  BY <1>2, <1>3, <1>5, <1>6 DEF OnlyDeleted, AuditInside
<1>8. PICK D : D = DOMAIN tree.own
  OBVIOUS
<1>9. /\ tree.own = Sizes(setup, D) /\ D \in SUBSET setup.known
      /\ disk = Rest(D, q, n)
      /\ \A i \in 1..n : AloneIn(setup, Rest(D, q, i - 1), q[i])
  BY <1>2, <1>3, <1>7, <1>8 DEF Settling, Truthful, During
<1>10. tree.own = Measure(D)
  BY <1>9, SizesAre
<1>11. Followed(D, q, n, Reconciled)
  <2>1. Followed(DOMAIN tree.own, q, n, Reconciled)
    BY <1>1, <1>4, <1>8, <1>9, <1>10, ReconciledFollows
  <2> QED
    BY <1>8, <2>1
<1>12. PICK own : own = Reconciled.own
  OBVIOUS
<1>13. ExactUntil(D, q, n) /\ Counts(D, q, n, own)
  BY <1>11, <1>12 DEF Followed
<1>14. ASSUME NEW j \in 1..n
       PROVE  q[j].source \in setup.known /\ Unlinked(D, q, j)
  <2>1. AloneIn(setup, Rest(D, q, j - 1), q[j])
    BY <1>9
  <2>2. Unlinked(D, q, j)
    BY <2>1 DEF AloneIn, Unlinked, IsDirectory
  <2>3. q[j] \in ToSet(queue)
    <3>1. DOMAIN q = 1..n
      BY <1>1, <1>2, <1>4, QueueLength
    <3> QED
      BY <1>1, <1>2, <3>1 DEF ToSet
  <2> QED
    BY <2>2, <2>3 DEF Settling, Inside, Operational
<1>15. own = Measure(disk)
  BY <1>1, <1>5, <1>9, <1>13, <1>14, CountsMeasure
<1> QED
  BY <1>12, <1>15, SizesAre

\* What was completed leaves the queue.
LEMMA AppliedLeaves ==
    ASSUME IsQueue(queue), Applied
    PROVE  Fewer(queue', queue)
<1>1. PICK keep \in SUBSET DOMAIN queue : queue' = AtPositions(queue, keep) \/ queue' = <<>>
  BY DEF Applied
<1> QED
  BY <1>1, FewerPositions, FewerTrivially

\* Where no scan follows, what was exact is shown, and saved.
LEMMA AppliedExactly ==
    ASSUME Known, Settling, Remember, job.kind = "apply", job' = NoJob,
           UNCHANGED <<setup, disk, scans, cache, pending>>, ~scan.on, ~scan.restart, ~AuditInside,
           ~ApplyFailed, NEW r, r = Reconciled, ~r.needsScan,
           tree' = [tree EXCEPT !.own = r.own],
           IF r.changed /\ setup.store = "writable"
           THEN /\ scan' = [scan EXCEPT !.generation = scan.generation + 1, !.restart = FALSE]
                /\ latest' = Max({latest, scan.generation + 1})
                /\ saves' = saves \cup {[generation |-> scan.generation + 1, own |-> r.own,
                                         writing |-> FALSE]}
           ELSE scan' = [scan EXCEPT !.restart = FALSE] /\ UNCHANGED <<latest, saves>>
    PROVE  Truthful' /\ tree' = [own |-> tree'.own, complete |-> tree'.complete]
<1>1. /\ tree'.own = r.own /\ tree'.complete = tree.complete
      /\ tree' = [own |-> tree'.own, complete |-> tree'.complete]
  <2>1. tree = [own |-> tree.own, complete |-> tree.complete]
    BY DEF Settling, Inside
  <2> QED
    BY <2>1
<1>2. scan = ScanRecord /\ scan.generation \in Nat /\ latest \in Nat /\ latest <= scan.generation
      /\ cache.generation \in Nat /\ cache.generation <= latest
  BY DEF Known, ScansKnown, CacheInv, GenerationsGrow, StoredAccepted
<1>3. PICK g \in Nat : g = scan.generation + 1
  BY <1>2
<1>4. job'.kind = "none"
  BY DEF NoJob
<1>5. ~scan'.on /\ ~Over
  <2>1. ~scan'.on
    BY <1>2 DEF ScanRecord
  <2> QED
    BY <2>1 DEF Over
<1>6. (history'.unsettled <=> history.unsettled) /\ (history'.relinked <=> history.relinked)
  BY <1>4, <1>5, Remembered DEF LinkedSince
<1>7. (Steady' => Steady) /\ (Reliable' => Reliable)
  BY <1>1, <1>6 DEF Steady, Reliable, ShellOut
<1>8. Written /\ CurrentScans
  BY DEF Settling, Truthful
<1>9. Shown'
  <2> SUFFICES ASSUME Reliable' PROVE tree'.own = Sizes(setup, disk)
    BY DEF Shown
  <2>1. r.own = Sizes(setup, disk)
    BY <1>7, ExactDeletions
  <2> QED
    BY <1>1, <2>1
<1>10. CASE r.changed /\ setup.store = "writable"
  <2>1. PICK new : new = [generation |-> g, own |-> r.own, writing |-> FALSE]
    OBVIOUS
  <2>2. /\ scan' = [scan EXCEPT !.generation = g, !.restart = FALSE]
        /\ latest' = Max({latest, g}) /\ saves' = saves \cup {new}
        /\ new.generation = g /\ new.own = r.own
    BY <1>3, <1>10, <2>1
  <2>3. scan'.generation = g
    BY <1>2, <2>2 DEF ScanRecord
  <2>4. latest' = g
    <3>1. Max({latest, g}) \in {latest, g} /\ Max({latest, g}) >= g
      BY <1>2, MaxOfTwo
    <3> QED
      BY <1>2, <1>3, <2>2, <3>1
  <2>5. CurrentScans'
    <3>1. \A s \in scans : s.generation \in Nat /\ s.generation <= scan.generation
      BY DEF Known, ScansKnown
    <3>2. \A s \in scans : s.generation # g
      BY <1>2, <1>3, <3>1
    <3> QED
      BY <2>3, <3>2 DEF CurrentScans
  <2>6. \A v \in saves : v.generation # g
    <3>1. \A v \in saves : v.generation \in Nat /\ v.generation <= latest
      BY DEF Known, CacheInv, SavesAccepted
    <3> QED
      BY <1>2, <1>3, <3>1
  <2>7. cache.generation # g /\ cache' = cache
    BY <1>2, <1>3
  <2>8. \A v, w \in saves' : v.generation = w.generation => v = w
    BY <1>8, <2>2, <2>6 DEF Written
  <2>9. \A v \in saves' : v.generation # cache'.generation
    BY <1>8, <2>2, <2>7 DEF Written
  <2>10. \E v \in saves' : v.generation = latest' /\ v.own = tree'.own
    BY <1>1, <2>2, <2>4
  <2>11. Written'
    BY <2>8, <2>9, <2>10 DEF Written
  <2> QED
    BY <1>1, <1>4, <1>9, <2>5, <2>11 DEF Truthful, Carrying, During
<1>11. CASE ~(r.changed /\ setup.store = "writable")
  <2>1. scan' = [scan EXCEPT !.restart = FALSE] /\ UNCHANGED <<latest, saves>>
    BY <1>11
  <2>2. scan'.generation = scan.generation
    BY <1>2, <2>1 DEF ScanRecord
  <2>3. CurrentScans'
    BY <1>8, <2>1, <2>2 DEF CurrentScans
  <2>4. ASSUME setup.store = "writable"
        PROVE  tree'.own = tree.own
    <3>1. IsQueue(job.results)
      BY DEF Settling, Truthful, Carrying
    <3>2. Noted(Len(job.results), Reconciled)
      BY <3>1, QueueLength, ReconciledNoted
    <3> QED
      BY <1>1, <1>11, <2>4, <3>2 DEF Noted
  <2>5. Written'
    BY <1>7, <1>8, <2>1, <2>4 DEF Written
  <2> QED
    BY <1>1, <1>4, <1>9, <2>3, <2>5 DEF Truthful, Carrying, During
<1> QED
  BY <1>10, <1>11

\* A plan was applied.
LEMMA AppliedSettles ==
    ASSUME Known, Settling, Remember, Applied
    PROVE  Settling'
<1>1. job.kind = "apply" /\ job' = NoJob /\ UNCHANGED <<setup, pending, left>>
  BY DEF Applied
<1>2. PICK r : /\ r = Reconciled
               /\ AfterMutation(r.own, r.changed,
                                r.needsScan \/ scan.restart \/ AuditInside \/ ApplyFailed)
  BY DEF Applied
<1>3. ~scan.on
  BY <1>1 DEF Known, Late
<1>4. Inside /\ Numbered /\ Written /\ IsQueue(queue)
  BY DEF Settling, Truthful, Known, Reviewing, Counted
<1>5. Fewer(queue', queue)
  BY <1>4, AppliedLeaves
<1>6. Numbered'
  <2>1. NoneStaged
    BY <1>1, <1>5 DEF NoneStaged, Spared, Asked
  <2> QED
    BY <1>4, <2>1, NumberedStays
<1>7. Truthful' /\ tree' = [own |-> tree'.own, complete |-> tree'.complete] /\ disk' = disk
  <2>1. CASE r.needsScan \/ scan.restart \/ AuditInside \/ ApplyFailed
    <3>1. UNCHANGED <<disk, store>> /\ StartScan(r.own, tree.complete)
      BY <1>2, <2>1 DEF AfterMutation
    <3>2. job'.kind # "apply"
      BY <1>1 DEF NoJob
    <3> QED
      BY <1>1, <1>4, <3>1, <3>2, StartScanIsTruthful DEF Known
  <2>2. CASE ~(r.needsScan \/ scan.restart \/ AuditInside \/ ApplyFailed)
    <3>1. /\ tree' = [tree EXCEPT !.own = r.own] /\ UNCHANGED <<disk, scans, cache>>
          /\ IF r.changed /\ setup.store = "writable"
             THEN /\ scan' = [scan EXCEPT !.generation = scan.generation + 1, !.restart = FALSE]
                  /\ latest' = Max({latest, scan.generation + 1})
                  /\ saves' = saves \cup {[generation |-> scan.generation + 1, own |-> r.own,
                                           writing |-> FALSE]}
             ELSE scan' = [scan EXCEPT !.restart = FALSE] /\ UNCHANGED <<latest, saves>>
      BY <1>2, <2>2 DEF AfterMutation
    <3>2. ~scan.restart /\ ~AuditInside /\ ~ApplyFailed /\ ~r.needsScan
      BY <2>2
    <3> QED
      BY <1>1, <1>2, <1>3, <3>1, <3>2, AppliedExactly
  <2> QED
    BY <2>1, <2>2
<1>8. Inside'
  <2>1. ToSet(queue') \subseteq ToSet(queue) /\ disk' \subseteq setup.known
    BY <1>4, <1>5, <1>7 DEF Fewer, Inside
  <2> QED
    BY <1>1, <1>4, <1>7, <2>1, InsideKeeps
<1> QED
  BY <1>6, <1>7, <1>8 DEF Settling

-----------------------------------------------------------------------------
\* Every step from where nothing came late.
LEMMA StepsSettle ==
    ASSUME Known, Settling, SessionNext
    PROVE  Late' \/ Settling'
<1>1. Remember /\ (Pressed \/ Answers)
  BY DEF SessionNext
<1>2. CASE Pressed
  BY <1>1, <1>2, ReviewKeysSettle, PressStageSettles, QuietJobsSettle, ScanBeginsSettles,
     PressStopSettles, PressShellSettles, PressApplySettles DEF Pressed
<1>3. CASE Answers
  <2>1. CASE Exported
    <3>1. Exported /\ (UNCHANGED <<disk, data>> \/ StartScan(tree.own, tree.complete))
      BY <2>1 DEF Exported
    <3> QED
      BY <1>1, <3>1, QuietJobsSettle, ScanBeginsSettles
  <2>2. CASE ScanShows \/ ScanAnswers \/ SaveBegins \/ SaveEnds \/ Staged \/ DryRun
             \/ ShellDone \/ ApplyOne \/ Applied
    BY <1>1, <2>2, ScanShowsSettles, ScanAnswersSettle, SavesSettle, StagedSettles,
       QuietJobsSettle, ScanBeginsSettles, ApplyOneSettles, AppliedSettles
  <2> QED
    BY <1>3, <2>1, <2>2 DEF Answers
<1> QED
  BY <1>1, <1>2, <1>3

\* What settles is the disk's.
LEMMA SettledIsTrue ==
    ASSUME Known, Settling
    PROVE  SettledViewIsTrue
<1> SUFFICES ASSUME Settled, tree.complete, ~history.unsettled, ~history.relinked
             PROVE  /\ tree.own = Measure(disk)
                    /\ setup.store = "writable" /\ ~cache.failed => cache.own = tree.own
  BY DEF SettledViewIsTrue
<1>1. ~scan.on /\ job.kind = "none" /\ pending = {} /\ saves = {}
  BY DEF Settled
<1>2. ~scan.restart
  BY <1>1 DEF Known, Attended
<1>3. Steady /\ Reliable
  BY <1>1, <1>2 DEF Steady, Reliable, ShellOut
<1>4. tree.own = Measure(disk)
  <2>1. tree.own = Sizes(setup, disk)
    BY <1>1, <1>3 DEF Settling, Truthful, Shown
  <2> QED
    BY <2>1, SizesAre
<1>5. setup.store = "writable" /\ ~cache.failed => cache.own = tree.own
  BY <1>1, <1>3 DEF Settling, Truthful, Written
<1> QED
  BY <1>4, <1>5

\* The saves and the queue need the invariants of the sections before.
Traced == Responsive /\ Reviewing /\ CacheInv /\ (Late \/ Settling)

\* So a session begins, and so it goes on: where an answer came late it ends.
LEMMA BeginsTraced == SessionInit => Traced
BY BeginsResponsive, BeginsReviewing, CacheBegins, BeginsSettling DEF Traced

\* Every step keeps all of it, unless an answer comes late.
LEMMA StepsTrace ==
    ASSUME Traced, [SessionNext \/ SessionRests]_sessionVars
    PROVE  Traced'
<1>1. Responsive' /\ Reviewing' /\ CacheInv'
  BY StepsRespond, StepsReview, CacheSteps DEF Traced
<1>2. Late' \/ Settling'
  <2>1. CASE SessionNext
    <3>1. ~Late
      BY <2>1 DEF SessionNext
    <3>2. Known /\ Settling
      BY <3>1 DEF Traced, Known, Responsive
    <3> QED
      BY <2>1, <3>2, StepsSettle
  <2>2. CASE UNCHANGED sessionVars
    <3>1. UNCHANGED <<setup, disk, tree, scan, scans, latest, saves, cache>>
      BY <2>2 DEF sessionVars
    <3>2. UNCHANGED <<view, queue, job, pending, history, left>>
      BY <2>2 DEF sessionVars
    <3>3. Late' = Late
      BY <3>1, <3>2 DEF Late
    <3>4. Inside' = Inside /\ Numbered' = Numbered
      BY <3>1, <3>2 DEF Inside, Operational, Numbered, Budget, UniqueIds, Asked
    <3>5. CurrentScans' = CurrentScans /\ Carrying' = Carrying /\ Written' = Written
      BY <3>1, <3>2 DEF CurrentScans, ShellOut, Carrying, Results, Written, Steady
    <3>6. Shown' = Shown /\ During' = During
      BY <3>1, <3>2 DEF Shown, During, Reliable, Steady, ShellOut, OnlyDeleted, Results
    <3> QED
      BY <3>3, <3>4, <3>5, <3>6 DEF Traced, Settling, Truthful
  <2> QED
    BY <2>1, <2>2 DEF SessionRests
<1> QED
  BY <1>1, <1>2 DEF Traced

\* Once nothing is under way a complete tree is the one a scan would measure
\* now, whatever was deleted, copied, edited or interrupted, and so is what the
\* store keeps of it (deleteNeedsReconciliation, applyCompletedOperations,
\* afterFilesystemMutation, startScan, cacheSaveCoordinator.save).
THEOREM ViewIsTrue == SessionSpec => []SettledViewIsTrue
<1>1. Traced => SettledViewIsTrue
  <2> SUFFICES ASSUME Traced PROVE SettledViewIsTrue
    OBVIOUS
  <2>1. CASE Late
    BY <2>1 DEF Late, Settled, SettledViewIsTrue
  <2>2. CASE ~Late
    BY <2>2, SettledIsTrue DEF Traced, Known, Responsive
  <2> QED
    BY <2>1, <2>2
<1> QED
  BY <1>1, BeginsTraced, StepsTrace, PTL DEF SessionSpec

-----------------------------------------------------------------------------
(***************************************************************************)
(* Types                                                                   *)
(***************************************************************************)

ScreenModes == {"none", "input", "review", "export", "dryRun", "confirm", "applying",
                "result", "panic"}

\* The session shows and scans what it knows of.
DiskKnown == setup \in Setups /\ disk \subseteq setup.known
TreeKnown ==
    /\ tree = [own |-> tree.own, complete |-> tree.complete]
    /\ DOMAIN tree.own \subseteq setup.known /\ tree.complete \in BOOLEAN
ScansFind ==
    \A s \in scans : /\ s.generation # 0
                     /\ s.always \subseteq setup.known /\ s.ever \subseteq setup.known
ScanFlags == scan.on \in BOOLEAN /\ scan.retain \in BOOLEAN /\ scan.restart \in BOOLEAN
FilesKnown == DiskKnown /\ TreeKnown /\ ScansFind /\ ScanFlags
ViewTyped == view.mode \in ScreenModes /\ view.dryRun \in BOOLEAN
QueueKnown == \A op \in ToSet(queue) : op.source \in setup.known
BoundsKept == DOMAIN left = Bounded /\ \A k \in Bounded : left[k] \in 0..setup.may[k]
SessionTyped == FilesKnown /\ ViewTyped /\ QueueKnown /\ BoundsKept

\* So a session begins.
LEMMA BeginsTyped == SessionInit => SessionTyped
<1> SUFFICES ASSUME SessionInit PROVE SessionTyped
  OBVIOUS
<1>1. setup \in Setups /\ disk = setup.items /\ queue = <<>> /\ left = setup.may
  BY DEF SessionInit
<1>2. /\ setup.items \subseteq setup.known /\ setup.cached \subseteq setup.known
      /\ <<>> \in setup.known
      /\ DOMAIN setup.may = Bounded /\ \A k \in Bounded : setup.may[k] \in Nat
  BY <1>1, SessionAssumption
<1>3. \A D : DOMAIN Measure(D) = D
  BY DEF Measure
<1>4. TreeKnown /\ tree.complete \in BOOLEAN
  <2>1. PICK own : \E b \in BOOLEAN :
            tree = [own |-> own, complete |-> b] /\ DOMAIN own \subseteq setup.known
    <3>1. CASE setup.store = "none" \/ setup.cached = {}
      <4>1. tree = [own |-> Measure({<<>>}), complete |-> FALSE]
        BY <3>1 DEF SessionInit
      <4>2. DOMAIN Measure({<<>>}) \subseteq setup.known
        BY <1>2, <1>3
      <4> QED
        BY <4>1, <4>2
    <3>2. CASE ~(setup.store = "none" \/ setup.cached = {})
      <4>1. tree = [own |-> Measure(setup.cached), complete |-> TRUE]
        BY <3>2 DEF SessionInit
      <4>2. DOMAIN Measure(setup.cached) \subseteq setup.known
        BY <1>2, <1>3
      <4> QED
        BY <4>1, <4>2
    <3> QED
      BY <3>1, <3>2
  <2> QED
    BY <2>1 DEF TreeKnown
<1>5. ScanFlags
  <2>1. scan = [on |-> TRUE, retain |-> tree.complete, generation |-> 1, restart |-> FALSE]
    BY DEF SessionInit
  <2> QED
    BY <1>4, <2>1 DEF ScanFlags
<1>6. ScansFind
  <2>1. scans = {[generation |-> 1, canceled |-> FALSE, always |-> disk, ever |-> disk]}
    BY DEF SessionInit
  <2> QED
    BY <1>1, <1>2, <2>1 DEF ScansFind
<1>7. ViewTyped
  <2>1. view.mode = "none" /\ view.dryRun = FALSE
    BY DEF SessionInit
  <2> QED
    BY <2>1 DEF ViewTyped, ScreenModes
<1>8. QueueKnown /\ BoundsKept
  <2>1. ToSet(queue) = {}
    BY <1>1 DEF ToSet
  <2>2. \A k \in Bounded : left[k] \in 0..setup.may[k]
    <3>1. \A n \in Nat : n \in 0..n
      OBVIOUS
    <3> QED
      BY <1>1, <1>2, <3>1
  <2> QED
    BY <1>1, <1>2, <2>1, <2>2 DEF QueueKnown, BoundsKept
<1> QED
  BY <1>1, <1>2, <1>4, <1>5, <1>6, <1>7, <1>8 DEF SessionTyped, FilesKnown, DiskKnown

\* A key or a fault that is bounded is used up by one.
LEMMA SpendBounds ==
    ASSUME BoundsKept, setup \in Setups, setup' = setup, NEW k \in Bounded, Spend(k)
    PROVE  BoundsKept'
<1>1. left' = [left EXCEPT ![k] = left[k] - 1] /\ left[k] > 0 /\ DOMAIN left = Bounded
  BY DEF Spend, BoundsKept
<1>2. ASSUME NEW j \in Bounded
      PROVE  left'[j] \in 0..setup.may[j]
  <2>1. PICK most \in Nat : most = setup.may[j]
    BY SessionAssumption
  <2>2. left[j] \in 0..most
    BY <2>1 DEF BoundsKept
  <2>3. left'[j] = IF j = k THEN left[j] - 1 ELSE left[j]
    BY <1>1
  <2> QED
    BY <1>1, <2>1, <2>2, <2>3
<1> QED
  BY <1>1, <1>2 DEF BoundsKept

\* Every step uses up at most one of them.
LEMMA StepsSpend ==
    ASSUME Known, Settling, Pressed \/ Answers
    PROVE  UNCHANGED setup /\ (UNCHANGED left \/ \E k \in Bounded : Spend(k))
<1>1. \A k \in {"progress", "fault", "refresh", "stop", "review", "edit", "resize", "input",
                "stage", "dryRun", "export", "shell", "apply", "cancel"} : k \in Bounded
  BY DEF Bounded
<1>2. CASE Pressed
  BY <1>1, <1>2 DEF Pressed, PressRefresh, PressStop, PressReview, PressMove, PressRemove,
     PressReorder, PressDiscard, PressClose, PressEnter, Resize, PressInput, PressStage,
     PressDryRun, PressExport, PressSave, PressShell, PressApply, PressCancel, ReviewOnly
<1>3. CASE ApplyOne
  <2>1. Spared
    <3>1. Operational(setup, NextOp)
      BY <1>3, NextIs DEF ApplyOne, Known, Reviewing, Counted
    <3> QED
      BY <1>3, <3>1, ApplyOneDoes DEF Settling
  <2> QED
    BY <1>3, <2>1 DEF Spared, ApplyOne
<1>4. CASE ScanAnswers
  BY <1>1, <1>4 DEF ScanAnswers, ScanCompletes, ScanFallsShort, ScanFails
<1>5. CASE Answers /\ ~ApplyOne /\ ~ScanAnswers
  BY <1>1, <1>5 DEF Answers, ScanShows, SaveBegins, SaveEnds, Staged, DryRun, Exported,
     ShellDone, Applied
<1> QED
  BY <1>2, <1>3, <1>4, <1>5

\* What is queued was queued before, or is staged.
LEMMA StepsQueue ==
    ASSUME Known, Settling, Pressed \/ Answers
    PROVE  \A op \in ToSet(queue') : op \in ToSet(queue) \/ Operational(setup, op)
<1>1. IsQueue(queue) /\ setup \in Setups
  BY DEF Known, Reviewing, Counted
<1>2. CASE Pressed
  <2>1. CASE UNCHANGED queue
    BY <2>1
  <2>2. CASE ~UNCHANGED queue
    <3>1. PressReview \/ PressMove \/ PressRemove \/ PressReorder \/ PressDiscard
          \/ PressClose \/ PressEnter \/ Resize \/ PressInput \/ PressExport
      BY <1>2, <2>2 DEF Pressed, PressRefresh, PressStop, PressStage, PressDryRun, PressSave,
         PressShell, PressApply, PressCancel
    <3> QED
      BY <3>1, ReviewKeysTake DEF Fewer
  <2> QED
    BY <2>1, <2>2
<1>3. CASE Staged
  <2>1. PICK ask \in pending : /\ ask.kind = "stage"
                               /\ \/ UNCHANGED queue
                                  \/ queue' = Collapsed(queue \o StagedBy(ask))
    BY <1>3 DEF Staged
  <2>2. CASE UNCHANGED queue
    BY <2>2
  <2>3. CASE queue' = Collapsed(queue \o StagedBy(ask))
    <3>1. ask.what \in setup.stagings
      BY <2>1 DEF Known, Reviewing, Counted
    <3>2. PICK r : r = StagedBy(ask)
      OBVIOUS
    <3>3. IsQueue(r) /\ UniqueIds(r) /\ \A op \in ToSet(r) : Operational(setup, op) /\ op.id[1] = ask.id
      BY <1>1, <3>1, <3>2, StagedAre
    <3>4. PICK c : c = queue \o r
      OBVIOUS
    <3>5. IsQueue(c)
      BY <1>1, <3>3, <3>4, QueueGrown
    <3>6. ToSet(c) \subseteq ToSet(queue) \cup ToSet(r)
      <4>1. UniqueIds(queue) /\ \A op \in ToSet(queue) : op.id[1] # ask.id
        BY <2>1 DEF Settling, Numbered, Asked
      <4>2. \A a \in ToSet(queue), b \in ToSet(r) : a.id # b.id
        BY <3>3, <4>1
      <4> QED
        BY <1>1, <3>3, <3>4, <4>1, <4>2, Joined
    <3>7. ToSet(queue') \subseteq ToSet(c)
      BY <2>3, <3>2, <3>4, <3>5, FewerCollapsed DEF Fewer
    <3> QED
      BY <3>3, <3>6, <3>7
  <2> QED
    BY <2>1, <2>2, <2>3
<1>4. CASE Applied
  <2>1. CASE queue' = <<>>
    BY <2>1, FewerTrivially DEF Fewer
  <2>2. CASE queue' # <<>>
    <3>1. PICK keep \in SUBSET DOMAIN queue : queue' = AtPositions(queue, keep)
      BY <1>4, <2>2 DEF Applied
    <3> QED
      BY <1>1, <3>1, FewerPositions DEF Fewer
  <2> QED
    BY <2>1, <2>2
<1>5. CASE Answers /\ ~Staged /\ ~Applied
  BY <1>5 DEF Answers, ScanShows, ScanAnswers, SaveBegins, SaveEnds, DryRun, Exported,
     ShellDone, ApplyOne
<1> QED
  BY <1>2, <1>3, <1>4, <1>5

\* The scans that are canceled find nothing any more.
LEMMA CanceledFind ==
    ASSUME ScansKnown, ScansFind, NEW c \in Canceled(scans)
    PROVE  c.generation # 0 /\ c.always \subseteq setup.known /\ c.ever \subseteq setup.known
<1>1. PICK s \in scans : c = [s EXCEPT !.canceled = TRUE, !.always = {}, !.ever = {}]
  BY DEF Canceled
<1>2. s = RunningRecord(s) /\ s.generation # 0
  BY DEF ScansKnown, ScansFind
<1>3. c.generation = s.generation /\ c.always = {} /\ c.ever = {}
  BY <1>1, <1>2 DEF RunningRecord
<1> QED
  BY <1>2, <1>3

\* startScan: the new scan finds what is there.
LEMMA StartScanFinds ==
    ASSUME ScansKnown, ScansFind, DiskKnown', UNCHANGED setup,
           NEW own, DOMAIN own \subseteq setup.known, NEW complete \in BOOLEAN,
           StartScan(own, complete)
    PROVE  FilesKnown'
<1> DEFINE new == [generation |-> scan.generation + 1, canceled |-> FALSE,
                   always |-> disk', ever |-> disk']
<1>1. /\ scans' = Canceled(scans) \cup {new}
      /\ scan' = [on |-> TRUE, retain |-> complete, generation |-> scan.generation + 1,
                  restart |-> FALSE]
      /\ tree' = [own |-> own, complete |-> complete]
  BY DEF StartScan
<1>2. /\ new.generation = scan.generation + 1
      /\ new.always \subseteq setup'.known /\ new.ever \subseteq setup'.known
  BY DEF DiskKnown
<1> HIDE DEF new
<1>3. new.generation # 0
  BY <1>2 DEF ScansKnown
<1>4. ScansFind'
  BY <1>1, <1>2, <1>3, CanceledFind DEF ScansFind
<1>5. TreeKnown'
  BY <1>1 DEF TreeKnown
<1>6. ScanFlags'
  BY <1>1 DEF ScanFlags
<1> QED
  BY <1>4, <1>5, <1>6 DEF FilesKnown

\* Dropping a scan leaves the others.
LEMMA DropScanFinds ==
    ASSUME ScansKnown, FilesKnown, UNCHANGED <<setup, disk, tree>>, NEW b \in BOOLEAN, DropScan(b)
    PROVE  FilesKnown'
<1>1. /\ scan' = [on |-> FALSE, retain |-> FALSE, generation |-> scan.generation + 1,
                  restart |-> b]
      /\ scans' = Canceled(scans)
  BY DEF DropScan
<1>2. ScansFind'
  BY <1>1, CanceledFind DEF ScansFind, FilesKnown
<1>3. ScanFlags'
  BY <1>1 DEF ScanFlags
<1> QED
  BY <1>2, <1>3 DEF FilesKnown, DiskKnown, TreeKnown

\* What a scan may find of a disk that changes is known.
LEMMA DiskBecomesFinds ==
    ASSUME ScansKnown, FilesKnown, UNCHANGED <<setup, tree, scan>>,
           NEW S \in SUBSET setup.known, DiskBecomes(S)
    PROVE  FilesKnown'
<1> DEFINE f(s) == IF s.canceled THEN s
                   ELSE [s EXCEPT !.always = @ \cap S, !.ever = @ \cup S]
<1>1. scans' = {f(s) : s \in scans} /\ disk' = S
  BY DEF DiskBecomes
<1>2. ASSUME NEW s \in scans
      PROVE  /\ f(s).generation # 0
             /\ f(s).always \subseteq setup.known /\ f(s).ever \subseteq setup.known
  <2>1. s = RunningRecord(s)
    BY DEF ScansKnown
  <2>2. /\ s.generation # 0
        /\ s.always \subseteq setup.known /\ s.ever \subseteq setup.known
    BY DEF FilesKnown, ScansFind
  <2>3. CASE ~s.canceled
    <3>1. f(s) = [s EXCEPT !.always = s.always \cap S, !.ever = s.ever \cup S]
      BY <2>3
    <3> HIDE DEF f
    <3>2. /\ f(s).generation = s.generation
          /\ f(s).always = s.always \cap S /\ f(s).ever = s.ever \cup S
      BY <2>1, <3>1 DEF RunningRecord
    <3> QED
      BY <2>2, <3>2
  <2> QED
    BY <2>2, <2>3
<1> HIDE DEF f
<1>3. ScansFind'
  BY <1>1, <1>2 DEF ScansFind
<1> QED
  BY <1>1, <1>3 DEF FilesKnown, DiskKnown, TreeKnown, ScanFlags

\* A field of the scan is set, or its generation counted.
LEMMA FlagsSet ==
    ASSUME ScansKnown, ScanFlags, NEW n,
           \/ UNCHANGED scan
           \/ scan' = [scan EXCEPT !.on = TRUE]
           \/ scan' = [scan EXCEPT !.restart = FALSE]
           \/ scan' = [scan EXCEPT !.on = FALSE, !.retain = FALSE]
           \/ scan' = [scan EXCEPT !.generation = n, !.restart = FALSE]
    PROVE  ScanFlags'
<1>1. scan = ScanRecord
  BY DEF ScansKnown
<1>2. PICK a : a = scan
  OBVIOUS
<1>3. a = [on |-> a.on, retain |-> a.retain, generation |-> a.generation, restart |-> a.restart]
      /\ a.on \in BOOLEAN /\ a.retain \in BOOLEAN /\ a.restart \in BOOLEAN
  BY <1>1, <1>2 DEF ScanRecord, ScanFlags
<1>4. PICK b : b = scan'
  OBVIOUS
<1>5. \/ b = a
      \/ b = [a EXCEPT !.on = TRUE]
      \/ b = [a EXCEPT !.restart = FALSE]
      \/ b = [a EXCEPT !.on = FALSE, !.retain = FALSE]
      \/ b = [a EXCEPT !.generation = n, !.restart = FALSE]
  BY <1>2, <1>4
<1>6. b.on \in BOOLEAN /\ b.retain \in BOOLEAN /\ b.restart \in BOOLEAN
  BY ONLY <1>3, <1>5
<1> QED
  BY <1>4, <1>6 DEF ScanFlags

\* What is measured is what was found.
LEMMA ScanAnswersFind ==
    ASSUME ScansKnown, FilesKnown, ScanShows \/ ScanAnswers
    PROVE  FilesKnown'
<1>1. /\ UNCHANGED <<setup, disk>> /\ DiskKnown /\ ScanFlags /\ TreeKnown /\ ScansFind
      /\ DiskKnown'
  BY DEF DiskKnown, ScanShows, ScanAnswers, FilesKnown
<1>2. \A D : DOMAIN Measure(D) = D
  BY DEF Measure
<1>3. ASSUME NEW D \in SUBSET setup.known, NEW b \in BOOLEAN,
             tree' = [own |-> Measure(D), complete |-> b]
      PROVE  TreeKnown'
  <2>1. DOMAIN Measure(D) \subseteq setup'.known
    BY <1>1, <1>2
  <2> QED
    BY <1>3, <2>1 DEF TreeKnown
<1>4. CASE ScanShows
  <2>1. PICK s \in scans :
          /\ scan' = [scan EXCEPT !.on = TRUE]
          /\ tree' = IF scan.retain THEN tree
                     ELSE [own |-> Measure({p \in s.always : Len(p) <= 1}), complete |-> FALSE]
    BY <1>4 DEF ScanShows
  <2>2. ScanFlags'
    BY <1>1, <2>1, FlagsSet
  <2>3. PICK D : D = {p \in s.always : Len(p) <= 1}
    OBVIOUS
  <2>4. D \subseteq setup.known
    BY <1>1, <2>3 DEF ScansFind
  <2>5. tree' = tree \/ tree' = [own |-> Measure(D), complete |-> FALSE]
    BY <2>1, <2>3
  <2>6. TreeKnown'
    BY <1>1, <1>3, <2>4, <2>5 DEF TreeKnown
  <2>7. ScansFind'
    BY <1>1, <1>4 DEF ScanShows, ScansFind
  <2> QED
    BY <1>1, <2>2, <2>6, <2>7 DEF FilesKnown
<1>5. CASE ScanAnswers
  <2>1. PICK s \in scans :
          /\ scans' = scans \ {s}
          /\ \/ UNCHANGED <<tree, scan>>
             \/ /\ scan' = [scan EXCEPT !.on = FALSE, !.retain = FALSE]
                /\ ScanCompletes(s) \/ ScanFallsShort(s) \/ ScanFails
    BY <1>5 DEF ScanAnswers
  <2>2. ScansFind'
    BY <1>1, <2>1 DEF ScansFind
  <2>3. ScanFlags'
    BY <1>1, <2>1, FlagsSet
  <2>4. s.always \subseteq setup.known /\ s.ever \subseteq setup.known
    BY <1>1 DEF ScansFind
  <2>5. TreeKnown'
    <3>1. CASE ScanCompletes(s)
      <4>1. PICK some \in SUBSET (s.ever \ s.always) :
              tree' = [own |-> Measure(s.always \cup some), complete |-> TRUE]
        BY <3>1 DEF ScanCompletes
      <4>2. PICK D : D = s.always \cup some
        OBVIOUS
      <4> QED
        BY <1>3, <2>4, <4>1, <4>2
    <3>2. CASE ScanFallsShort(s)
      <4>1. PICK D : /\ D \subseteq s.always
                     /\ tree' = [own |-> Measure(D), complete |-> FALSE]
        BY <3>2 DEF ScanFallsShort
      <4> QED
        BY <1>3, <2>4, <4>1
    <3>3. CASE UNCHANGED <<tree, scan>> \/ ScanFails
      <4>1. tree' = tree
        BY <3>3 DEF ScanFails
      <4> QED
        BY <1>1, <4>1 DEF TreeKnown
    <3> QED
      BY <2>1, <3>1, <3>2, <3>3
  <2> QED
    BY <1>1, <2>2, <2>3, <2>5 DEF FilesKnown
<1> QED
  BY <1>4, <1>5

\* Reconciling takes entries from the tree, and adds none.
Taken(w) == DOMAIN w.own \subseteq DOMAIN tree.own
\* Every result keeps that.
LEMMA ReconcileTakes ==
    ASSUME NEW w, w = [own |-> w.own, changed |-> w.changed, needsScan |-> w.needsScan],
           Taken(w), NEW r, NEW x, x = Reconcile(w, r)
    PROVE  x = [own |-> x.own, changed |-> x.changed, needsScan |-> x.needsScan] /\ Taken(x)
<1>1. PICK op : op = OpOf(r.id)
  OBVIOUS
<1>2. PICK own : own = Patched(w.own, op)
  OBVIOUS
<1>3. PICK n : n = (w.needsScan \/ NeedsReconciliation(w.own, op) \/ Front(op.source) \notin disk)
  OBVIOUS
<1>4. \/ x = w \/ x = [w EXCEPT !.needsScan = TRUE]
      \/ x = [own |-> own, changed |-> TRUE, needsScan |-> n]
  BY <1>1, <1>2, <1>3 DEF Reconcile
<1>5. DOMAIN own \subseteq DOMAIN w.own
  <2>1. PICK rest : rest = Restrict(w.own, DOMAIN w.own \ Subtree(DOMAIN w.own, op.source))
    OBVIOUS
  <2>2. DOMAIN rest \subseteq DOMAIN w.own
    BY <2>1 DEF Restrict
  <2>3. own = rest \/ own = [rest EXCEPT ![Front(op.source)] = OwnBytes(disk, Front(op.source))]
    BY <1>2, <2>1 DEF Patched
  <2>4. DOMAIN own = DOMAIN rest
    BY <2>3
  <2> QED
    BY <2>2, <2>4
<1>6. CASE x = w
  BY <1>6
<1>7. CASE x = [w EXCEPT !.needsScan = TRUE]
  BY <1>7 DEF Taken
<1>8. CASE x = [own |-> own, changed |-> TRUE, needsScan |-> n]
  BY <1>5, <1>8 DEF Taken
<1> QED
  BY <1>4, <1>6, <1>7, <1>8

\* So does the whole plan.
LEMMA ReconciledTakes ==
    ASSUME Len(job.results) \in Nat
    PROVE  Taken(Reconciled)
<1>1. PICK n \in Nat : n = Len(job.results)
  OBVIOUS
<1>2. PICK g : IsAfter(g) /\ Reconciled = g[n]
  BY <1>1, ReconciledIs
<1>3. \A i \in 0..n : g[i] = After(g, i)
  BY <1>1, <1>2 DEF IsAfter
<1> DEFINE Fits(w) == /\ w = [own |-> w.own, changed |-> w.changed, needsScan |-> w.needsScan]
                      /\ Taken(w)
           G == {m \in Nat : m <= n => Fits(g[m])}
<1>4. 0 \in G
  <2>1. g[0] = Begun
    BY <1>1, <1>3 DEF After
  <2>2. Fits(Begun)
    BY DEF Begun, Taken
  <2> QED
    BY <2>1, <2>2
<1>5. ASSUME NEW m \in Nat, m \in G
      PROVE  m + 1 \in G
  <2> SUFFICES ASSUME m + 1 <= n PROVE Fits(g[m + 1])
    OBVIOUS
  <2>1. Fits(g[m])
    BY <1>1, <1>5
  <2>2. g[m + 1] = Reconcile(g[m], job.results[m + 1])
    <3>1. m + 1 \in 0..n /\ m + 1 # 0 /\ (m + 1) - 1 = m
      BY <1>1
    <3> QED
      BY <1>3, <3>1 DEF After
  <2> QED
    BY <2>1, <2>2, ReconcileTakes
<1>6. Nat \subseteq G
  <2> HIDE DEF G
  <2> QED
    BY <1>4, <1>5, Induction
<1>7. Fits(g[n])
  BY <1>1, <1>6
<1> QED
  BY <1>2, <1>7

\* After a plan the tree has what is left of it.
LEMMA AfterMutationFinds ==
    ASSUME ScansKnown, FilesKnown, UNCHANGED setup,
           NEW own, DOMAIN own \subseteq setup.known, NEW changed, NEW needsScan,
           AfterMutation(own, changed, needsScan)
    PROVE  FilesKnown'
<1>1. /\ DiskKnown /\ TreeKnown /\ ScansFind /\ ScanFlags
      /\ tree = [own |-> tree.own, complete |-> tree.complete] /\ tree.complete \in BOOLEAN
  BY DEF FilesKnown, TreeKnown
<1>2. UNCHANGED disk
  BY DEF AfterMutation
<1>3. DiskKnown'
  BY <1>1, <1>2 DEF DiskKnown
<1>4. CASE needsScan
  <2>1. StartScan(own, tree.complete)
    BY <1>4 DEF AfterMutation
  <2> QED
    BY <1>1, <1>3, <2>1, StartScanFinds
<1>5. CASE ~needsScan
  <2>1. /\ tree' = [tree EXCEPT !.own = own] /\ UNCHANGED scans
        /\ \/ scan' = [scan EXCEPT !.generation = scan.generation + 1, !.restart = FALSE]
           \/ scan' = [scan EXCEPT !.restart = FALSE]
    BY <1>5 DEF AfterMutation
  <2>2. tree' = [own |-> own, complete |-> tree.complete]
    BY <1>1, <2>1
  <2>3. TreeKnown'
    BY <1>1, <2>2 DEF TreeKnown
  <2>4. ScansFind'
    BY <1>1, <2>1 DEF ScansFind
  <2>5. ScanFlags'
    BY <1>1, <2>1, FlagsSet
  <2> QED
    BY <1>3, <2>3, <2>4, <2>5 DEF FilesKnown
<1> QED
  BY <1>4, <1>5

\* The keys: what is shown and scanned stays known.
LEMMA KeysFind ==
    ASSUME Known, Settling, FilesKnown, Pressed
    PROVE  FilesKnown'
<1>1. /\ DiskKnown /\ TreeKnown /\ ScansFind /\ ScanFlags /\ ScansKnown
      /\ DOMAIN tree.own \subseteq setup.known /\ tree.complete \in BOOLEAN
      /\ scan.restart \in BOOLEAN
  BY DEF FilesKnown, TreeKnown, ScanFlags, Known
<1>2. CASE PressRefresh
  <2>1. UNCHANGED <<setup, disk>> /\ StartScan(tree.own, tree.complete)
    BY <1>2 DEF PressRefresh, Refresh
  <2>2. DiskKnown'
    BY <1>1, <2>1 DEF DiskKnown
  <2> QED
    BY <1>1, <2>1, <2>2, StartScanFinds
<1>3. CASE PressStop
  <2>1. UNCHANGED <<setup, disk, tree>> /\ DropScan(scan.restart)
    BY <1>3 DEF PressStop
  <2> QED
    BY <1>1, <2>1, DropScanFinds
<1>4. CASE PressShell
  <2>1. UNCHANGED <<setup, tree, scan>>
    BY <1>4 DEF PressShell
  <2>2. PICK p \in setup.loose :
          DiskBecomes(IF p \in disk THEN disk \ Subtree(disk, p) ELSE disk \cup {p})
    BY <1>4 DEF PressShell
  <2>3. disk \subseteq setup.known /\ p \in setup.known
    BY <1>1, SessionAssumption DEF DiskKnown
  <2>4. PICK S : DiskBecomes(S) /\ S \subseteq setup.known
    BY <2>2, <2>3
  <2> QED
    BY <1>1, <2>1, <2>4, DiskBecomesFinds
<1>5. CASE PressApply
  <2>1. /\ UNCHANGED <<setup, disk, tree>>
        /\ DropScan(TRUE) \/ (scan' = [scan EXCEPT !.restart = FALSE] /\ UNCHANGED scans)
    BY <1>5 DEF PressApply
  <2>2. CASE DropScan(TRUE)
    BY <1>1, <2>1, <2>2, DropScanFinds
  <2>3. CASE scan' = [scan EXCEPT !.restart = FALSE] /\ UNCHANGED scans
    <3>1. ScanFlags'
      BY <1>1, <2>3, FlagsSet
    <3> QED
      BY <1>1, <2>1, <2>3, <3>1 DEF FilesKnown, DiskKnown, TreeKnown, ScansFind
  <2> QED
    BY <2>1, <2>2, <2>3
<1>6. CASE UNCHANGED <<setup, disk, tree, scan, scans>>
  BY <1>1, <1>6 DEF FilesKnown, DiskKnown, TreeKnown, ScansFind, ScanFlags
<1> QED
  BY <1>2, <1>3, <1>4, <1>5, <1>6 DEF Pressed, PressReview, PressMove, PressRemove,
     PressReorder, PressDiscard, PressClose, PressEnter, Resize, PressInput, PressStage,
     PressDryRun, PressExport, PressSave, PressCancel, ReviewOnly, data

\* The answers: so it does.
LEMMA AnswersFind ==
    ASSUME Known, Settling, FilesKnown, Answers
    PROVE  FilesKnown'
<1>1. /\ DiskKnown /\ TreeKnown /\ ScansFind /\ ScanFlags /\ ScansKnown
      /\ DOMAIN tree.own \subseteq setup.known /\ tree.complete \in BOOLEAN
  BY DEF FilesKnown, TreeKnown, Known
<1>2. CASE ScanShows \/ ScanAnswers
  BY <1>1, <1>2, ScanAnswersFind
<1>3. CASE ShellDone
  <2>1. UNCHANGED <<setup, disk>> /\ StartScan(tree.own, tree.complete)
    BY <1>3 DEF ShellDone, Refresh
  <2>2. DiskKnown'
    BY <1>1, <2>1 DEF DiskKnown
  <2> QED
    BY <1>1, <2>1, <2>2, StartScanFinds
<1>4. CASE Exported
  <2>1. UNCHANGED setup
    BY <1>4 DEF Exported
  <2>2. CASE disk' = disk \cup {setup.planPath} /\ StartScan(tree.own, tree.complete)
    <3>1. DiskKnown'
      BY <1>1, <2>1, <2>2, SessionAssumption DEF DiskKnown
    <3> QED
      BY <1>1, <2>1, <2>2, <3>1, StartScanFinds
  <2>3. CASE UNCHANGED <<disk, data>>
    BY <1>1, <2>1, <2>3 DEF FilesKnown, DiskKnown, TreeKnown, ScansFind, ScanFlags, data
  <2> QED
    BY <1>4, <2>2, <2>3 DEF Exported
<1>5. CASE ApplyOne
  <2>1. UNCHANGED <<setup, tree, scan>>
    BY <1>5 DEF ApplyOne
  <2>2. Operational(setup, NextOp) /\ Inside
    BY <1>5, NextIs DEF ApplyOne, Known, Reviewing, Counted, Settling
  <2>3. PICK status, S : OneDone(status, S)
    BY <1>5, <2>2, ApplyOneDoes
  <2>4. DiskBecomes(S) /\ S \subseteq setup.known
    BY <2>3 DEF OneDone
  <2> QED
    BY <1>1, <2>1, <2>4, DiskBecomesFinds
<1>6. CASE Applied
  <2>1. UNCHANGED setup /\ job.kind = "apply"
    BY <1>6 DEF Applied
  <2>2. Len(job.results) \in Nat
    BY <2>1, QueueLength DEF Settling, Truthful, Carrying
  <2>3. PICK needsScan : AfterMutation(Reconciled.own, Reconciled.changed, needsScan)
    BY <1>6 DEF Applied
  <2>4. DOMAIN Reconciled.own \subseteq setup.known
    BY <1>1, <2>2, ReconciledTakes DEF Taken
  <2> QED
    BY <1>1, <2>1, <2>3, <2>4, AfterMutationFinds
<1>7. CASE UNCHANGED <<setup, disk, tree, scan, scans>>
  BY <1>1, <1>7 DEF FilesKnown, DiskKnown, TreeKnown, ScansFind, ScanFlags
<1> QED
  BY <1>2, <1>3, <1>4, <1>5, <1>6, <1>7 DEF Answers, SaveBegins, SaveEnds, Staged, DryRun, data

\* Moving in the review leaves the mark of the dry run, and starting it again
\* takes it away.
LEMMA ReviewMarks ==
    ASSUME NEW v, v = ViewRecord(v), v.dryRun \in BOOLEAN, NEW q,
           NEW w, w \in {ResetReview(v, q), ClampReview(v, q)}
    PROVE  w.dryRun \in BOOLEAN
<1>1. CASE w = ResetReview(v, q)
  <2>1. PICK seen : w = [v EXCEPT !.cursor = 0, !.offset = 0, !.seen = seen, !.dryRun = FALSE]
    BY <1>1 DEF ResetReview
  <2> QED
    BY <2>1 DEF ViewRecord
<1>2. CASE w = ClampReview(v, q)
  <2>1. \E c, o, s : w = [v EXCEPT !.cursor = c, !.offset = o, !.seen = s]
    BY <1>2 DEF ClampReview
  <2>2. PICK c, o, s : w = [v EXCEPT !.cursor = c, !.offset = o, !.seen = s]
    BY <2>1
  <2>3. w.dryRun = v.dryRun
    BY <2>2 DEF ViewRecord
  <2> QED
    BY <2>3
<1> QED
  BY <1>1, <1>2

\* A screen of one of the modes.
IsScreen(w) == w = ViewRecord(w) /\ w.mode \in ScreenModes /\ w.dryRun \in BOOLEAN

\* The review moves on such a screen, or starts again.
LEMMA ReviewIsScreen ==
    ASSUME NEW v, IsScreen(v), NEW q, NEW w, w \in {ResetReview(v, q), ClampReview(v, q)}
    PROVE  IsScreen(w)
<1>1. v = ViewRecord(v) /\ v.mode \in ScreenModes /\ v.dryRun \in BOOLEAN
  BY DEF IsScreen
<1>2. w = ViewRecord(w) /\ w.mode = v.mode /\ w.dryRun \in BOOLEAN
  BY <1>1, ReviewKeepsMode, ReviewMarks
<1> QED
  BY <1>1, <1>2 DEF IsScreen

\* The cursor or the height is set, or the mode.
LEMMA SetIsScreen ==
    ASSUME NEW v, IsScreen(v), NEW x, NEW m \in ScreenModes, NEW b \in BOOLEAN, NEW w,
           \/ w = [v EXCEPT !.cursor = x]
           \/ w = [v EXCEPT !.height = x]
           \/ w = [v EXCEPT !.mode = m]
           \/ w = [v EXCEPT !.dryRun = b]
    PROVE  IsScreen(w)
<1>1. /\ v = [mode |-> v.mode, height |-> v.height, cursor |-> v.cursor,
              offset |-> v.offset, seen |-> v.seen, dryRun |-> v.dryRun]
      /\ v.mode \in ScreenModes /\ v.dryRun \in BOOLEAN
  BY DEF IsScreen, ViewRecord
<1>2. CASE w = [v EXCEPT !.cursor = x]
  BY <1>1, <1>2 DEF IsScreen, ViewRecord
<1>3. CASE w = [v EXCEPT !.height = x]
  BY <1>1, <1>3 DEF IsScreen, ViewRecord
<1>4. CASE w = [v EXCEPT !.mode = m]
  BY <1>1, <1>4 DEF IsScreen, ViewRecord
<1>5. CASE w = [v EXCEPT !.dryRun = b]
  BY <1>1, <1>5 DEF IsScreen, ViewRecord
<1> QED
  BY <1>2, <1>3, <1>4, <1>5

\* Every step shows a screen of one of the modes.
LEMMA StepsShow ==
    ASSUME Screens, ViewTyped, Pressed \/ Answers
    PROVE  ViewTyped'
<1>1. IsScreen(view) /\ view.mode \in ScreenModes
  BY DEF Screens, ViewTyped, IsScreen
<1>2. ASSUME NEW m \in ScreenModes
      PROVE  IsScreen(Mode(m))
  <2>1. PICK w : w = [view EXCEPT !.mode = m]
    OBVIOUS
  <2>2. IsScreen(w)
    BY <1>1, <2>1, SetIsScreen
  <2> QED
    BY <2>1, <2>2 DEF Mode
<1>3. /\ {"none", "input", "review", "export", "dryRun", "confirm"} \subseteq ScreenModes
      /\ {"applying", "result", "panic"} \subseteq ScreenModes /\ FALSE \in BOOLEAN
  BY DEF ScreenModes
<1> SUFFICES IsScreen(view')
  BY DEF IsScreen, ViewTyped
<1>4. CASE UNCHANGED view
  BY <1>1, <1>4
<1>5. CASE \E m \in ScreenModes : view' = Mode(m)
  BY <1>2, <1>5
<1>6. CASE PressReview \/ PressRemove \/ PressReorder \/ Staged
  <2>1. \/ UNCHANGED view \/ view' \in {Mode("panic"), Mode("review")}
        \/ \E q : view' = ResetReview(Mode("review"), q) \/ view' = ResetReview(view, q)
    BY <1>6 DEF PressReview, PressRemove, PressReorder, Staged
  <2>2. CASE \E q : view' = ResetReview(Mode("review"), q) \/ view' = ResetReview(view, q)
    <3>1. IsScreen(Mode("review"))
      BY <1>2, <1>3
    <3>2. PICK q : view' = ResetReview(Mode("review"), q) \/ view' = ResetReview(view, q)
      BY <2>2
    <3> QED
      BY <1>1, <3>1, <3>2, ReviewIsScreen
  <2> QED
    BY <1>2, <1>3, <1>4, <2>1, <2>2
<1>7. CASE PressMove \/ PressEnter
  <2>1. \/ \E c : view' = ClampReview([view EXCEPT !.cursor = c], queue)
        \/ view' = ResetReview(view, queue') \/ view' = Mode("confirm")
    BY <1>7 DEF PressMove, PressEnter
  <2>2. CASE \E c : view' = ClampReview([view EXCEPT !.cursor = c], queue)
    <3>1. PICK c : view' = ClampReview([view EXCEPT !.cursor = c], queue)
      BY <2>2
    <3>2. PICK w : w = [view EXCEPT !.cursor = c]
      OBVIOUS
    <3>3. IsScreen(w)
      BY <1>1, <1>3, <3>2, SetIsScreen
    <3> QED
      BY <3>1, <3>2, <3>3, ReviewIsScreen
  <2>3. CASE view' = ResetReview(view, queue')
    BY <1>1, <2>3, ReviewIsScreen
  <2> QED
    BY <1>2, <1>3, <2>1, <2>2, <2>3
<1>8. CASE Resize
  <2>1. PICK h : \/ view' = ClampReview([view EXCEPT !.height = h], queue)
                 \/ view' = [view EXCEPT !.height = h]
    BY <1>8 DEF Resize
  <2>2. PICK w : w = [view EXCEPT !.height = h]
    OBVIOUS
  <2>3. IsScreen(w)
    BY <1>1, <1>3, <2>2, SetIsScreen
  <2> QED
    BY <2>1, <2>2, <2>3, ReviewIsScreen
<1>9. CASE DryRun
  <2>1. PICK m : m = Mode("review")
    OBVIOUS
  <2>2. \E b \in BOOLEAN : view' = [m EXCEPT !.dryRun = b]
    <3>1. \A p : (~job.canceled /\ p /\ Len(job.plan) = Len(queue)) \in BOOLEAN
      OBVIOUS
    <3> QED
      BY <1>9, <2>1, <3>1 DEF DryRun
  <2>3. PICK b \in BOOLEAN : view' = [m EXCEPT !.dryRun = b]
    BY <2>2
  <2>4. IsScreen(m)
    BY <1>2, <1>3, <2>1
  <2> QED
    BY <1>1, <2>3, <2>4, SetIsScreen
<1>10. CASE PressDiscard \/ PressClose \/ PressInput \/ PressExport \/ PressDryRun \/ PressApply
            \/ Exported \/ Applied
  <2>1. \E m \in {"none", "review", "input", "export", "dryRun", "applying", "result"} :
            view' = Mode(m)
    BY <1>10 DEF PressDiscard, PressClose, PressInput, PressExport, PressDryRun, PressApply,
       Exported, Applied
  <2> QED
    BY <1>2, <1>3, <2>1
<1> QED
  BY <1>4, <1>6, <1>7, <1>8, <1>9, <1>10 DEF Pressed, Answers, PressRefresh, PressStop,
     PressStage, PressSave, PressShell, PressCancel, ScanShows, ScanAnswers, SaveBegins,
     SaveEnds, ShellDone, ApplyOne

\* Every step keeps the types.
LEMMA StepsTyped ==
    ASSUME Traced, SessionTyped, [SessionNext \/ SessionRests]_sessionVars
    PROVE  SessionTyped'
<1>1. CASE UNCHANGED sessionVars
  BY <1>1 DEF SessionTyped, FilesKnown, DiskKnown, TreeKnown, ScansFind, ScanFlags, ViewTyped,
     QueueKnown, BoundsKept, sessionVars, data, store
<1>2. CASE SessionNext
  <2>1. Known /\ Settling /\ (Pressed \/ Answers)
    BY <1>2 DEF SessionNext, Traced, Responsive, Known
  <2>2. FilesKnown'
    BY <2>1, KeysFind, AnswersFind DEF SessionTyped
  <2>3. ViewTyped'
    BY <2>1, StepsShow DEF SessionTyped, Known
  <2>4. setup' = setup /\ setup \in Setups /\ (UNCHANGED left \/ \E k \in Bounded : Spend(k))
    BY <2>1, StepsSpend DEF Known, Reviewing, Counted
  <2>5. QueueKnown'
    BY <2>1, <2>4, StepsQueue DEF QueueKnown, SessionTyped, Operational
  <2>6. BoundsKept'
    <3>1. CASE UNCHANGED left
      BY <2>4, <3>1 DEF BoundsKept, SessionTyped
    <3>2. CASE \E k \in Bounded : Spend(k)
      BY <2>4, <3>2, SpendBounds DEF SessionTyped
    <3> QED
      BY <2>4, <3>1, <3>2
  <2> QED
    BY <2>2, <2>3, <2>5, <2>6 DEF SessionTyped
<1> QED
  BY <1>1, <1>2 DEF SessionRests

\* With what is traced these are the types of a session.
LEMMA TypedIs == Traced /\ SessionTyped => SessionTypeOK
<1> SUFFICES ASSUME Traced, SessionTyped PROVE SessionTypeOK
  OBVIOUS
<1>1. /\ setup \in Setups /\ disk \subseteq setup.known
      /\ DOMAIN tree.own \subseteq setup.known /\ tree.complete \in BOOLEAN
      /\ scan.on \in BOOLEAN /\ scan.retain \in BOOLEAN /\ scan.restart \in BOOLEAN
      /\ \A s \in scans : s.generation # 0
      /\ view.mode \in ScreenModes /\ view.dryRun \in BOOLEAN
  BY DEF SessionTyped, FilesKnown, DiskKnown, TreeKnown, ScansFind, ScanFlags, ViewTyped
<1>2. /\ scan.generation \in Nat \ {0} /\ latest \in Nat /\ latest <= scan.generation
      /\ \A v \in saves : v.generation \in Nat \ {0} /\ v.generation <= latest
  BY DEF Traced, CacheInv, GenerationsGrow, SavesAccepted
<1>3. \A s \in scans : s.generation \in Nat /\ s.generation <= scan.generation
  BY DEF Traced, Responsive, ScansKnown
<1>4. /\ IsQueue(queue) /\ view.height \in setup.heights
      /\ view.cursor \in Nat /\ view.offset \in Nat /\ view.seen \in Nat
  BY DEF Traced, Reviewing, Counted
<1>5. latest \in 0..scan.generation
  BY <1>2
<1>6. \A s \in scans : s.generation \in 1..scan.generation
  BY <1>1, <1>2, <1>3
<1>7. \A v \in saves : v.generation \in 1..latest
  BY <1>2
<1>8. \A i \in DOMAIN queue : queue[i].source \in setup.known
  <2>1. \A i \in DOMAIN queue : queue[i] \in ToSet(queue)
    BY DEF ToSet
  <2> QED
    BY <2>1 DEF SessionTyped, QueueKnown
<1>9. \A k \in DOMAIN left : left[k] \in 0..setup.may[k]
  BY DEF SessionTyped, BoundsKept
<1>10. job.kind \in {"none", "apply", "dryRun"}
  BY DEF Traced, Responsive, Screens
<1> QED
  BY <1>1, <1>2, <1>4, <1>5, <1>6, <1>7, <1>8, <1>9, <1>10 DEF SessionTypeOK, ScreenModes

\* The session stays within its types, whatever keys and answers come, also
\* where an answer came late: it shows, scans, exports and queues only paths it
\* can know of, every scan and every save under way is of a generation that was
\* begun or accepted (startScan, cacheSaves), and no screen is one of a mode that
\* Update does not handle.
THEOREM SessionTypes == SessionSpec => []SessionTypeOK
<1>1. SessionInit => Traced /\ SessionTyped
  BY BeginsTraced, BeginsTyped
<1>2. Traced /\ SessionTyped /\ [SessionNext \/ SessionRests]_sessionVars
      => (Traced /\ SessionTyped)'
  BY StepsTrace, StepsTyped
<1> QED
  BY <1>1, <1>2, TypedIs, PTL DEF SessionSpec

-----------------------------------------------------------------------------
(***************************************************************************)
(* Sums                                                                    *)
(***************************************************************************)

\* The sum of the weights of some elements.
SumOver(w, S) == MapThenSumSet(LAMBDA x : w[x], S)

\* What the sum takes first, and the function it is defined by.
Pick(s) == CHOOSE x \in s : TRUE
IsSum(g, w, S) ==
    g = [s \in SUBSET S |-> IF s = {} THEN 0 ELSE w[Pick(s)] + g[s \ {Pick(s)}]]

\* A set without the element that is taken first is smaller by one.
LEMMA Smaller ==
    ASSUME NEW s, IsFiniteSet(s), s # {}
    PROVE  /\ Pick(s) \in s /\ IsFiniteSet(s \ {Pick(s)})
           /\ Cardinality(s) \in Nat \ {0}
           /\ Cardinality(s \ {Pick(s)}) = Cardinality(s) - 1
<1>1. Pick(s) \in s
  BY DEF Pick
<1>2. Cardinality(s) \in Nat /\ Cardinality(s) # 0
  BY FS_CardinalityType, FS_EmptySet
<1> QED
  BY <1>1, <1>2, FS_RemoveElement

\* The parts of S of at most n elements.
UpTo(S, n) == {s \in SUBSET S : Cardinality(s) <= n}

\* There is such a function, by the number of elements.
LEMMA SumExists ==
    ASSUME NEW S, IsFiniteSet(S), NEW w, \A x \in S : w[x] \in Int
    PROVE  \E g \in [SUBSET S -> Int] : IsSum(g, w, S)
<1> DEFINE Body(g, s) == IF s = {} THEN 0 ELSE w[Pick(s)] + g[s \ {Pick(s)}]
           G == {n \in Nat : \E g \in [SUBSET S -> Int] : \A s \in UpTo(S, n) : g[s] = Body(g, s)}
<1>0. \A s \in SUBSET S : IsFiniteSet(s) /\ Cardinality(s) \in Nat
  BY FS_Subset, FS_CardinalityType
<1>1. \A s \in SUBSET S : s # {} =>
        /\ Pick(s) \in s /\ s \ {Pick(s)} \in SUBSET S
        /\ Cardinality(s) \in Nat \ {0} /\ Cardinality(s \ {Pick(s)}) = Cardinality(s) - 1
  BY <1>0, Smaller
<1>2. 0 \in G
  <2>1. \A s \in UpTo(S, 0) : s = {}
    BY <1>0, FS_EmptySet DEF UpTo
  <2>2. [s \in SUBSET S |-> 0] \in [SUBSET S -> Int]
    OBVIOUS
  <2> QED
    BY <2>1, <2>2 DEF UpTo
<1>3. ASSUME NEW n \in Nat, n \in G
      PROVE  n + 1 \in G
  <2>1. PICK g \in [SUBSET S -> Int] : \A s \in UpTo(S, n) : g[s] = Body(g, s)
    BY <1>3
  <2> DEFINE h == [s \in SUBSET S |-> IF s \in UpTo(S, n) THEN g[s] ELSE Body(g, s)]
  <2>2. ASSUME NEW s \in SUBSET S
        PROVE  Body(g, s) \in Int
    <3>1. CASE s # {}
      <4>1. w[Pick(s)] \in Int /\ g[s \ {Pick(s)}] \in Int
        BY <1>1, <3>1
      <4> QED
        BY <4>1
    <3> QED
      BY <3>1
  <2>3. h \in [SUBSET S -> Int]
    BY <2>2
  <2>4. ASSUME NEW s \in UpTo(S, n + 1)
        PROVE  h[s] = Body(h, s)
    <3>1. s \in SUBSET S
      BY DEF UpTo
    <3>2. h[s] = Body(g, s)
      BY <2>1, <3>1
    <3>3. s # {} => s \ {Pick(s)} \in UpTo(S, n)
      BY <1>1, <3>1 DEF UpTo
    <3>4. s # {} => h[s \ {Pick(s)}] = g[s \ {Pick(s)}]
      BY <1>1, <3>1, <3>3
    <3> QED
      BY <3>2, <3>4
  <2>5. \E f \in [SUBSET S -> Int] : \A s \in UpTo(S, n + 1) : f[s] = Body(f, s)
    <3> HIDE DEF h
    <3> QED
      BY <2>3, <2>4
  <2>6. n + 1 \in Nat
    OBVIOUS
  <2> HIDE DEF Body, h
  <2> QED
    BY <2>5, <2>6
<1>4. Cardinality(S) \in G
  <2> HIDE DEF G
  <2>1. Nat \subseteq G
    BY <1>2, <1>3, Induction
  <2> QED
    BY <1>0, <2>1
<1>5. PICK g \in [SUBSET S -> Int] : \A s \in UpTo(S, Cardinality(S)) : g[s] = Body(g, s)
  BY <1>4
<1>6. \A s \in SUBSET S : s \in UpTo(S, Cardinality(S))
  BY FS_Subset DEF UpTo
<1>7. g = [s \in SUBSET S |-> Body(g, s)]
  BY <1>5, <1>6
<1> QED
  BY <1>7 DEF IsSum

\* The same sum is reached from every set around.
LEMMA SumUnique ==
    ASSUME NEW S, IsFiniteSet(S), NEW T \in SUBSET S, NEW w,
           NEW g, IsSum(g, w, S), NEW h, IsSum(h, w, T)
    PROVE  \A s \in SUBSET T : h[s] = g[s]
<1> DEFINE G == {n \in Nat : \A s \in UpTo(T, n) : h[s] = g[s]}
<1>0. \A s \in SUBSET T : s \in SUBSET S /\ IsFiniteSet(s) /\ Cardinality(s) \in Nat
  BY FS_Subset, FS_CardinalityType
<1>1. \A s \in SUBSET T : s # {} =>
        /\ s \ {Pick(s)} \in SUBSET T
        /\ Cardinality(s) \in Nat \ {0} /\ Cardinality(s \ {Pick(s)}) = Cardinality(s) - 1
  BY <1>0, Smaller
<1>2. \A s \in SUBSET T : /\ h[s] = IF s = {} THEN 0 ELSE w[Pick(s)] + h[s \ {Pick(s)}]
                          /\ g[s] = IF s = {} THEN 0 ELSE w[Pick(s)] + g[s \ {Pick(s)}]
  BY <1>0 DEF IsSum
<1>3. 0 \in G
  <2>1. \A s \in UpTo(T, 0) : s \in SUBSET T /\ s = {}
    BY <1>0, FS_EmptySet DEF UpTo
  <2> QED
    BY <1>2, <2>1
<1>4. ASSUME NEW n \in Nat, n \in G
      PROVE  n + 1 \in G
  <2> SUFFICES ASSUME NEW s \in UpTo(T, n + 1) PROVE h[s] = g[s]
    OBVIOUS
  <2>1. s \in SUBSET T
    BY DEF UpTo
  <2>2. CASE s # {}
    <3>1. s \ {Pick(s)} \in UpTo(T, n)
      BY <1>1, <2>1, <2>2 DEF UpTo
    <3>2. h[s \ {Pick(s)}] = g[s \ {Pick(s)}]
      BY <1>4, <3>1
    <3> QED
      BY <1>2, <2>1, <2>2, <3>2
  <2> QED
    BY <1>2, <2>1, <2>2
<1>5. Nat \subseteq G
  <2> HIDE DEF G
  <2> QED
    BY <1>3, <1>4, Induction
<1> QED
  <2> SUFFICES ASSUME NEW s \in SUBSET T PROVE h[s] = g[s]
    OBVIOUS
  <2>1. Cardinality(s) \in Nat /\ s \in UpTo(T, Cardinality(s))
    BY <1>0 DEF UpTo
  <2> QED
    BY <1>5, <2>1

\* SumOver is that sum.
LEMMA SumIs ==
    ASSUME NEW S, IsFiniteSet(S), NEW w, NEW g, IsSum(g, w, S)
    PROVE  SumOver(w, S) = g[S]
<1> DEFINE it == CHOOSE it : IsSum(it, w, S)
<1>1. IsSum(it, w, S)
  OBVIOUS
<1>2. SumOver(w, S) = it[S]
  BY DEF SumOver, MapThenSumSet, MapThenFoldSet, IsSum, Pick
<1> HIDE DEF it
<1> QED
  BY <1>1, <1>2, SumUnique

\* The first element out: the sum by its definition.
LEMMA SumStep ==
    ASSUME NEW S, IsFiniteSet(S), NEW w, \A x \in S : w[x] \in Int
    PROVE  /\ SumOver(w, S) \in Int
           /\ S = {} => SumOver(w, S) = 0
           /\ S # {} => SumOver(w, S) = w[Pick(S)] + SumOver(w, S \ {Pick(S)})
<1>1. PICK g \in [SUBSET S -> Int] : IsSum(g, w, S)
  BY SumExists
<1>2. SumOver(w, S) = g[S] /\ S \in SUBSET S
  BY <1>1, SumIs
<1>3. g[S] = IF S = {} THEN 0 ELSE w[Pick(S)] + g[S \ {Pick(S)}]
  BY <1>1, <1>2 DEF IsSum
<1>4. CASE S # {}
  <2> DEFINE T == S \ {Pick(S)}
  <2>1. IsFiniteSet(T) /\ T \in SUBSET S /\ \A x \in T : w[x] \in Int
    BY FS_RemoveElement
  <2>2. PICK h \in [SUBSET T -> Int] : IsSum(h, w, T)
    BY <2>1, SumExists
  <2>3. SumOver(w, T) = h[T] /\ h[T] = g[T]
    BY <1>1, <2>1, <2>2, SumIs, SumUnique
  <2> QED
    BY <1>2, <1>3, <1>4, <2>3
<1> QED
  BY <1>2, <1>3, <1>4

\* Any element added: the sum does not depend on the order.
LEMMA SumAdd ==
    ASSUME NEW S, IsFiniteSet(S), NEW w, \A x \in S : w[x] \in Int,
           NEW a, a \notin S, w[a] \in Int
    PROVE  SumOver(w, S \cup {a}) = SumOver(w, S) + w[a]
<1> DEFINE Adds(T) == \A x \in S \cup {a} : x \notin T => SumOver(w, T \cup {x}) = SumOver(w, T) + w[x]
           U == S \cup {a}
           G == {n \in Nat : \A T \in SUBSET U : Cardinality(T) = n => Adds(T)}
<1>0. IsFiniteSet(U) /\ \A x \in U : w[x] \in Int
  BY FS_AddElement
<1>1. \A T \in SUBSET U : IsFiniteSet(T) /\ Cardinality(T) \in Nat /\ \A x \in T : w[x] \in Int
  BY <1>0, FS_Subset, FS_CardinalityType
<1>2. ASSUME NEW T \in SUBSET U, \A c \in T : Adds(T \ {c})
      PROVE  Adds(T)
  <2> SUFFICES ASSUME NEW x \in U, x \notin T
               PROVE  SumOver(w, T \cup {x}) = SumOver(w, T) + w[x]
    OBVIOUS
  <2> DEFINE W == T \cup {x}
             c == Pick(W)
  <2>1. W \in SUBSET U /\ W # {} /\ c \in W
    BY DEF Pick
  <2>2. /\ SumOver(w, W) = w[c] + SumOver(w, W \ {c})
        /\ SumOver(w, T) \in Int /\ w[x] \in Int /\ w[c] \in Int
    <3> HIDE DEF W, U, c
    <3>1. SumOver(w, W) = w[Pick(W)] + SumOver(w, W \ {Pick(W)})
      BY <1>1, <2>1, SumStep
    <3>2. SumOver(w, T) \in Int
      BY <1>1, SumStep
    <3>3. c \in U
      BY <2>1
    <3> QED
      BY <1>0, <3>1, <3>2, <3>3 DEF c
  <2>3. CASE c = x
    <3>1. W \ {c} = T
      BY <2>3
    <3> HIDE DEF c, W
    <3>2. SumOver(w, W) = w[x] + SumOver(w, T)
      BY <2>2, <2>3, <3>1
    <3> QED
      BY <2>2, <3>2 DEF W
  <2>4. CASE c # x
    <3> DEFINE R == T \ {c}
    <3>1. c \in T /\ W \ {c} = R \cup {x} /\ T = R \cup {c} /\ x \notin R /\ c \notin R
      BY <2>1, <2>4
    <3>2. Adds(R)
      BY <1>2, <3>1
    <3>3. /\ SumOver(w, R \cup {x}) = SumOver(w, R) + w[x]
          /\ SumOver(w, R \cup {c}) = SumOver(w, R) + w[c]
      <4> HIDE DEF R, c
      <4> QED
        BY <3>1, <3>2
    <3>4. SumOver(w, R) \in Int
      <4>1. R \in SUBSET U
        OBVIOUS
      <4> HIDE DEF R, U
      <4> QED
        BY <1>1, <4>1, SumStep
    <3>5. SumOver(w, W) = w[c] + (SumOver(w, R) + w[x])
      <4> HIDE DEF R, c, W
      <4> QED
        BY <2>2, <3>1, <3>3
    <3>6. SumOver(w, T) = SumOver(w, R) + w[c]
      <4> HIDE DEF R, c, W
      <4> QED
        BY <3>1, <3>3
    <3> HIDE DEF R, c
    <3> QED
      BY <2>2, <3>4, <3>5, <3>6
  <2> QED
    BY <2>3, <2>4
<1>3. 0 \in G
  <2>1. ASSUME NEW T \in SUBSET U, Cardinality(T) = 0
        PROVE  Adds(T)
    <3>1. T = {}
      BY <1>1, <2>1, FS_EmptySet
    <3> HIDE DEF Adds
    <3> QED
      BY <1>2, <3>1
  <2> HIDE DEF Adds, U
  <2> QED
    BY <2>1
<1>4. ASSUME NEW n \in Nat, n \in G
      PROVE  n + 1 \in G
  <2>1. ASSUME NEW T \in SUBSET U, Cardinality(T) = n + 1
        PROVE  Adds(T)
    <3> HIDE DEF Adds
    <3>1. ASSUME NEW c \in T
          PROVE  Adds(T \ {c})
      <4>1. Cardinality(T \ {c}) = (n + 1) - 1 /\ T \ {c} \in SUBSET U
        BY <1>1, <2>1, FS_RemoveElement
      <4>2. Cardinality(T \ {c}) = n
        BY <4>1
      <4> HIDE DEF U
      <4> QED
        BY <1>4, <4>1, <4>2
    <3> QED
      BY <1>2, <3>1
  <2>2. n + 1 \in Nat
    OBVIOUS
  <2> HIDE DEF Adds, U
  <2> QED
    BY <2>1, <2>2
<1>5. Nat \subseteq G
  <2> HIDE DEF G
  <2> QED
    BY <1>3, <1>4, Induction
<1>6. Adds(S)
  <2>1. S \in SUBSET U /\ Cardinality(S) \in Nat
    BY <1>1
  <2> HIDE DEF Adds, U
  <2> QED
    BY <1>5, <2>1
<1> QED
  BY <1>6

\* Sets of subsets that hold the empty one and grow by elements hold them all.
LEMMA SetInduction ==
    ASSUME NEW U, IsFiniteSet(U), NEW F, {} \in F,
           \A T \in SUBSET U : \A x \in U \ T : T \in F => T \cup {x} \in F
    PROVE  SUBSET U \subseteq F
<1> DEFINE G == {n \in Nat : \A T \in SUBSET U : Cardinality(T) = n => T \in F}
<1>1. \A T \in SUBSET U : IsFiniteSet(T) /\ Cardinality(T) \in Nat
  BY FS_Subset, FS_CardinalityType
<1>2. 0 \in G
  BY <1>1, FS_EmptySet
<1>3. ASSUME NEW n \in Nat, n \in G
      PROVE  n + 1 \in G
  <2>1. ASSUME NEW T \in SUBSET U, Cardinality(T) = n + 1
        PROVE  T \in F
    <3>0. T # {}
      <4>1. Cardinality({}) = 0 /\ n + 1 # 0
        BY FS_EmptySet
      <4> QED
        BY <2>1, <4>1
    <3>1. PICK c \in T : TRUE
      BY <3>0
    <3>2. /\ Cardinality(T \ {c}) = (n + 1) - 1 /\ T \ {c} \in SUBSET U
          /\ c \in U \ (T \ {c}) /\ (T \ {c}) \cup {c} = T
      BY <1>1, <2>1, <3>1, FS_RemoveElement
    <3>3. T \ {c} \in F
      BY <1>3, <3>2
    <3> QED
      BY <3>2, <3>3
  <2> QED
    BY <2>1
<1>4. Nat \subseteq G
  <2> HIDE DEF G
  <2> QED
    BY <1>2, <1>3, Induction
<1> QED
  BY <1>1, <1>4

\* Where no weight is more, the sum is no more.
LEMMA SumOrder ==
    ASSUME NEW S, IsFiniteSet(S), NEW f, NEW g,
           \A x \in S : f[x] \in Int /\ g[x] \in Int /\ f[x] <= g[x]
    PROVE  SumOver(f, S) <= SumOver(g, S)
<1> DEFINE F == {T \in SUBSET S : SumOver(f, T) <= SumOver(g, T)}
<1>1. \A T \in SUBSET S : IsFiniteSet(T)
  BY FS_Subset
<1>2. {} \in F
  <2>1. SumOver(f, {}) = 0 /\ SumOver(g, {}) = 0
    BY FS_EmptySet, SumStep
  <2> QED
    BY <2>1
<1>3. ASSUME NEW T \in SUBSET S, NEW x \in S \ T, T \in F
      PROVE  T \cup {x} \in F
  <2>1. /\ SumOver(f, T \cup {x}) = SumOver(f, T) + f[x] /\ SumOver(f, T) \in Int
        /\ SumOver(g, T \cup {x}) = SumOver(g, T) + g[x] /\ SumOver(g, T) \in Int
    <3>1. IsFiniteSet(T) /\ x \notin T /\ f[x] \in Int /\ g[x] \in Int
      BY <1>1
    <3>2. \A y \in T : f[y] \in Int
      OBVIOUS
    <3>3. \A y \in T : g[y] \in Int
      OBVIOUS
    <3> HIDE DEF F
    <3>4. SumOver(f, T \cup {x}) = SumOver(f, T) + f[x]
      BY ONLY <3>1, <3>2, SumAdd
    <3>5. SumOver(g, T \cup {x}) = SumOver(g, T) + g[x]
      BY ONLY <3>1, <3>3, SumAdd
    <3>6. SumOver(f, T) \in Int
      BY ONLY <3>1, <3>2, SumStep
    <3>7. SumOver(g, T) \in Int
      BY ONLY <3>1, <3>3, SumStep
    <3> QED
      BY <3>4, <3>5, <3>6, <3>7
  <2>2. SumOver(f, T) <= SumOver(g, T) /\ f[x] \in Int /\ g[x] \in Int /\ f[x] <= g[x]
    BY <1>3
  <2>3. T \cup {x} \in SUBSET S
    OBVIOUS
  <2>4. SumOver(f, T \cup {x}) <= SumOver(g, T \cup {x})
    BY <2>1, <2>2
  <2> QED
    BY <2>3, <2>4
<1>4. SUBSET S \subseteq F
  <2> HIDE DEF F
  <2> QED
    BY <1>2, <1>3, SetInduction
<1> QED
  BY <1>4

\* Equal weights have equal sums.
LEMMA SumEqual ==
    ASSUME NEW S, IsFiniteSet(S), NEW f, NEW g,
           \A x \in S : f[x] \in Int /\ g[x] = f[x]
    PROVE  SumOver(f, S) = SumOver(g, S)
<1>1. SumOver(f, S) <= SumOver(g, S) /\ SumOver(g, S) <= SumOver(f, S)
  BY SumOrder
<1>2. SumOver(f, S) \in Int /\ SumOver(g, S) \in Int
  BY SumStep
<1> QED
  BY <1>1, <1>2

\* Two sets apart are summed apart.
LEMMA SumUnion ==
    ASSUME NEW S, IsFiniteSet(S), NEW T, IsFiniteSet(T), S \cap T = {},
           NEW f, \A x \in S \cup T : f[x] \in Int
    PROVE  SumOver(f, S \cup T) = SumOver(f, S) + SumOver(f, T)
<1> DEFINE F == {R \in SUBSET T : SumOver(f, S \cup R) = SumOver(f, S) + SumOver(f, R)}
<1>1. \A R \in SUBSET T : IsFiniteSet(R) /\ IsFiniteSet(S \cup R)
  BY FS_Subset, FS_Union
<1>2. {} \in F
  <2>1. SumOver(f, {}) = 0 /\ SumOver(f, S) \in Int /\ S \cup {} = S
    BY FS_EmptySet, SumStep
  <2> QED
    BY <2>1
<1>3. ASSUME NEW R \in SUBSET T, NEW x \in T \ R, R \in F
      PROVE  R \cup {x} \in F
  <2>1. /\ SumOver(f, R \cup {x}) = SumOver(f, R) + f[x]
        /\ SumOver(f, R) \in Int /\ SumOver(f, S) \in Int /\ f[x] \in Int
    <3>1. /\ IsFiniteSet(R) /\ x \notin R /\ f[x] \in Int
      BY <1>1
    <3>2. \A y \in R : f[y] \in Int
      OBVIOUS
    <3>3. \A y \in S : f[y] \in Int
      OBVIOUS
    <3> HIDE DEF F
    <3>4. SumOver(f, R \cup {x}) = SumOver(f, R) + f[x]
      BY <3>1, <3>2, SumAdd
    <3>5. SumOver(f, R) \in Int
      BY <3>1, <3>2, SumStep
    <3>6. SumOver(f, S) \in Int
      BY <3>3, SumStep
    <3> QED
      BY <3>1, <3>4, <3>5, <3>6
  <2>2. SumOver(f, (S \cup R) \cup {x}) = SumOver(f, S \cup R) + f[x]
    <3>1. x \notin S \cup R /\ \A y \in S \cup R : f[y] \in Int
      OBVIOUS
    <3> QED
      BY <1>1, <3>1, SumAdd
  <2>3. (S \cup R) \cup {x} = S \cup (R \cup {x}) /\ R \cup {x} \in SUBSET T
    OBVIOUS
  <2>4. SumOver(f, S \cup R) = SumOver(f, S) + SumOver(f, R)
    BY <1>3
  <2>5. SumOver(f, S \cup (R \cup {x})) = SumOver(f, S) + SumOver(f, R \cup {x})
    <3>1. SumOver(f, S \cup (R \cup {x})) = (SumOver(f, S) + SumOver(f, R)) + f[x]
      <4> HIDE DEF F
      <4> QED
        BY <2>2, <2>3, <2>4
    <3> HIDE DEF F
    <3> QED
      BY <2>1, <3>1
  <2> QED
    BY <2>3, <2>5
<1>4. SUBSET T \subseteq F
  <2>1. \A R \in SUBSET T : \A x \in T \ R : R \in F => R \cup {x} \in F
    BY <1>3
  <2>2. IsFiniteSet(T)
    OBVIOUS
  <2> HIDE DEF F
  <2> QED
    BY ONLY <1>2, <2>1, <2>2, SetInduction
<1> QED
  <2>1. T \in F
    BY <1>4
  <2> QED
    BY <2>1

\* A part weighs no more than the whole.
LEMMA SumPart ==
    ASSUME NEW S, IsFiniteSet(S), NEW T \in SUBSET S,
           NEW f, \A x \in S : f[x] \in Nat
    PROVE  0 <= SumOver(f, T) /\ SumOver(f, T) <= SumOver(f, S)
<1> DEFINE F == {R \in SUBSET S : 0 <= SumOver(f, R)}
<1>1. ASSUME NEW R \in SUBSET S
      PROVE  IsFiniteSet(R) /\ SumOver(f, R) \in Int /\ \A x \in R : f[x] \in Int
  <2>1. IsFiniteSet(R) /\ \A x \in R : f[x] \in Int
    BY FS_Subset
  <2> QED
    BY <2>1, SumStep
<1>2. {} \in F
  <2>1. SumOver(f, {}) = 0
    BY FS_EmptySet, SumStep
  <2> QED
    BY <2>1
<1>3. ASSUME NEW R \in SUBSET S, NEW x \in S \ R, R \in F
      PROVE  R \cup {x} \in F
  <2>1. SumOver(f, R \cup {x}) = SumOver(f, R) + f[x] /\ SumOver(f, R) \in Int
    BY <1>1, SumAdd
  <2>2. 0 <= SumOver(f, R) /\ f[x] \in Nat /\ R \cup {x} \in SUBSET S
    BY <1>3
  <2> QED
    BY <2>1, <2>2
<1>4. SUBSET S \subseteq F
  <2> HIDE DEF F
  <2> QED
    BY <1>2, <1>3, SetInduction
<1>5. 0 <= SumOver(f, T) /\ 0 <= SumOver(f, S \ T)
  BY <1>4
<1>6. SumOver(f, T \cup (S \ T)) = SumOver(f, T) + SumOver(f, S \ T)
  <2>1. \A x \in T \cup (S \ T) : f[x] \in Int
    OBVIOUS
  <2> HIDE DEF F
  <2> QED
    BY <1>1, <2>1, SumUnion
<1>7. T \cup (S \ T) = S
  OBVIOUS
<1> QED
  BY <1>1, <1>5, <1>6, <1>7

-----------------------------------------------------------------------------
(***************************************************************************)
(* The cached scans: sizes, and who is kept                                *)
(***************************************************************************)

\* The names of a store are finitely many.
LEMMA NamesAreFinite == IsFiniteSet(EntryNames)
<1> DEFINE Temps(S) == {TempOf[p] : p \in S}
           F == {S \in SUBSET Procs : IsFiniteSet(Temps(S))}
<1>1. IsFiniteSet(Temps(Procs))
  <2>1. {} \in F
    BY FS_EmptySet
  <2>2. ASSUME NEW S \in SUBSET Procs, NEW p \in Procs \ S, S \in F
        PROVE  S \cup {p} \in F
    <3>1. Temps(S \cup {p}) = Temps(S) \cup {TempOf[p]}
      OBVIOUS
    <3>2. IsFiniteSet(Temps(S) \cup {TempOf[p]})
      <4> HIDE DEF Temps
      <4> QED
        BY <2>2, FS_AddElement
    <3> QED
      BY <3>1, <3>2
  <2>3. SUBSET Procs \subseteq F
    <3>1. IsFiniteSet(Procs)
      BY IndexAssumption
    <3> HIDE DEF F
    <3> QED
      BY <2>1, <2>2, <3>1, SetInduction
  <2> QED
    BY <2>3
<1>2. IsFiniteSet(ScanNames \cup {TempOf[p] : p \in Procs})
  BY <1>1, IndexAssumption, FS_Union
<1> QED
  BY <1>2, IndexAssumption, FS_Union DEF EntryNames

\* What an inventory lists: the sizes of all names.
Sized(listed) == \A n \in EntryNames : listed[n].size \in Nat
SizesIn(listed) == [n \in EntryNames |-> listed[n].size]

\* What the names of a set take is the sum of their sizes.
LEMMA SizesSum ==
    ASSUME NEW listed, Sized(listed), NEW S \in SUBSET EntryNames
    PROVE  SizeOfAll(listed, S) = SumOver(SizesIn(listed), S)
<1> DEFINE w == SizesIn(listed)
           Is(g) == g = [s \in SUBSET S |-> IF s = {} THEN 0
                                            ELSE listed[Pick(s)].size + g[s \ {Pick(s)}]]
           it == CHOOSE g : Is(g)
<1>1. IsFiniteSet(S) /\ \A x \in S : w[x] \in Int
  BY NamesAreFinite, FS_Subset DEF SizesIn, Sized
<1>2. \A s \in SUBSET S : s # {} => w[Pick(s)] = listed[Pick(s)].size
  BY DEF Pick, SizesIn
<1>3. PICK g : IsSum(g, w, S)
  <2> HIDE DEF w
  <2> QED
    BY <1>1, SumExists
<1>4. Is(g)
  BY <1>2, <1>3 DEF IsSum
<1>5. Is(it)
  <2> HIDE DEF Is
  <2> QED
    BY <1>4
<1>6. IsSum(it, w, S)
  <2> HIDE DEF w, it
  <2> QED
    BY <1>2, <1>5 DEF IsSum
<1>7. SizeOfAll(listed, S) = it[S]
  BY DEF SizeOfAll, MapThenSumSet, MapThenFoldSet, Pick
<1> HIDE DEF it, w, Is
<1> QED
  BY <1>1, <1>6, <1>7, SumIs DEF w

\* More names take no less.
LEMMA SizesMore ==
    ASSUME NEW listed, Sized(listed), NEW S \in SUBSET EntryNames, NEW T \in SUBSET S
    PROVE  /\ SizeOfAll(listed, T) \in Nat /\ SizeOfAll(listed, S) \in Nat
           /\ SizeOfAll(listed, T) <= SizeOfAll(listed, S)
<1> DEFINE w == SizesIn(listed)
<1>1. IsFiniteSet(S) /\ IsFiniteSet(T) /\ \A x \in S : w[x] \in Nat
  BY NamesAreFinite, FS_Subset DEF SizesIn, Sized
<1>2. /\ SizeOfAll(listed, T) = SumOver(w, T)
      /\ SizeOfAll(listed, S) = SumOver(w, S)
  BY SizesSum
<1> HIDE DEF w
<1>3. \A x \in S : w[x] \in Int
  BY <1>1
<1>4. \A x \in T : w[x] \in Int
  BY <1>1
<1>5. SumOver(w, T) \in Int /\ SumOver(w, S) \in Int
  BY <1>1, <1>3, <1>4, SumStep
<1>6. 0 <= SumOver(w, T) /\ SumOver(w, T) <= SumOver(w, S)
  BY <1>1, SumPart
<1> QED
  BY <1>2, <1>5, <1>6

\* One name more takes its size more.
LEMMA SizesAdd ==
    ASSUME NEW listed, Sized(listed), NEW S \in SUBSET EntryNames,
           NEW n \in EntryNames \ S
    PROVE  SizeOfAll(listed, S \cup {n}) = SizeOfAll(listed, S) + listed[n].size
<1> DEFINE w == SizesIn(listed)
<1>1. IsFiniteSet(S) /\ (\A x \in S : w[x] \in Int) /\ w[n] \in Int /\ w[n] = listed[n].size
  BY NamesAreFinite, FS_Subset DEF SizesIn, Sized
<1>2. S \cup {n} \in SUBSET EntryNames
  OBVIOUS
<1>3. /\ SizeOfAll(listed, S) = SumOver(w, S)
      /\ SizeOfAll(listed, S \cup {n}) = SumOver(w, S \cup {n})
  BY <1>2, SizesSum
<1> HIDE DEF w
<1> QED
  BY <1>1, <1>3, SumAdd

\* Nothing takes nothing.
LEMMA SizesOfNone ==
    ASSUME NEW listed, Sized(listed)
    PROVE  SizeOfAll(listed, {}) = 0
<1> DEFINE w == SizesIn(listed)
<1>1. SizeOfAll(listed, {}) = SumOver(w, {})
  BY SizesSum
<1> HIDE DEF w
<1>2. SumOver(w, {}) = 0
  BY FS_EmptySet, SumStep
<1> QED
  BY <1>1, <1>2

\* Names that have their sizes take what they took.
LEMMA SizesEqual ==
    ASSUME NEW listed, Sized(listed), NEW held, Sized(held), NEW S \in SUBSET EntryNames,
           \A n \in S : held[n].size = listed[n].size
    PROVE  SizeOfAll(held, S) = SizeOfAll(listed, S)
<1> DEFINE v == SizesIn(listed)
           w == SizesIn(held)
<1>1. IsFiniteSet(S) /\ \A x \in S : v[x] \in Int /\ w[x] = v[x]
  BY NamesAreFinite, FS_Subset DEF SizesIn, Sized
<1>2. SizeOfAll(listed, S) = SumOver(v, S) /\ SizeOfAll(held, S) = SumOver(w, S)
  BY SizesSum
<1> HIDE DEF v, w
<1> QED
  BY <1>1, <1>2, SumEqual

\* Any names that are not none have a last root, and an oldest.
LEMMA LastRootIsOne ==
    ASSUME NEW S \in SUBSET ScanNames, S # {}
    PROVE  LastRoot(S) \in S
<1> DEFINE F == {T \in SUBSET S : T = {} \/ \E n \in T : \A m \in T : RootOf[m] <= RootOf[n]}
<1>1. IsFiniteSet(S) /\ \A n \in S : RootOf[n] \in Int
  BY IndexAssumption, FS_Subset
<1>2. ASSUME NEW T \in SUBSET S, NEW x \in S \ T, T \in F
      PROVE  T \cup {x} \in F
  <2>1. CASE T = {}
    BY <1>1, <2>1
  <2>2. CASE T # {}
    <3>1. PICK n \in T : \A m \in T : RootOf[m] <= RootOf[n]
      BY <1>2, <2>2
    <3>2. CASE RootOf[x] <= RootOf[n]
      BY <3>1, <3>2
    <3>3. CASE RootOf[n] <= RootOf[x]
      BY <1>1, <3>1, <3>3
    <3> QED
      BY <1>1, <3>2, <3>3
  <2> QED
    BY <2>1, <2>2
<1>3. SUBSET S \subseteq F
  <2>1. {} \in F
    OBVIOUS
  <2> HIDE DEF F
  <2> QED
    BY <1>1, <1>2, <2>1, SetInduction
<1>4. \E n \in S : \A m \in S : RootOf[m] <= RootOf[n]
  BY <1>3
<1> QED
  BY <1>4 DEF LastRoot

\* What an inventory lists: the times of all names.
Timed(listed) == \A n \in EntryNames : listed[n].time \in Int

\* Of some names one is the oldest: times, and names where they are equal, put
\* them in an order.
LEMMA OldestIsOne ==
    ASSUME NEW listed, Timed(listed), NEW S \in SUBSET EntryNames, S # {}
    PROVE  Oldest(listed, S) \in S
<1> DEFINE IsLast(T, n) == \A m \in T : m = n \/ Newer(listed, m, n)
           F == {T \in SUBSET S : T = {} \/ \E n \in T : IsLast(T, n)}
<1>1. IsFiniteSet(S) /\ \A n \in S : listed[n].time \in Int /\ n \in Int
  BY NamesAreFinite, IndexAssumption, FS_Subset DEF Timed
<1>2. ASSUME NEW T \in SUBSET S, NEW x \in S \ T, T \in F
      PROVE  T \cup {x} \in F
  <2>1. CASE T = {}
    BY <1>1, <2>1
  <2>2. CASE T # {}
    <3>1. PICK n \in T : IsLast(T, n)
      BY <1>2, <2>2
    <3>2. CASE Newer(listed, x, n)
      BY <3>1, <3>2
    <3>3. CASE Newer(listed, n, x)
      <4>1. \A m \in T : Newer(listed, m, x)
        BY <1>1, <3>1, <3>3 DEF Newer
      <4> QED
        BY <4>1
    <3>4. Newer(listed, x, n) \/ Newer(listed, n, x)
      BY <1>1 DEF Newer
    <3> QED
      BY <3>2, <3>3, <3>4
  <2> QED
    BY <2>1, <2>2
<1>3. SUBSET S \subseteq F
  <2>1. {} \in F
    OBVIOUS
  <2> HIDE DEF F
  <2> QED
    BY <1>1, <1>2, <2>1, SetInduction
<1>4. \E n \in S : \A m \in S : m = n \/ Newer(listed, m, n)
  BY <1>3
<1> QED
  BY <1>4 DEF Oldest

\* Who is kept, of every part of some names.
IsInTurn(k, listed, first, last, names) ==
    k = [s \in SUBSET names |->
            IF s = {} THEN first ELSE KeptBeside(listed, k[s \ {last[s]}], last[s])]

\* The last of any part of some names is one of it.
LastsIn(last, names) == \A s \in SUBSET names : s # {} => last[s] \in s

\* A set without its last is smaller by one.
LEMMA ButTheLast ==
    ASSUME NEW last, NEW names \in SUBSET EntryNames, LastsIn(last, names),
           NEW s \in SUBSET names
    PROVE  /\ IsFiniteSet(s) /\ Cardinality(s) \in Nat
           /\ Cardinality(s) = 0 <=> s = {}
           /\ s # {} => /\ s \ {last[s]} \in SUBSET names
                        /\ Cardinality(s \ {last[s]}) = Cardinality(s) - 1
<1>1. IsFiniteSet(s)
  BY NamesAreFinite, FS_Subset
<1>2. Cardinality(s) \in Nat /\ (Cardinality(s) = 0 <=> s = {})
  BY <1>1, FS_CardinalityType, FS_EmptySet
<1>3. s # {} => last[s] \in s
  BY DEF LastsIn
<1>4. ASSUME s # {}
      PROVE  /\ s \ {last[s]} \in SUBSET names
             /\ Cardinality(s \ {last[s]}) = Cardinality(s) - 1
  BY <1>1, <1>3, <1>4, FS_RemoveElement
<1> QED
  BY <1>1, <1>2, <1>4

\* The parts of no element, and the whole.
LEMMA UpToEnds ==
    ASSUME NEW names, IsFiniteSet(names)
    PROVE  /\ UpTo(names, 0) \subseteq {{}}
           /\ names \in UpTo(names, Cardinality(names)) /\ Cardinality(names) \in Nat
<1>1. ASSUME NEW s \in UpTo(names, 0)
      PROVE  s = {}
  <2>1. s \in SUBSET names /\ Cardinality(s) <= 0
    BY DEF UpTo
  <2>2. IsFiniteSet(s) /\ Cardinality(s) \in Nat
    BY <2>1, FS_Subset, FS_CardinalityType
  <2>3. Cardinality(s) = 0
    BY <2>1, <2>2
  <2> QED
    BY <2>2, <2>3, FS_EmptySet
<1>2. Cardinality(names) \in Nat
  BY FS_CardinalityType
<1> QED
  BY <1>1, <1>2 DEF UpTo

\* The recursion over the parts of the names has a solution.
LEMMA InTurnExists ==
    ASSUME NEW listed, NEW first \in SUBSET EntryNames, NEW last,
           NEW names \in SUBSET EntryNames, LastsIn(last, names)
    PROVE  \E k \in [SUBSET names -> SUBSET EntryNames] : IsInTurn(k, listed, first, last, names)
<1> DEFINE Body(k, s) == IF s = {} THEN first
                         ELSE KeptBeside(listed, k[s \ {last[s]}], last[s])
           D == [SUBSET names -> SUBSET EntryNames]
           G == {n \in Nat : \E k \in D : \A s \in UpTo(names, n) : k[s] = Body(k, s)}
<1>1. \A s \in SUBSET names :
        /\ Cardinality(s) \in Nat /\ (Cardinality(s) = 0 <=> s = {})
        /\ s # {} => /\ s \ {last[s]} \in SUBSET names
                     /\ Cardinality(s \ {last[s]}) = Cardinality(s) - 1
  BY ButTheLast
<1>2. ASSUME NEW k \in D, NEW s \in SUBSET names
      PROVE  Body(k, s) \in SUBSET EntryNames
  <2>1. CASE s # {}
    <3>1. k[s \ {last[s]}] \in SUBSET EntryNames /\ last[s] \in EntryNames
      BY <1>1, <2>1 DEF LastsIn
    <3> QED
      BY <2>1, <3>1 DEF KeptBeside
  <2> QED
    BY <2>1
<1>3. 0 \in G
  <2>1. [s \in SUBSET names |-> first] \in D
    OBVIOUS
  <2>2. \A s \in UpTo(names, 0) : s = {}
    BY UpToEnds, NamesAreFinite, FS_Subset
  <2>3. \A s \in UpTo(names, 0) : [t \in SUBSET names |-> first][s] = first
    BY DEF UpTo
  <2> QED
    BY <2>1, <2>2, <2>3
<1>4. ASSUME NEW n \in Nat, n \in G
      PROVE  n + 1 \in G
  <2>1. PICK k \in D : \A s \in UpTo(names, n) : k[s] = Body(k, s)
    BY <1>4
  <2> DEFINE h == [s \in SUBSET names |-> IF s \in UpTo(names, n) THEN k[s] ELSE Body(k, s)]
  <2>2. h \in D
    <3>1. \A s \in SUBSET names : k[s] \in SUBSET EntryNames /\ Body(k, s) \in SUBSET EntryNames
      BY <1>2
    <3> HIDE DEF Body
    <3> QED
      BY <3>1
  <2>3. ASSUME NEW s \in UpTo(names, n + 1)
        PROVE  h[s] = Body(h, s)
    <3>1. s \in SUBSET names
      BY DEF UpTo
    <3>2. h[s] = Body(k, s)
      <4> HIDE DEF Body
      <4> QED
        BY <2>1, <3>1
    <3>3. s # {} => s \ {last[s]} \in UpTo(names, n)
      BY <1>1, <3>1 DEF UpTo
    <3>4. s # {} => h[s \ {last[s]}] = k[s \ {last[s]}]
      <4> HIDE DEF Body
      <4> QED
        BY <1>1, <3>1, <3>3
    <3> HIDE DEF h
    <3> QED
      BY <3>2, <3>4
  <2>4. n + 1 \in Nat
    OBVIOUS
  <2> HIDE DEF h, Body, D
  <2> QED
    BY <2>2, <2>3, <2>4
<1>5. Cardinality(names) \in G /\ \A s \in SUBSET names : s \in UpTo(names, Cardinality(names))
  <2>1. Nat \subseteq G
    <3> HIDE DEF G
    <3> QED
      BY <1>3, <1>4, Induction
  <2>2. IsFiniteSet(names) /\ Cardinality(names) \in Nat
    BY NamesAreFinite, FS_Subset, FS_CardinalityType
  <2> HIDE DEF G
  <2> QED
    BY <2>1, <2>2, FS_Subset DEF UpTo
<1>6. PICK k \in D : \A s \in UpTo(names, Cardinality(names)) : k[s] = Body(k, s)
  BY <1>5
<1>7. k = [s \in SUBSET names |-> Body(k, s)]
  <2>1. \A s \in SUBSET names : k[s] = Body(k, s)
    BY <1>5, <1>6
  <2> HIDE DEF Body
  <2> QED
    BY <2>1
<1> QED
  BY <1>7 DEF IsInTurn

\* Whatever the order: those that come first stay, no one comes from outside,
\* the budget is kept, and who is not kept does not fit beside those that are.
LEMMA InTurnKeeps ==
    ASSUME NEW listed, Sized(listed), NEW first \in SUBSET EntryNames, NEW last,
           NEW names \in SUBSET EntryNames, LastsIn(last, names)
    PROVE  /\ first \subseteq KeptInTurn(listed, first, last, names)
           /\ KeptInTurn(listed, first, last, names) \subseteq first \cup names
           /\ SizeOfAll(listed, first) <= MaxBytes =>
                 SizeOfAll(listed, KeptInTurn(listed, first, last, names)) <= MaxBytes
           /\ \A n \in names \ KeptInTurn(listed, first, last, names) :
                 ~(SizeOfAll(listed, KeptInTurn(listed, first, last, names) \cup {n}) <= MaxBytes)
<1> DEFINE it == CHOOSE k : IsInTurn(k, listed, first, last, names)
           Good(s) == /\ first \subseteq it[s] /\ it[s] \subseteq first \cup s
                      /\ SizeOfAll(listed, first) <= MaxBytes => SizeOfAll(listed, it[s]) <= MaxBytes
                      /\ \A n \in s \ it[s] : ~(SizeOfAll(listed, it[s] \cup {n}) <= MaxBytes)
           G == {n \in Nat : \A s \in UpTo(names, n) : Good(s)}
<1>1. \A s \in SUBSET names :
        /\ Cardinality(s) \in Nat /\ (Cardinality(s) = 0 <=> s = {})
        /\ s # {} => /\ s \ {last[s]} \in SUBSET names
                     /\ Cardinality(s \ {last[s]}) = Cardinality(s) - 1
  BY ButTheLast
<1>2. IsInTurn(it, listed, first, last, names)
  BY InTurnExists
<1>3. KeptInTurn(listed, first, last, names) = it[names]
  BY DEF KeptInTurn, IsInTurn
<1> HIDE DEF it
<1>4. \A s \in SUBSET names :
        it[s] = IF s = {} THEN first ELSE KeptBeside(listed, it[s \ {last[s]}], last[s])
  BY <1>2 DEF IsInTurn
<1>5. 0 \in G
  <2>1. \A s \in UpTo(names, 0) : s = {}
    BY UpToEnds, NamesAreFinite, FS_Subset
  <2>2. it[{}] = first
    BY <1>4
  <2> QED
    BY <2>1, <2>2
<1>6. ASSUME NEW n \in Nat, n \in G
      PROVE  n + 1 \in G
  <2> SUFFICES ASSUME NEW s \in UpTo(names, n + 1) PROVE Good(s)
    OBVIOUS
  <2>1. s \in SUBSET names
    BY DEF UpTo
  <2>2. CASE s = {}
    <3>1. it[s] = first
      BY <1>4, <2>1, <2>2
    <3> QED
      BY <2>2, <3>1
  <2>3. CASE s # {}
    <3> DEFINE x == last[s]
               r == s \ {x}
    <3>1. r \in UpTo(names, n) /\ x \in s /\ s = r \cup {x} /\ x \in EntryNames
      BY <1>1, <2>1, <2>3 DEF UpTo, LastsIn
    <3>2. Good(r)
      <4> HIDE DEF Good, r
      <4> QED
        BY <1>6, <3>1
    <3>3. it[s] = IF SizeOfAll(listed, it[r] \cup {x}) <= MaxBytes THEN it[r] \cup {x} ELSE it[r]
      BY <1>4, <2>1, <2>3 DEF KeptBeside
    <3> HIDE DEF x, r
    <3>4. /\ first \subseteq it[s] /\ it[s] \subseteq first \cup s
          /\ SizeOfAll(listed, first) <= MaxBytes => SizeOfAll(listed, it[s]) <= MaxBytes
      BY <3>1, <3>2, <3>3
    <3>5. ASSUME NEW m \in s \ it[s]
          PROVE  ~(SizeOfAll(listed, it[s] \cup {m}) <= MaxBytes)
      <4>1. CASE m = x
        BY <3>1, <3>3, <3>5, <4>1
      <4>2. CASE m # x
        <5> DEFINE S == it[s] \cup {m}
                   T == it[r] \cup {m}
        <5>1. ~(SizeOfAll(listed, T) <= MaxBytes)
          BY <3>1, <3>2, <3>3, <4>2
        <5>2. T \in SUBSET S /\ S \in SUBSET EntryNames
          BY <2>1, <3>3, <3>4
        <5>3. MaxBytes \in Nat
          BY IndexAssumption
        <5> HIDE DEF S, T
        <5>4. ~(SizeOfAll(listed, S) <= MaxBytes)
          BY <5>1, <5>2, <5>3, SizesMore
        <5> QED
          BY <5>4 DEF S
      <4> QED
        BY <4>1, <4>2
    <3> QED
      BY <3>4, <3>5
  <2> QED
    BY <2>2, <2>3
<1>7. Good(names)
  <2>1. Nat \subseteq G
    <3> HIDE DEF G
    <3> QED
      BY <1>5, <1>6, Induction
  <2>2. names \in UpTo(names, Cardinality(names)) /\ Cardinality(names) \in Nat
    BY UpToEnds, NamesAreFinite, FS_Subset
  <2> HIDE DEF Good
  <2> QED
    BY <2>1, <2>2
<1> QED
  BY <1>3, <1>7

\* What an inventory lists, and that only names of scans hold scans.
Listing(listed) == DOMAIN listed = EntryNames /\ \A n \in EntryNames : listed[n] \in Holdable(n)

\* What every listing says of its names.
LEMMA ListingIs ==
    ASSUME NEW listed, Listing(listed)
    PROVE  /\ Sized(listed) /\ Timed(listed)
           /\ \A n \in EntryNames : ValidIn(listed, n) => n \in ScanNames
           /\ \A n \in EntryNames \ ForeignNames : listed[n].kind # "foreign"
           /\ ScanNames \subseteq EntryNames \ ForeignNames
<1>1. Sized(listed) /\ Timed(listed)
  BY DEF Listing, Holdable, Sized, Timed
<1>2. \A n \in EntryNames : ValidIn(listed, n) => n \in ScanNames
  BY DEF Listing, Holdable, ValidIn
<1>3. ScanNames \subseteq EntryNames \ ForeignNames
  BY IndexAssumption DEF EntryNames
<1>4. \A n \in EntryNames \ ForeignNames : listed[n].kind # "foreign"
  BY DEF Listing, Holdable
<1> QED
  BY <1>1, <1>2, <1>3, <1>4

\* Who is kept by prune and by a save.
LEMMA KeptKeeps ==
    ASSUME NEW listed, Listing(listed), NEW mine \in SUBSET ScanNames, NEW now,
           SizeOfAll(listed, mine) <= MaxBytes
    PROVE  /\ Retained(listed, mine, now) \subseteq ScanNames
           /\ mine \subseteq Kept(listed, mine, now)
           /\ Kept(listed, mine, now) \subseteq mine \cup Retained(listed, mine, now)
           /\ SizeOfAll(listed, Kept(listed, mine, now)) <= MaxBytes
           /\ \A n \in Retained(listed, mine, now) \ Kept(listed, mine, now) :
                 ~(SizeOfAll(listed, Kept(listed, mine, now) \cup {n}) <= MaxBytes)
           /\ \A U \in SUBSET EntryNames :
                 /\ mine \cup NewestOfRoots(listed, Retained(listed, mine, now)) \subseteq U
                 /\ SizeOfAll(listed, U) <= MaxBytes
                 => NewestOfRoots(listed, Retained(listed, mine, now)) \subseteq Kept(listed, mine, now)
<1> DEFINE all == Retained(listed, mine, now)
           newest == NewestOfRoots(listed, all)
           inner == KeptInTurn(listed, mine, ByRoot(newest), newest)
           kept == Kept(listed, mine, now)
<1>1. /\ Sized(listed) /\ Timed(listed) /\ ScanNames \subseteq EntryNames
      /\ all \subseteq ScanNames /\ newest \subseteq all
  BY ListingIs DEF Retained, Removable, NewestOfRoots
<1>2. kept = KeptInTurn(listed, inner, ByAge(listed, all), all)
  BY DEF Kept
<1> HIDE DEF all, newest, kept
<1>3. LastsIn(ByRoot(newest), newest)
  <2>1. \A s \in SUBSET newest : s # {} => LastRoot(s) \in s
    BY <1>1, LastRootIsOne
  <2> QED
    BY <2>1 DEF LastsIn, ByRoot
<1>4. LastsIn(ByAge(listed, all), all)
  <2>1. \A s \in SUBSET all : s # {} => Oldest(listed, s) \in s
    BY <1>1, OldestIsOne
  <2> QED
    BY <2>1 DEF LastsIn, ByAge
<1>5. mine \in SUBSET EntryNames /\ newest \in SUBSET EntryNames /\ all \in SUBSET EntryNames
  BY <1>1
<1>6. /\ mine \subseteq inner /\ inner \subseteq mine \cup newest
      /\ SizeOfAll(listed, inner) <= MaxBytes
      /\ \A n \in newest \ inner : ~(SizeOfAll(listed, inner \cup {n}) <= MaxBytes)
  BY <1>1, <1>3, <1>5, InTurnKeeps
<1> HIDE DEF inner
<1>7. inner \in SUBSET EntryNames
  BY <1>5, <1>6
<1>8. /\ inner \subseteq kept /\ kept \subseteq inner \cup all
      /\ SizeOfAll(listed, kept) <= MaxBytes
      /\ \A n \in all \ kept : ~(SizeOfAll(listed, kept \cup {n}) <= MaxBytes)
  BY <1>1, <1>2, <1>4, <1>5, <1>6, <1>7, InTurnKeeps
<1>9. ASSUME NEW U \in SUBSET EntryNames, mine \cup newest \subseteq U,
             SizeOfAll(listed, U) <= MaxBytes, NEW n \in newest, n \notin kept
      PROVE  FALSE
  <2> DEFINE T == inner \cup {n}
  <2>1. T \in SUBSET U /\ ~(SizeOfAll(listed, T) <= MaxBytes) /\ MaxBytes \in Nat
    BY <1>6, <1>8, <1>9, IndexAssumption
  <2> HIDE DEF T
  <2> QED
    BY <1>1, <1>9, <2>1, SizesMore
<1>10. /\ all \subseteq ScanNames /\ mine \subseteq kept /\ kept \subseteq mine \cup all
  BY <1>1, <1>6, <1>8
<1> QED
  BY <1>8, <1>9, <1>10 DEF all, newest, kept

\* The scan to be saved, in its place.
SavedAs(i) == [kind |-> "snapshot", time |-> i.time, size |-> i.size]
MineOf(a) == IF a.op = "save" THEN {a.incoming.name} ELSE {}

\* What is planned is the store's own, and a save does not plan its own scan.
LEMMA PlanIs ==
    ASSUME NEW a, NEW listed, Listing(listed), NEW now,
           a.op = "save" => a.incoming \in Incoming /\ listed[a.incoming.name].size = a.incoming.size
    PROVE  /\ DOMAIN PlanOf(a, listed, now) \subseteq Removable(listed)
           /\ a.op = "save" => a.incoming.name \notin DOMAIN PlanOf(a, listed, now)
           /\ a.op \in {"save", "prune"} =>
                /\ MineOf(a) \in SUBSET ScanNames /\ SizeOfAll(listed, MineOf(a)) <= MaxBytes
                /\ DOMAIN PlanOf(a, listed, now) = Removable(listed) \ Kept(listed, MineOf(a), now)
<1>1. a.op = "save" => a.incoming.name \in ScanNames /\ a.incoming.size \in 1..MaxBytes
  BY IndexAssumption
<1>2. Sized(listed) /\ ScanNames \subseteq EntryNames /\ MaxBytes \in Nat
  BY ListingIs, IndexAssumption
<1>3. MineOf(a) \in SUBSET ScanNames
  BY <1>1 DEF MineOf
<1>4. SizeOfAll(listed, MineOf(a)) <= MaxBytes
  <2>1. SizeOfAll(listed, {}) = 0
    BY <1>2, SizesOfNone
  <2>2. CASE a.op = "save"
    <3> DEFINE n == a.incoming.name
    <3>1. n \in EntryNames \ {} /\ listed[n].size <= MaxBytes /\ listed[n].size \in Nat
      BY <1>1, <1>2, <2>2 DEF Sized
    <3>2. SizeOfAll(listed, {} \cup {n}) = SizeOfAll(listed, {}) + listed[n].size
      <4> HIDE DEF n
      <4> QED
        BY <1>2, <3>1, SizesAdd
    <3>3. MineOf(a) = {} \cup {n}
      BY <2>2 DEF MineOf
    <3> HIDE DEF n
    <3> QED
      BY <2>1, <3>1, <3>2, <3>3
  <2>3. CASE a.op # "save"
    BY <1>2, <2>1, <2>3 DEF MineOf
  <2> QED
    BY <2>2, <2>3
<1>5. ASSUME a.op \in {"save", "prune"}
      PROVE  DOMAIN PlanOf(a, listed, now) = Removable(listed) \ Kept(listed, MineOf(a), now)
  BY <1>5 DEF PlanOf, PrunePlan, MineOf
<1>6. DOMAIN PlanOf(a, listed, now) \subseteq Removable(listed)
  BY DEF PlanOf, PrunePlan, ClearPlan, InvalidatePlan
<1>7. ASSUME a.op = "save"
      PROVE  a.incoming.name \notin DOMAIN PlanOf(a, listed, now)
  <2>1. a.incoming.name \in MineOf(a)
    BY <1>7 DEF MineOf
  <2> QED
    BY <1>3, <1>4, <1>5, <1>7, <2>1, KeptKeeps
<1> QED
  BY <1>3, <1>4, <1>5, <1>6, <1>7

-----------------------------------------------------------------------------
(***************************************************************************)
(* The cached scans: the calls                                             *)
(***************************************************************************)

CallRecord(a) == [pc |-> a.pc, op |-> a.op, incoming |-> a.incoming, listed |-> a.listed,
                  plan |-> a.plan, planned |-> a.planned, actions |-> a.actions,
                  canceled |-> a.canceled, result |-> a.result]
CallPlaces == {"idle", "lock", "write", "publish", "list", "remove", "over", "dead"}
CallKinds == {"none", "save", "prune", "clear", "invalidate", "dry run"}

\* Where a call is says which it is, and what it has done so far.
CallTyped(a) ==
    /\ a = CallRecord(a)
    /\ a.pc \in CallPlaces /\ a.op \in CallKinds /\ a.result \in {"none", "ok", "error"}
    /\ a.op = "save" => a.incoming \in Incoming
    /\ a.pc = "idle" <=> a.op = "none"
    /\ a.pc \in {"write", "publish"} => a.op = "save"
    /\ a.pc = "remove" => a.op \in CallKinds \ {"none", "dry run"}
    /\ a.pc \notin {"remove", "over", "dead"} => a.actions = <<>>

\* Where a call has the lock.
HasLock(a) == a.pc \in {"write", "publish", "remove"} \/ (a.pc = "list" /\ a.op # "dry run")

\* A name is as it was listed, or could not be read then.
AsListed(e, l) ==
    \/ l = e
    \/ e.kind = "snapshot" /\ l.kind = "broken" /\ l.time = e.time /\ l.size = e.size

\* What has been removed so far, and only that, is gone.
Removing(a, held) ==
    /\ Listing(a.listed)
    /\ a.plan = PlanOf(a, a.listed, a.planned)
    /\ \E n \in Nat : DOMAIN a.actions = 1..n
    /\ \A k \in DOMAIN a.actions :
          /\ a.actions[k] = [name |-> a.actions[k].name, removed |-> TRUE, maybe |-> FALSE]
          /\ a.actions[k].name \in DOMAIN a.plan
          /\ held[a.actions[k].name] = Absent
    /\ \A n \in EntryNames : (\E k \in DOMAIN a.actions : a.actions[k].name = n)
                             \/ AsListed(held[n], a.listed[n])

\* The scan to be saved is in its place before anything is listed.
SavedFirst(a, held) == a.op = "save" => held[a.incoming.name] = SavedAs(a.incoming)

CallStands(a, p, h, held) ==
    /\ CallTyped(a)
    /\ HasLock(a) => h = p
    /\ a.pc = "list" /\ HasLock(a) => SavedFirst(a, held)
    /\ a.pc = "remove" => SavedFirst(a, held) /\ Removing(a, held)

StoreTyped(held, now, h, m) ==
    /\ Listing(held)
    /\ now \in 0..MaxClock /\ m \in 0..MaxMishaps /\ h \in Procs \cup {Nobody}

IndexInv ==
    /\ StoreTyped(entry, clock, holder, mishaps)
    /\ proc = [p \in Procs |-> proc[p]]
    /\ \A p \in Procs : CallStands(proc[p], p, holder, entry)

\* The bounds are numbers.
LEMMA BoundsAre ==
    /\ MaxClock \in Nat /\ MaxMishaps \in Nat /\ MaxBytes \in Nat /\ MaxAge \in Nat
    /\ \A n \in 0..MaxClock : n \in Nat
    /\ \A m \in 0..MaxMishaps : m < MaxMishaps => m + 1 \in 0..MaxMishaps
<1>1. MaxClock \in Nat /\ MaxMishaps \in Nat /\ MaxBytes \in Nat /\ MaxAge \in Nat
  BY IndexAssumption
<1> QED
  BY <1>1

\* Failures are counted.
LEMMA MishapsCounted ==
    ASSUME mishaps \in 0..MaxMishaps, UNCHANGED mishaps \/ Mishap
    PROVE  mishaps' \in 0..MaxMishaps
BY BoundsAre DEF Mishap

\* It holds as the calls begin.
LEMMA IndexBegins == IndexInit => IndexInv
<1> SUFFICES ASSUME IndexInit PROVE IndexInv
  OBVIOUS
<1>1. StoreTyped(entry, clock, holder, mishaps)
  BY IndexAssumption DEF IndexInit, StoreTyped, Listing
<1>2. ASSUME NEW p \in Procs
      PROVE  proc[p] = NoCall
  BY DEF IndexInit
<1>3. ASSUME NEW p \in Procs
      PROVE  CallStands(NoCall, p, holder, entry)
  BY DEF NoCall, CallStands, CallTyped, CallRecord, CallPlaces, CallKinds, HasLock
<1>4. proc = [p \in Procs |-> proc[p]]
  BY DEF IndexInit
<1> QED
  BY <1>1, <1>2, <1>3, <1>4 DEF IndexInv

\* A step of one call: what the others say of the store still stands, since
\* only the call that has the lock changes it.
LEMMA CallMoves ==
    ASSUME IndexInv, NEW q \in Procs, NEW b,
           DOMAIN proc' = Procs, \A p \in Procs : proc'[p] = IF p = q THEN b ELSE proc[p],
           proc' = [p \in Procs |-> proc'[p]],
           entry' = entry \/ holder = q,
           holder' = holder \/ (holder = Nobody /\ holder' = q) \/ (holder = q /\ holder' = Nobody),
           StoreTyped(entry', clock', holder', mishaps'),
           CallStands(b, q, holder', entry')
    PROVE  IndexInv'
<1>1. ASSUME NEW p \in Procs
      PROVE  CallStands(proc'[p], p, holder', entry')
  <2>1. CASE p = q
    BY <2>1
  <2>2. CASE p # q
    <3>1. CallStands(proc[p], p, holder, entry) /\ proc'[p] = proc[p]
      BY <2>2 DEF IndexInv
    <3>2. holder = p => holder' = p
      BY <2>2, IndexAssumption
    <3>3. holder = p => entry' = entry
      BY <2>2
    <3>4. CASE HasLock(proc[p])
      BY <3>1, <3>2, <3>3, <3>4 DEF CallStands
    <3>5. CASE ~HasLock(proc[p])
      BY <3>1, <3>5 DEF CallStands, HasLock
    <3> QED
      BY <3>4, <3>5
  <2> QED
    BY <2>1, <2>2
<1> QED
  BY <1>1 DEF IndexInv

\* A call returns, whatever it reports.
LEMMA ReturnsSo ==
    ASSUME IndexInv, NEW q \in Procs, NEW result \in {"ok", "error"}, NEW actions,
           Returns(q, result, actions)
    PROVE  /\ DOMAIN proc' = Procs /\ proc' = [p \in Procs |-> proc'[p]]
           /\ \A p \in Procs \ {q} : proc'[p] = proc[p]
           /\ proc'[q] = CallRecord(proc'[q])
           /\ proc'[q].pc = "over" /\ proc'[q].result = result /\ proc'[q].actions = actions
           /\ proc'[q].op = proc[q].op /\ proc'[q].incoming = proc[q].incoming
           /\ proc'[q].listed = proc[q].listed /\ proc'[q].plan = proc[q].plan
           /\ proc'[q].canceled = proc[q].canceled
           /\ holder' = holder \/ (holder = q /\ holder' = Nobody)
<1>1. PICK a : a = proc[q]
  OBVIOUS
<1>2. PICK b : b = proc'[q]
  OBVIOUS
<1>3. a = CallRecord(a) /\ proc = [p \in Procs |-> proc[p]]
  BY <1>1 DEF IndexInv, CallStands, CallTyped
<1>4. b = [a EXCEPT !.pc = "over", !.result = result, !.actions = actions]
  BY <1>1, <1>2, <1>3 DEF Returns
<1>5. /\ DOMAIN proc' = Procs /\ proc' = [p \in Procs |-> proc'[p]]
      /\ \A p \in Procs \ {q} : proc'[p] = proc[p]
      /\ holder' = holder \/ (holder = q /\ holder' = Nobody)
  BY <1>3 DEF Returns
<1>6. /\ b = CallRecord(b) /\ b.pc = "over" /\ b.result = result /\ b.actions = actions
      /\ b.op = a.op /\ b.incoming = a.incoming /\ b.listed = a.listed /\ b.plan = a.plan
      /\ b.canceled = a.canceled
  BY <1>3, <1>4 DEF CallRecord
<1> QED
  BY <1>1, <1>2, <1>5, <1>6

\* A call that returns is over, whatever it leaves behind.
LEMMA ReturnsKeeps ==
    ASSUME IndexInv, NEW q \in Procs, NEW result \in {"ok", "error"}, NEW actions,
           Returns(q, result, actions), proc[q].pc # "idle",
           entry' = entry \/ holder = q,
           Listing(entry'), UNCHANGED clock, UNCHANGED mishaps \/ Mishap
    PROVE  IndexInv'
<1>1. PICK b : b = proc'[q]
  OBVIOUS
<1>2. /\ DOMAIN proc' = Procs /\ proc' = [p \in Procs |-> proc'[p]]
      /\ \A p \in Procs : proc'[p] = IF p = q THEN b ELSE proc[p]
      /\ b = CallRecord(b) /\ b.pc = "over" /\ b.result = result
      /\ b.op = proc[q].op /\ b.incoming = proc[q].incoming
      /\ holder' = holder \/ (holder = q /\ holder' = Nobody)
  BY <1>1, ReturnsSo
<1>3. CallTyped(proc[q])
  BY DEF IndexInv, CallStands
<1>4. CallStands(b, q, holder', entry')
  BY <1>2, <1>3 DEF CallStands, CallTyped, CallPlaces, HasLock
<1>5. StoreTyped(entry', clock', holder', mishaps')
  BY <1>2, MishapsCounted DEF IndexInv, StoreTyped
<1> QED
  BY <1>2, <1>4, <1>5, CallMoves

\* A call goes on to another place, and nothing else of it changes.
LEMMA GoesSo ==
    ASSUME IndexInv, NEW q \in Procs, NEW pc, Goes(q, pc)
    PROVE  /\ DOMAIN proc' = Procs /\ proc' = [p \in Procs |-> proc'[p]]
           /\ \A p \in Procs \ {q} : proc'[p] = proc[p]
           /\ proc'[q] = CallRecord(proc'[q]) /\ proc'[q].pc = pc
           /\ proc'[q].result = proc[q].result /\ proc'[q].actions = proc[q].actions
           /\ proc'[q].op = proc[q].op /\ proc'[q].incoming = proc[q].incoming
<1>1. PICK a : a = proc[q]
  OBVIOUS
<1>2. PICK b : b = proc'[q]
  OBVIOUS
<1>3. a = CallRecord(a) /\ proc = [p \in Procs |-> proc[p]]
  BY <1>1 DEF IndexInv, CallStands, CallTyped
<1>4. b = [a EXCEPT !.pc = pc]
  BY <1>1, <1>2, <1>3 DEF Goes
<1>5. /\ DOMAIN proc' = Procs /\ proc' = [p \in Procs |-> proc'[p]]
      /\ \A p \in Procs \ {q} : proc'[p] = proc[p]
  BY <1>3 DEF Goes
<1>6. /\ b = CallRecord(b) /\ b.pc = pc /\ b.result = a.result /\ b.actions = a.actions
      /\ b.op = a.op /\ b.incoming = a.incoming
  BY <1>3, <1>4 DEF CallRecord
<1> QED
  BY <1>1, <1>2, <1>5, <1>6

\* Going on to a place where nothing is said of the store but the saved scan.
LEMMA GoesKeeps ==
    ASSUME IndexInv, NEW q \in Procs, NEW pc \in CallPlaces \ {"idle", "remove"}, Goes(q, pc),
           proc[q].pc # "idle", proc[q].pc \notin {"remove", "over"} \/ pc = "dead",
           pc \in {"write", "publish"} => proc[q].op = "save",
           entry' = entry \/ holder = q,
           holder' = holder \/ (holder = Nobody /\ holder' = q) \/ (holder = q /\ holder' = Nobody),
           pc \in {"write", "publish", "list"} => holder' = q,
           pc = "list" => (proc[q].op = "save" => entry'[proc[q].incoming.name] = SavedAs(proc[q].incoming)),
           proc[q].pc = "dead" => pc = "dead",
           Listing(entry'), UNCHANGED clock, UNCHANGED mishaps \/ Mishap
    PROVE  IndexInv'
<1>1. PICK b : b = proc'[q]
  OBVIOUS
<1>2. /\ DOMAIN proc' = Procs /\ proc' = [p \in Procs |-> proc'[p]]
      /\ \A p \in Procs : proc'[p] = IF p = q THEN b ELSE proc[p]
      /\ b = CallRecord(b) /\ b.pc = pc
      /\ b.result = proc[q].result /\ b.actions = proc[q].actions
      /\ b.op = proc[q].op /\ b.incoming = proc[q].incoming
  BY <1>1, GoesSo
<1>3. CallTyped(proc[q])
  BY DEF IndexInv, CallStands
<1>4. CallTyped(b)
  BY <1>2, <1>3 DEF CallTyped, CallPlaces
<1>5. pc = "list" => SavedFirst(b, entry')
  BY <1>2 DEF SavedFirst
<1>6. CallStands(b, q, holder', entry')
  BY <1>2, <1>4, <1>5 DEF CallStands, HasLock
<1>7. StoreTyped(entry', clock', holder', mishaps')
  BY MishapsCounted DEF IndexInv, StoreTyped
<1> QED
  BY <1>2, <1>6, <1>7, CallMoves

\* A call begins.
LEMMA CallKeeps ==
    ASSUME IndexInv, NEW q \in Procs, Call(q)
    PROVE  IndexInv'
<1>1. PICK a : a = proc[q]
  OBVIOUS
<1>2. PICK b : b = proc'[q]
  OBVIOUS
<1>3. /\ a = CallRecord(a) /\ proc = [p \in Procs |-> proc[p]] /\ CallTyped(a)
      /\ a.pc = "idle" /\ a.actions = <<>>
  BY <1>1 DEF IndexInv, CallStands, CallTyped, Call, At
<1>4. PICK op \in {"save", "prune", "clear", "invalidate", "dry run"} :
          IF op = "save"
          THEN \E i \in Incoming :
                  proc' = [proc EXCEPT ![q].pc = "lock", ![q].op = op, ![q].incoming = i]
          ELSE proc' = [proc EXCEPT ![q].pc = IF op = "dry run" THEN "list" ELSE "lock",
                                    ![q].op = op]
  BY DEF Call
<1>5. /\ CallTyped(b) /\ ~HasLock(b) /\ b.pc # "remove"
      /\ DOMAIN proc' = Procs /\ proc' = [p \in Procs |-> proc'[p]]
      /\ \A p \in Procs : proc'[p] = IF p = q THEN b ELSE proc[p]
  <2>1. CASE op = "save"
    <3>1. PICK i \in Incoming :
             proc' = [proc EXCEPT ![q].pc = "lock", ![q].op = op, ![q].incoming = i]
      BY <1>4, <2>1
    <3>2. b = [a EXCEPT !.pc = "lock", !.op = op, !.incoming = i]
      BY <1>1, <1>2, <1>3, <3>1
    <3>3. b = CallRecord(b) /\ b.pc = "lock" /\ b.op = op /\ b.incoming = i
          /\ b.actions = a.actions /\ b.result = a.result
      BY <1>3, <3>2 DEF CallRecord
    <3>4. CallTyped(b) /\ ~HasLock(b) /\ b.pc # "remove"
      BY <1>3, <2>1, <3>3 DEF CallTyped, HasLock, CallPlaces, CallKinds
    <3> QED
      BY <1>2, <1>3, <3>1, <3>4
  <2>2. CASE op # "save"
    <3> DEFINE pc == IF op = "dry run" THEN "list" ELSE "lock"
    <3>1. proc' = [proc EXCEPT ![q].pc = pc, ![q].op = op]
      BY <1>4, <2>2
    <3>2. pc \in {"list", "lock"} /\ (pc = "list" => op = "dry run")
      OBVIOUS
    <3> HIDE DEF pc
    <3>3. b = [a EXCEPT !.pc = pc, !.op = op]
      BY <1>1, <1>2, <1>3, <3>1
    <3>4. b = CallRecord(b) /\ b.pc = pc /\ b.op = op
          /\ b.actions = a.actions /\ b.result = a.result
      BY <1>3, <3>3 DEF CallRecord
    <3>5. CallTyped(b) /\ ~HasLock(b) /\ b.pc # "remove"
      BY <1>3, <2>2, <3>2, <3>4 DEF CallTyped, HasLock, CallPlaces, CallKinds
    <3> QED
      BY <1>2, <1>3, <3>1, <3>5
  <2> QED
    BY <2>1, <2>2
<1>6. CallStands(b, q, holder', entry')
  BY <1>5 DEF CallStands
<1>7. UNCHANGED <<entry, clock, holder, mishaps>>
  BY DEF Call
<1>8. StoreTyped(entry', clock', holder', mishaps')
  BY <1>7 DEF IndexInv
<1> QED
  BY <1>5, <1>6, <1>7, <1>8, CallMoves

\* The lock is taken, or the call is cancelled while it waits for it.
LEMMA LockKeeps ==
    ASSUME IndexInv, NEW q \in Procs, Lock(q)
    PROVE  IndexInv'
<1>1. /\ proc[q].pc = "lock" /\ entry' = entry /\ UNCHANGED clock /\ UNCHANGED mishaps
      /\ Listing(entry') /\ CallTyped(proc[q])
  BY DEF Lock, At, IndexInv, StoreTyped, CallStands
<1>2. CASE proc[q].canceled /\ Returns(q, "error", <<>>)
  BY <1>1, <1>2, ReturnsKeeps
<1>3. CASE holder = Nobody /\ holder' = q /\ Goes(q, IF proc[q].op = "save" THEN "write" ELSE "list")
  <2>1. CASE proc[q].op = "save"
    <3>1. Goes(q, "write") /\ "write" \in CallPlaces \ {"idle", "remove"}
      BY <1>3, <2>1 DEF CallPlaces
    <3> QED
      BY <1>1, <1>3, <2>1, <3>1, GoesKeeps
  <2>2. CASE proc[q].op # "save"
    <3>1. Goes(q, "list") /\ "list" \in CallPlaces \ {"idle", "remove"}
      BY <1>3, <2>2 DEF CallPlaces
    <3> QED
      BY <1>1, <1>3, <2>2, <3>1, GoesKeeps
  <2> QED
    BY <2>1, <2>2
<1> QED
  BY <1>2, <1>3 DEF Lock

\* Where temporary names and those of scans are.
LEMMA NamesAre ==
    ASSUME NEW q \in Procs
    PROVE  /\ TempOf[q] \in EntryNames /\ TempOf[q] \notin ScanNames /\ TempOf[q] \notin ForeignNames
           /\ ScanNames \subseteq EntryNames /\ ScanNames \cap ForeignNames = {}
           /\ ForeignNames \subseteq EntryNames
<1>1. TempOf[q] \in Range(TempOf)
  BY IndexAssumption DEF Range
<1> QED
  BY <1>1, IndexAssumption DEF EntryNames

\* What is written keeps the kinds of the names.
LEMMA WrittenIsListing ==
    ASSUME NEW q \in Procs, NEW held, Listing(held), NEW now \in Nat
    PROVE  /\ Listing([held EXCEPT ![TempOf[q]] = [kind |-> "temp", time |-> now, size |-> 1]])
           /\ \A n \in EntryNames : Listing([held EXCEPT ![n] = Absent])
<1>1. \A n \in EntryNames : Absent \in Holdable(n)
  BY DEF Absent, Holdable
<1>2. [kind |-> "temp", time |-> now, size |-> 1] \in Holdable(TempOf[q])
  BY NamesAre DEF Holdable
<1> QED
  BY <1>1, <1>2, NamesAre DEF Listing

\* The scan is written beside the others.
LEMMA WriteTempKeeps ==
    ASSUME IndexInv, NEW q \in Procs, WriteTemp(q)
    PROVE  IndexInv'
<1>1. /\ proc[q].pc = "write" /\ UNCHANGED clock /\ Listing(entry) /\ CallTyped(proc[q])
      /\ holder = q /\ clock \in Nat
  BY BoundsAre DEF WriteTemp, At, IndexInv, StoreTyped, CallStands, HasLock
<1>2. CASE /\ entry' = [entry EXCEPT ![TempOf[q]] = [kind |-> "temp", time |-> clock, size |-> 1]]
           /\ Goes(q, "publish") /\ UNCHANGED <<holder, mishaps>>
  <2>1. Listing(entry') /\ "publish" \in CallPlaces \ {"idle", "remove"} /\ proc[q].op = "save"
    BY <1>1, <1>2, WrittenIsListing DEF CallPlaces, CallTyped
  <2> QED
    BY <1>1, <1>2, <2>1, GoesKeeps
<1>3. CASE Returns(q, "error", <<>>) /\ UNCHANGED <<entry, mishaps>>
  BY <1>1, <1>3, ReturnsKeeps
<1>4. CASE Mishap /\ Returns(q, "error", <<>>) /\ UNCHANGED entry
  BY <1>1, <1>4, ReturnsKeeps
<1> QED
  BY <1>2, <1>3, <1>4 DEF WriteTemp

\* What is published is a scan in its place; the rest but the temporary file
\* is as it was.
LEMMA PublishedIs ==
    ASSUME NEW q \in Procs, Listing(entry), proc[q].incoming \in Incoming
    PROVE  /\ Listing(Published(q))
           /\ Published(q)[proc[q].incoming.name] = SavedAs(proc[q].incoming)
           /\ \A n \in EntryNames \ {TempOf[q], proc[q].incoming.name} : Published(q)[n] = entry[n]
<1> DEFINE i == proc[q].incoming
<1>1. i.name \in ScanNames /\ i.time \in Int /\ i.size \in Nat
  BY IndexAssumption
<1>2. SavedAs(i) \in Holdable(i.name)
  BY <1>1 DEF SavedAs, Holdable
<1>3. Published(q) = [entry EXCEPT ![TempOf[q]] = Absent, ![i.name] = SavedAs(i)]
  BY DEF Published, SavedAs
<1>4. TempOf[q] \in EntryNames /\ i.name \in EntryNames /\ i.name # TempOf[q]
  BY <1>1, NamesAre
<1>5. Absent \in Holdable(TempOf[q])
  BY DEF Absent, Holdable
<1> HIDE DEF i
<1>6. /\ Listing(Published(q)) /\ Published(q)[i.name] = SavedAs(i)
      /\ \A n \in EntryNames \ {TempOf[q], i.name} : Published(q)[n] = entry[n]
  BY <1>2, <1>3, <1>4, <1>5 DEF Listing
<1> QED
  BY <1>6 DEF i

\* The scan is renamed into its place.
LEMMA PublishKeeps ==
    ASSUME IndexInv, NEW q \in Procs, Publish(q)
    PROVE  IndexInv'
<1>1. /\ proc[q].pc = "publish" /\ UNCHANGED clock /\ Listing(entry) /\ CallTyped(proc[q])
      /\ holder = q /\ clock \in Nat /\ proc[q].op = "save" /\ proc[q].incoming \in Incoming
  BY BoundsAre DEF Publish, At, IndexInv, StoreTyped, CallStands, HasLock, CallTyped
<1>2. Listing([entry EXCEPT ![TempOf[q]] = Absent])
  BY <1>1, NamesAre, WrittenIsListing
<1>3. CASE entry' = Published(q) /\ Goes(q, "list") /\ UNCHANGED <<holder, mishaps>>
  <2>1. /\ Listing(entry') /\ "list" \in CallPlaces \ {"idle", "remove"}
        /\ entry'[proc[q].incoming.name] = SavedAs(proc[q].incoming)
    BY <1>1, <1>3, PublishedIs DEF CallPlaces
  <2> QED
    BY <1>1, <1>3, <2>1, GoesKeeps
<1>4. CASE /\ entry' = [entry EXCEPT ![TempOf[q]] = Absent]
           /\ Returns(q, "error", <<>>) /\ UNCHANGED mishaps
  BY <1>1, <1>2, <1>4, ReturnsKeeps
<1>5. CASE /\ Mishap /\ entry' \in {Published(q), [entry EXCEPT ![TempOf[q]] = Absent]}
           /\ Returns(q, "error", <<>>)
  <2>1. Listing(entry')
    BY <1>1, <1>2, <1>5, PublishedIs
  <2> QED
    BY <1>1, <1>5, <2>1, ReturnsKeeps
<1> QED
  BY <1>3, <1>4, <1>5 DEF Publish

\* What is found, with a scan that could not be read.
LEMMA FoundIs ==
    ASSUME Listing(entry), NEW unread \in SUBSET ScanNames,
           \A n \in unread : ValidIn(entry, n),
           NEW listed,
           listed = [n \in EntryNames |->
                        IF n \in unread THEN [entry[n] EXCEPT !.kind = "broken"] ELSE entry[n]]
    PROVE  Listing(listed) /\ \A n \in EntryNames : AsListed(entry[n], listed[n])
<1>1. ASSUME NEW n \in EntryNames, n \in unread
      PROVE  listed[n] \in Holdable(n) /\ AsListed(entry[n], listed[n])
  <2>1. PICK e : e = entry[n]
    OBVIOUS
  <2>2. PICK l : l = listed[n]
    OBVIOUS
  <2>3. /\ e = [kind |-> e.kind, time |-> e.time, size |-> e.size]
        /\ e.time \in Int /\ e.size \in Nat /\ e.kind = "snapshot"
    BY <1>1, <2>1 DEF Listing, Holdable, ValidIn
  <2>4. l = [e EXCEPT !.kind = "broken"]
    BY <1>1, <2>1, <2>2
  <2>5. l = [kind |-> "broken", time |-> e.time, size |-> e.size]
    BY <2>3, <2>4
  <2>6. AsListed(e, l) /\ l \in Holdable(n)
    BY <1>1, <2>3, <2>5 DEF AsListed, Holdable
  <2> QED
    BY <2>1, <2>2, <2>6
<1>2. ASSUME NEW n \in EntryNames, n \notin unread
      PROVE  listed[n] \in Holdable(n) /\ AsListed(entry[n], listed[n])
  BY <1>2 DEF Listing, AsListed
<1> QED
  BY <1>1, <1>2 DEF Listing

\* What is listed is the store, and the plan is made from it.
LEMMA InventoryKeeps ==
    ASSUME IndexInv, NEW q \in Procs, Inventory(q)
    PROVE  IndexInv'
<1>1. /\ proc[q].pc = "list" /\ UNCHANGED clock /\ entry' = entry /\ Listing(entry)
      /\ CallStands(proc[q], q, holder, entry) /\ Listing(entry')
      /\ proc = [p \in Procs |-> proc[p]]
  BY DEF Inventory, At, IndexInv, StoreTyped
<1>2. CASE proc[q].canceled /\ Returns(q, "error", <<>>) /\ UNCHANGED mishaps
  BY <1>1, <1>2, ReturnsKeeps
<1>3. ASSUME NEW unread \in {{}} \cup {{n} : n \in {k \in ScanNames : ValidIn(entry, k)}},
             NEW listed, NEW plan,
             listed = [n \in EntryNames |->
                        IF n \in unread THEN [entry[n] EXCEPT !.kind = "broken"] ELSE entry[n]],
             plan = PlanOf(proc[q], listed, clock),
             IF unread = {} THEN UNCHANGED mishaps ELSE Mishap,
             IF proc[q].op = "dry run"
             THEN \E actions : Returns(q, "ok", actions)
             ELSE /\ proc' = [proc EXCEPT ![q].pc = "remove", ![q].listed = listed,
                                          ![q].plan = plan, ![q].planned = clock]
                  /\ UNCHANGED holder
      PROVE  IndexInv'
  <2>1. CASE proc[q].op = "dry run"
    <3>1. PICK actions : Returns(q, "ok", actions)
      BY <1>3, <2>1
    <3> QED
      BY <1>1, <1>3, <3>1, ReturnsKeeps
  <2>2. CASE proc[q].op # "dry run"
    <3>1. PICK a : a = proc[q]
      OBVIOUS
    <3>2. PICK b : b = proc'[q]
      OBVIOUS
    <3>3. CallTyped(a) /\ a = CallRecord(a) /\ a.pc = "list" /\ a.op # "dry run"
      BY <1>1, <2>2, <3>1 DEF CallStands, CallTyped
    <3>4. HasLock(a) /\ holder = q /\ SavedFirst(a, entry)
      BY <1>1, <3>1, <3>3 DEF CallStands, HasLock
    <3>5. b = [a EXCEPT !.pc = "remove", !.listed = listed, !.plan = plan, !.planned = clock]
      BY <1>1, <1>3, <2>2, <3>1, <3>2
    <3>6. /\ b = CallRecord(b) /\ b.pc = "remove" /\ b.op = a.op /\ b.incoming = a.incoming
          /\ b.listed = listed /\ b.plan = plan /\ b.planned = clock /\ b.actions = a.actions
          /\ b.result = a.result
      BY <3>3, <3>5 DEF CallRecord
    <3>7. Listing(listed) /\ \A n \in EntryNames : AsListed(entry[n], listed[n])
      <4>1. unread \in SUBSET ScanNames /\ \A n \in unread : ValidIn(entry, n)
        OBVIOUS
      <4> QED
        BY <1>1, <1>3, <4>1, FoundIs
    <3>8. PlanOf(b, listed, clock) = PlanOf(a, listed, clock)
      BY <3>6 DEF PlanOf
    <3>9. a.actions = <<>> /\ a.op \in CallKinds \ {"none", "dry run"}
      BY <3>3 DEF CallTyped
    <3>10. CallTyped(b)
      <4>1. \A k \in {"remove"} : k \in CallPlaces /\ k \notin {"idle", "write", "publish"}
        BY DEF CallPlaces
      <4> QED
        BY <3>3, <3>6, <3>9, <4>1 DEF CallTyped
    <3>11. Removing(b, entry)
      <4>1. b.actions = <<>> /\ DOMAIN b.actions = 1..0 /\ 0 \in Nat
        <5>1. DOMAIN <<>> = 1..0
          OBVIOUS
        <5> QED
          BY <3>6, <3>9, <5>1
      <4>2. \A k \in DOMAIN b.actions : FALSE
        BY <4>1
      <4> QED
        BY <1>3, <3>1, <3>6, <3>7, <3>8, <4>1, <4>2 DEF Removing
    <3>12. SavedFirst(b, entry)
      BY <3>4, <3>6 DEF SavedFirst
    <3>13. CallStands(b, q, holder', entry')
      BY <1>1, <1>3, <2>2, <3>4, <3>6, <3>10, <3>11, <3>12 DEF CallStands
    <3>14. /\ DOMAIN proc' = Procs /\ proc' = [p \in Procs |-> proc'[p]]
           /\ \A p \in Procs : proc'[p] = IF p = q THEN b ELSE proc[p]
      BY <1>1, <1>3, <2>2, <3>2
    <3>15. StoreTyped(entry', clock', holder', mishaps')
      <4>1. UNCHANGED mishaps \/ Mishap
        BY <1>3
      <4> QED
        BY <1>1, <1>3, <2>2, <4>1, MishapsCounted DEF IndexInv, StoreTyped
    <3> QED
      <4>1. entry' = entry /\ holder' = holder
        BY <1>1, <1>3, <2>2
      <4> QED
        BY <3>13, <3>14, <3>15, <4>1, CallMoves
  <2> QED
    BY <2>1, <2>2
<1> QED
  BY <1>2, <1>3 DEF Inventory

\* Finitely many numbers have a least.
LEMMA MinIsOne ==
    ASSUME NEW S \in SUBSET Int, IsFiniteSet(S), S # {}
    PROVE  Min(S) \in S
<1> DEFINE F == {T \in SUBSET S : T = {} \/ \E n \in T : \A m \in T : n <= m}
<1>1. ASSUME NEW T \in SUBSET S, NEW x \in S \ T, T \in F
      PROVE  T \cup {x} \in F
  <2>1. CASE T = {}
    BY <2>1
  <2>2. CASE T # {}
    <3>1. PICK n \in T : \A m \in T : n <= m
      BY <1>1, <2>2
    <3>2. CASE n <= x
      BY <3>1, <3>2
    <3>3. CASE x <= n
      BY <3>1, <3>3
    <3> QED
      BY <3>2, <3>3
  <2> QED
    BY <2>1, <2>2
<1>2. SUBSET S \subseteq F
  <2>1. {} \in F
    OBVIOUS
  <2> HIDE DEF F
  <2> QED
    BY <1>1, <2>1, SetInduction
<1>3. \E n \in S : \A m \in S : n <= m
  BY <1>2
<1> QED
  BY <1>3 DEF Min

\* The next removal is one of those planned that is left; it is the store's,
\* and not the scan just saved.
LEMMA NextRemovalIs ==
    ASSUME IndexInv, NEW q \in Procs, At(q, "remove"), Acted(q) # DOMAIN proc[q].plan
    PROVE  /\ NextRemoval(q) \in DOMAIN proc[q].plan \ Acted(q)
           /\ NextRemoval(q) \in EntryNames \ ForeignNames
           /\ proc[q].op = "save" => NextRemoval(q) # proc[q].incoming.name
<1> DEFINE a == proc[q]
           S == DOMAIN a.plan \ Acted(q)
<1>1. /\ CallTyped(a) /\ SavedFirst(a, entry) /\ Removing(a, entry) /\ Listing(a.listed)
      /\ a.plan = PlanOf(a, a.listed, a.planned)
  BY DEF IndexInv, CallStands, At, Removing
<1>2. a.op = "save" =>
        a.incoming \in Incoming /\ a.incoming.name \in ScanNames /\ a.incoming.size \in Nat
  BY <1>1, IndexAssumption DEF CallTyped
<1>3. Acted(q) \subseteq DOMAIN a.plan
  BY <1>1 DEF Removing, Acted
<1>4. DOMAIN a.plan \subseteq Removable(a.listed)
  <2>1. DOMAIN PlanOf(a, a.listed, a.planned) \subseteq Removable(a.listed)
    BY DEF PlanOf, PrunePlan, ClearPlan, InvalidatePlan
  <2> QED
    BY <1>1, <2>1
<1>5. S # {} /\ S \in SUBSET (EntryNames \ ForeignNames)
  BY <1>3, <1>4 DEF Removable
<1>6. Min(S) \in S
  <2>1. IsFiniteSet(S) /\ S \in SUBSET Int
    BY <1>5, NamesAreFinite, FS_Subset, IndexAssumption
  <2> HIDE DEF S
  <2> QED
    BY <1>5, <2>1, MinIsOne
<1>7. NextRemoval(q) \in S
  BY <1>6 DEF NextRemoval
<1>8. ASSUME a.op = "save"
      PROVE  a.incoming.name \notin DOMAIN a.plan
  <2> DEFINE i == a.incoming
  <2>1. entry[i.name] = SavedAs(i) /\ i.name \in EntryNames
    BY <1>1, <1>2, <1>8 DEF SavedFirst, EntryNames
  <2>2. CASE AsListed(entry[i.name], a.listed[i.name])
    <3>1. a.listed[i.name].size = i.size
      BY <2>1, <2>2 DEF AsListed, SavedAs
    <3> QED
      BY <1>1, <1>2, <1>8, <3>1, PlanIs
  <2>3. CASE \E k \in DOMAIN a.actions : a.actions[k].name = i.name
    <3>1. entry[i.name] = Absent
      BY <1>1, <2>3 DEF Removing
    <3>2. Absent # SavedAs(i)
      <4>1. Absent.kind # SavedAs(i).kind
        BY DEF Absent, SavedAs
      <4> QED
        BY <4>1
    <3> QED
      BY <2>1, <3>1, <3>2
  <2> QED
    BY <1>1, <2>1, <2>2, <2>3 DEF Removing
<1> QED
  BY <1>5, <1>7, <1>8

\* One file of the plan is removed, or the call fails at it.
LEMMA RemoveOneKeeps ==
    ASSUME IndexInv, NEW q \in Procs, RemoveOne(q)
    PROVE  IndexInv'
<1> DEFINE n == NextRemoval(q)
<1>1. /\ proc[q].pc = "remove" /\ UNCHANGED clock /\ Listing(entry) /\ holder = q
      /\ CallStands(proc[q], q, holder, entry) /\ proc = [p \in Procs |-> proc[p]]
      /\ At(q, "remove") /\ Acted(q) # DOMAIN proc[q].plan
  BY DEF RemoveOne, At, IndexInv, StoreTyped, CallStands, HasLock
<1>2. /\ n \in DOMAIN proc[q].plan /\ n \in EntryNames
      /\ proc[q].op = "save" => n # proc[q].incoming.name
  BY <1>1, NextRemovalIs
<1> HIDE DEF n
<1>3. Listing([entry EXCEPT ![n] = Absent])
  <2>1. Absent \in Holdable(n)
    BY DEF Absent, Holdable
  <2> QED
    BY <1>1, <1>2, <2>1 DEF Listing
<1>4. CASE /\ entry' = [entry EXCEPT ![n] = Absent]
           /\ proc' = [proc EXCEPT ![q].actions = WithAction(q, TRUE, FALSE)]
           /\ UNCHANGED <<holder, mishaps>>
  <2>1. PICK a : a = proc[q]
    OBVIOUS
  <2>2. PICK b : b = proc'[q]
    OBVIOUS
  <2>3. /\ CallTyped(a) /\ a = CallRecord(a) /\ SavedFirst(a, entry) /\ Removing(a, entry)
        /\ a.pc = "remove"
    BY <1>1, <2>1 DEF CallStands, CallTyped
  <2>4. PICK act : act = [name |-> n, removed |-> TRUE, maybe |-> FALSE]
    OBVIOUS
  <2>5. b = [a EXCEPT !.actions = Append(a.actions, act)]
    BY <1>1, <1>4, <2>1, <2>2, <2>4 DEF WithAction, n
  <2>6. /\ b = CallRecord(b) /\ b.pc = a.pc /\ b.op = a.op /\ b.incoming = a.incoming
        /\ b.listed = a.listed /\ b.plan = a.plan /\ b.planned = a.planned
        /\ b.result = a.result /\ b.actions = Append(a.actions, act)
    BY <2>3, <2>5 DEF CallRecord
  <2>7. PICK m \in Nat : DOMAIN a.actions = 1..m
    BY <2>3 DEF Removing
  <2>8. /\ DOMAIN b.actions = 1..(m + 1) /\ b.actions[m + 1] = act
        /\ \A k \in 1..m : b.actions[k] = a.actions[k]
    <3>1. Len(a.actions) = m
      BY <2>7
    <3>2. b.actions = [k \in 1..(m + 1) |-> IF k = m + 1 THEN act ELSE a.actions[k]]
      BY <2>6, <3>1
    <3> QED
      BY <2>7, <3>2
  <2>9. /\ entry'[n] = Absent /\ \A x \in EntryNames \ {n} : entry'[x] = entry[x]
    BY <1>1, <1>2, <1>4 DEF Listing
  <2>10. PlanOf(b, b.listed, b.planned) = PlanOf(a, a.listed, a.planned)
    BY <2>6 DEF PlanOf
  <2>11. DOMAIN a.plan \subseteq EntryNames
    <3>1. DOMAIN PlanOf(a, a.listed, a.planned) \subseteq EntryNames
      BY DEF PlanOf, PrunePlan, ClearPlan, InvalidatePlan, Removable
    <3> QED
      BY <2>3, <3>1 DEF Removing
  <2>12. ASSUME NEW k \in DOMAIN b.actions
         PROVE  /\ b.actions[k] = [name |-> b.actions[k].name, removed |-> TRUE, maybe |-> FALSE]
                /\ b.actions[k].name \in DOMAIN b.plan
                /\ entry'[b.actions[k].name] = Absent
    <3>1. CASE k = m + 1
      <4>1. b.actions[k] = act /\ act.name = n
        BY <2>4, <2>8, <3>1
      <4> QED
        BY <1>2, <2>1, <2>4, <2>6, <2>9, <4>1
    <3>2. CASE k # m + 1
      <4>1. k \in 1..m /\ b.actions[k] = a.actions[k]
        BY <2>7, <2>8, <3>2
      <4>2. /\ a.actions[k] = [name |-> a.actions[k].name, removed |-> TRUE, maybe |-> FALSE]
            /\ a.actions[k].name \in DOMAIN a.plan
            /\ entry[a.actions[k].name] = Absent
        BY <2>3, <2>7, <4>1 DEF Removing
      <4> QED
        BY <2>6, <2>9, <2>11, <4>1, <4>2
    <3> QED
      BY <3>1, <3>2
  <2>13. ASSUME NEW x \in EntryNames
         PROVE  (\E k \in DOMAIN b.actions : b.actions[k].name = x) \/ AsListed(entry'[x], b.listed[x])
    <3>1. CASE x = n
      <4>1. m + 1 \in DOMAIN b.actions /\ b.actions[m + 1].name = x
        BY <2>4, <2>8, <3>1
      <4> QED
        BY <4>1
    <3>2. CASE x # n
      <4>1. (\E k \in DOMAIN a.actions : a.actions[k].name = x) \/ AsListed(entry[x], a.listed[x])
        BY <2>3 DEF Removing
      <4>2. \A k \in DOMAIN a.actions : k \in DOMAIN b.actions /\ b.actions[k] = a.actions[k]
        BY <2>7, <2>8
      <4> QED
        BY <2>6, <2>9, <3>2, <4>1, <4>2
    <3> QED
      BY <3>1, <3>2
  <2>14. Removing(b, entry')
    <3>1. Listing(b.listed) /\ b.plan = PlanOf(b, b.listed, b.planned)
      BY <2>3, <2>6, <2>10 DEF Removing
    <3>2. \E j \in Nat : DOMAIN b.actions = 1..j
      BY <2>8
    <3> QED
      BY <2>12, <2>13, <3>1, <3>2 DEF Removing
  <2>15. SavedFirst(b, entry')
    <3>1. a.op = "save" => a.incoming.name \in EntryNames /\ a.incoming.name # n
      BY <1>2, <2>1, <2>3, IndexAssumption DEF CallTyped, EntryNames
    <3> QED
      BY <2>3, <2>6, <2>9, <3>1 DEF SavedFirst
  <2>16. CallTyped(b)
    BY <2>3, <2>6 DEF CallTyped
  <2>17. CallStands(b, q, holder', entry')
    BY <1>1, <1>4, <2>3, <2>6, <2>14, <2>15, <2>16 DEF CallStands
  <2>18. /\ DOMAIN proc' = Procs /\ proc' = [p \in Procs |-> proc'[p]]
         /\ \A p \in Procs : proc'[p] = IF p = q THEN b ELSE proc[p]
    BY <1>1, <1>4, <2>2
  <2>19. StoreTyped(entry', clock', holder', mishaps')
    BY <1>1, <1>3, <1>4 DEF IndexInv, StoreTyped
  <2> QED
    BY <1>1, <1>4, <2>17, <2>18, <2>19, CallMoves
<1>5. CASE Returns(q, "error", proc[q].actions) /\ UNCHANGED <<entry, mishaps>>
  BY <1>1, <1>5, ReturnsKeeps
<1>6. CASE /\ Mishap /\ entry' = [entry EXCEPT ![n] = Absent]
           /\ Returns(q, "error", WithAction(q, TRUE, FALSE))
  BY <1>1, <1>3, <1>6, ReturnsKeeps
<1>7. CASE Mishap /\ UNCHANGED entry /\ Returns(q, "error", WithAction(q, FALSE, TRUE))
  BY <1>1, <1>7, ReturnsKeeps
<1> QED
  BY <1>4, <1>5, <1>6, <1>7 DEF RemoveOne, n

\* All of the plan is done.
LEMMA FinishKeeps ==
    ASSUME IndexInv, NEW q \in Procs, Finish(q)
    PROVE  IndexInv'
<1>1. /\ proc[q].pc = "remove" /\ UNCHANGED <<entry, clock, mishaps>> /\ Listing(entry)
  BY DEF Finish, At, IndexInv, StoreTyped
<1>2. PICK r \in {"ok", "error"} : Returns(q, r, proc[q].actions)
  BY DEF Finish
<1> QED
  BY <1>1, <1>2, ReturnsKeeps

\* The caller cancels.
LEMMA CancelCallKeeps ==
    ASSUME IndexInv, NEW q \in Procs, CancelCall(q)
    PROVE  IndexInv'
<1>1. PICK a : a = proc[q]
  OBVIOUS
<1>2. PICK b : b = proc'[q]
  OBVIOUS
<1>3. /\ a = CallRecord(a) /\ proc = [p \in Procs |-> proc[p]]
      /\ CallStands(a, q, holder, entry) /\ CallTyped(a)
  BY <1>1 DEF IndexInv, CallStands, CallTyped
<1>4. b = [a EXCEPT !.canceled = TRUE]
  BY <1>1, <1>2, <1>3 DEF CancelCall
<1>5. /\ b = CallRecord(b) /\ b.pc = a.pc /\ b.op = a.op /\ b.incoming = a.incoming
      /\ b.listed = a.listed /\ b.plan = a.plan /\ b.planned = a.planned
      /\ b.result = a.result /\ b.actions = a.actions
  BY <1>3, <1>4 DEF CallRecord
<1>6. PlanOf(b, b.listed, b.planned) = PlanOf(a, a.listed, a.planned)
  BY <1>5 DEF PlanOf
<1>7. /\ CallTyped(b) /\ (HasLock(b) <=> HasLock(a))
      /\ (SavedFirst(b, entry) <=> SavedFirst(a, entry))
      /\ (Removing(b, entry) <=> Removing(a, entry))
  <2>1. CallTyped(b)
    BY <1>3, <1>5 DEF CallTyped
  <2>2. (HasLock(b) <=> HasLock(a)) /\ (SavedFirst(b, entry) <=> SavedFirst(a, entry))
    BY <1>5 DEF HasLock, SavedFirst
  <2>3. Removing(b, entry) <=> Removing(a, entry)
    BY <1>5, <1>6 DEF Removing
  <2> QED
    BY <2>1, <2>2, <2>3
<1>8. UNCHANGED <<entry, clock, holder>> /\ Mishap
  BY DEF CancelCall
<1>9. CallStands(b, q, holder', entry')
  BY <1>3, <1>5, <1>7, <1>8 DEF CallStands
<1>10. /\ DOMAIN proc' = Procs /\ proc' = [p \in Procs |-> proc'[p]]
       /\ \A p \in Procs : proc'[p] = IF p = q THEN b ELSE proc[p]
  BY <1>2, <1>3 DEF CancelCall
<1>11. StoreTyped(entry', clock', holder', mishaps')
  BY <1>8, MishapsCounted DEF IndexInv, StoreTyped
<1> QED
  BY <1>8, <1>9, <1>10, <1>11, CallMoves

\* A process dies wherever it is, and the lock goes with it.
LEMMA DiesKeeps ==
    ASSUME IndexInv, NEW q \in Procs, Dies(q)
    PROVE  IndexInv'
<1>1. /\ proc[q].pc \notin {"idle", "over", "dead"} /\ UNCHANGED <<entry, clock>> /\ Mishap
      /\ Goes(q, "dead") /\ Listing(entry')
      /\ holder' = holder \/ (holder = q /\ holder' = Nobody)
  BY DEF Dies, IndexInv, StoreTyped
<1>2. "dead" \in CallPlaces \ {"idle", "remove"}
  BY DEF CallPlaces
<1> QED
  BY <1>1, <1>2, GoesKeeps

\* Time passes.
LEMMA TickKeeps ==
    ASSUME IndexInv, Tick
    PROVE  IndexInv'
<1>1. UNCHANGED <<entry, holder, proc, mishaps>> /\ clock' \in 0..MaxClock
  BY BoundsAre DEF Tick, IndexInv, StoreTyped
<1> QED
  BY <1>1 DEF IndexInv, StoreTyped

\* Every step keeps it.
LEMMA IndexStep == IndexInv /\ [IndexNext \/ IndexRests]_indexVars => IndexInv'
<1> SUFFICES ASSUME IndexInv, [IndexNext \/ IndexRests]_indexVars PROVE IndexInv'
  OBVIOUS
<1>1. ASSUME NEW q \in Procs,
             Call(q) \/ Lock(q) \/ WriteTemp(q) \/ Publish(q) \/ Inventory(q)
                \/ RemoveOne(q) \/ Finish(q) \/ CancelCall(q) \/ Dies(q)
      PROVE  IndexInv'
  BY <1>1, CallKeeps, LockKeeps, WriteTempKeeps, PublishKeeps, InventoryKeeps, RemoveOneKeeps,
     FinishKeeps, CancelCallKeeps, DiesKeeps
<1>2. CASE Tick
  BY <1>2, TickKeeps
<1>3. CASE UNCHANGED indexVars
  BY <1>3 DEF indexVars, IndexInv
<1> QED
  BY <1>1, <1>2, <1>3 DEF IndexNext, IndexRests

\* It holds at all times.
LEMMA IndexInvHolds == IndexSpec => []IndexInv
BY IndexBegins, IndexStep, PTL DEF IndexSpec

\* The store and its calls stay within their types.
THEOREM IndexTypes == IndexSpec => []IndexTypeOK
<1>1. IndexInv => IndexTypeOK
  BY DEF IndexInv, StoreTyped, Listing, CallStands, CallTyped, CallPlaces, CallKinds, HasLock,
         IndexTypeOK
<1> QED
  BY <1>1, IndexInvHolds, PTL

-----------------------------------------------------------------------------
(***************************************************************************)
(* The cached scans: what the steps do                                     *)
(***************************************************************************)

\* What a step does to the store, and whose call it is: nothing, or what the
\* process that has the lock does to its temporary name, to the scan it saves,
\* or to one that is planned.
LEMMA StoreChanges ==
    ASSUME IndexInv, [IndexNext \/ IndexRests]_indexVars
    PROVE  \/ entry' = entry
           \/ \E q \in Procs :
                 /\ holder = q
                 /\ \/ \A n \in EntryNames \ {TempOf[q]} : entry'[n] = entry[n]
                    \/ /\ proc[q].pc = "publish" /\ proc[q].op = "save"
                       /\ proc[q].incoming \in Incoming
                       /\ entry' = Published(q)
                    \/ /\ proc[q].pc = "remove" /\ Acted(q) # DOMAIN proc[q].plan
                       /\ entry' = [entry EXCEPT ![NextRemoval(q)] = Absent]
<1>1. ASSUME NEW q \in Procs, Call(q) \/ Lock(q) \/ Inventory(q) \/ Finish(q) \/ CancelCall(q) \/ Dies(q)
      PROVE  entry' = entry
  BY <1>1 DEF Call, Lock, Inventory, Finish, CancelCall, Dies
<1>2. ASSUME NEW q \in Procs, HasLock(proc[q])
      PROVE  holder = q /\ Listing(entry) /\ CallTyped(proc[q])
  BY <1>2 DEF IndexInv, CallStands, StoreTyped
<1>3. ASSUME NEW q \in Procs, WriteTemp(q), entry' # entry
      PROVE  holder = q /\ \A n \in EntryNames \ {TempOf[q]} : entry'[n] = entry[n]
  <2>1. HasLock(proc[q])
    BY <1>3 DEF WriteTemp, At, HasLock
  <2>2. entry' = [entry EXCEPT ![TempOf[q]] = [kind |-> "temp", time |-> clock, size |-> 1]]
    BY <1>3 DEF WriteTemp
  <2> QED
    BY <1>2, <2>1, <2>2 DEF Listing
<1>4. ASSUME NEW q \in Procs, Publish(q), entry' # entry
      PROVE  /\ holder = q
             /\ \/ \A n \in EntryNames \ {TempOf[q]} : entry'[n] = entry[n]
                \/ /\ proc[q].pc = "publish" /\ proc[q].op = "save"
                   /\ proc[q].incoming \in Incoming
                   /\ entry' = Published(q)
  <2>1. HasLock(proc[q]) /\ proc[q].pc = "publish"
    BY <1>4 DEF Publish, At, HasLock
  <2>2. entry' = Published(q) \/ entry' = [entry EXCEPT ![TempOf[q]] = Absent]
    BY <1>4 DEF Publish
  <2>3. holder = q /\ Listing(entry) /\ proc[q].op = "save" /\ proc[q].incoming \in Incoming
    BY <1>2, <2>1 DEF CallTyped
  <2> QED
    BY <2>1, <2>2, <2>3 DEF Listing
<1>5. ASSUME NEW q \in Procs, RemoveOne(q), entry' # entry
      PROVE  /\ holder = q /\ proc[q].pc = "remove" /\ Acted(q) # DOMAIN proc[q].plan
             /\ entry' = [entry EXCEPT ![NextRemoval(q)] = Absent]
  <2>1. HasLock(proc[q]) /\ proc[q].pc = "remove" /\ Acted(q) # DOMAIN proc[q].plan
    BY <1>5 DEF RemoveOne, At, HasLock
  <2>2. entry' = [entry EXCEPT ![NextRemoval(q)] = Absent]
    BY <1>5 DEF RemoveOne
  <2> QED
    BY <1>2, <2>1, <2>2
<1>6. CASE Tick \/ UNCHANGED indexVars
  BY <1>6 DEF Tick, indexVars
<1>7. ASSUME NEW q \in Procs,
             Call(q) \/ Lock(q) \/ WriteTemp(q) \/ Publish(q) \/ Inventory(q)
                \/ RemoveOne(q) \/ Finish(q) \/ CancelCall(q) \/ Dies(q)
      PROVE  \/ entry' = entry
             \/ /\ holder = q
                /\ \/ \A n \in EntryNames \ {TempOf[q]} : entry'[n] = entry[n]
                   \/ /\ proc[q].pc = "publish" /\ proc[q].op = "save"
                      /\ proc[q].incoming \in Incoming
                      /\ entry' = Published(q)
                   \/ /\ proc[q].pc = "remove" /\ Acted(q) # DOMAIN proc[q].plan
                      /\ entry' = [entry EXCEPT ![NextRemoval(q)] = Absent]
  BY <1>1, <1>3, <1>4, <1>5, <1>7
<1> QED
  BY <1>6, <1>7 DEF IndexNext, IndexRests

\* What a step of a save changes: its own scan, and others only once that is
\* in its place.
LEMMA SaveStep ==
    ASSUME IndexInv, [IndexNext \/ IndexRests]_indexVars
    PROVE  /\ \A n \in ForeignNames : entry'[n] = entry[n]
           /\ \A p \in Procs :
                holder = p /\ proc[p].op = "save" =>
                    \A n \in ScanNames : entry'[n] # entry[n] =>
                        LET i == proc[p].incoming IN
                        /\ entry'[i.name] = [kind |-> "snapshot", time |-> i.time, size |-> i.size]
                        /\ n # i.name => entry[i.name] = entry'[i.name]
<1>1. CASE entry' = entry
  BY <1>1
<1>2. ASSUME NEW q \in Procs, holder = q,
             \A n \in EntryNames \ {TempOf[q]} : entry'[n] = entry[n]
      PROVE  \A n \in ForeignNames \cup ScanNames : entry'[n] = entry[n]
  BY <1>2, NamesAre
<1>3. ASSUME NEW q \in Procs, holder = q, proc[q].incoming \in Incoming, entry' = Published(q)
      PROVE  /\ \A n \in ForeignNames : entry'[n] = entry[n]
             /\ \A n \in ScanNames \ {proc[q].incoming.name} : entry'[n] = entry[n]
             /\ entry'[proc[q].incoming.name] = SavedAs(proc[q].incoming)
  <2>1. Listing(entry) /\ proc[q].incoming.name \in ScanNames
    BY <1>3, IndexAssumption DEF IndexInv, StoreTyped
  <2>2. /\ \A n \in EntryNames \ {TempOf[q], proc[q].incoming.name} : entry'[n] = entry[n]
        /\ entry'[proc[q].incoming.name] = SavedAs(proc[q].incoming)
    BY <1>3, <2>1, PublishedIs
  <2> QED
    BY <2>1, <2>2, NamesAre
<1>4. ASSUME NEW q \in Procs, holder = q, proc[q].pc = "remove", Acted(q) # DOMAIN proc[q].plan,
             entry' = [entry EXCEPT ![NextRemoval(q)] = Absent]
      PROVE  /\ \A n \in ForeignNames : entry'[n] = entry[n]
             /\ proc[q].op = "save" =>
                  /\ entry[proc[q].incoming.name] = SavedAs(proc[q].incoming)
                  /\ entry'[proc[q].incoming.name] = entry[proc[q].incoming.name]
  <2>1. Listing(entry) /\ SavedFirst(proc[q], entry) /\ At(q, "remove") /\ CallTyped(proc[q])
    BY <1>4 DEF IndexInv, StoreTyped, CallStands, At
  <2>2. /\ NextRemoval(q) \in EntryNames \ ForeignNames
        /\ proc[q].op = "save" => NextRemoval(q) # proc[q].incoming.name
    BY <1>4, <2>1, NextRemovalIs
  <2>3. proc[q].op = "save" => proc[q].incoming.name \in ScanNames
    BY <2>1, IndexAssumption DEF CallTyped
  <2> QED
    BY <1>4, <2>1, <2>2, <2>3, NamesAre DEF Listing, SavedFirst
<1>5. \A p, q \in Procs : holder = p /\ holder = q => p = q
  OBVIOUS
<1>6. ASSUME NEW q \in Procs, holder = q,
             \/ \A n \in EntryNames \ {TempOf[q]} : entry'[n] = entry[n]
             \/ proc[q].incoming \in Incoming /\ entry' = Published(q)
             \/ /\ proc[q].pc = "remove" /\ Acted(q) # DOMAIN proc[q].plan
                /\ entry' = [entry EXCEPT ![NextRemoval(q)] = Absent]
      PROVE  /\ \A n \in ForeignNames : entry'[n] = entry[n]
             /\ proc[q].op = "save" => \A n \in ScanNames : entry'[n] # entry[n] =>
                   /\ entry'[proc[q].incoming.name] = SavedAs(proc[q].incoming)
                   /\ n # proc[q].incoming.name =>
                         entry[proc[q].incoming.name] = entry'[proc[q].incoming.name]
  <2>1. CASE \A n \in EntryNames \ {TempOf[q]} : entry'[n] = entry[n]
    BY <1>2, <1>6, <2>1
  <2>2. CASE proc[q].incoming \in Incoming /\ entry' = Published(q)
    BY <1>3, <1>6, <2>2
  <2>3. CASE /\ proc[q].pc = "remove" /\ Acted(q) # DOMAIN proc[q].plan
             /\ entry' = [entry EXCEPT ![NextRemoval(q)] = Absent]
    BY <1>4, <1>6, <2>3
  <2> QED
    BY <1>6, <2>1, <2>2, <2>3
<1>7. CASE entry' # entry
  <2>1. PICK q \in Procs :
            /\ holder = q
            /\ \/ \A n \in EntryNames \ {TempOf[q]} : entry'[n] = entry[n]
               \/ /\ proc[q].pc = "publish" /\ proc[q].op = "save"
                  /\ proc[q].incoming \in Incoming
                  /\ entry' = Published(q)
               \/ /\ proc[q].pc = "remove" /\ Acted(q) # DOMAIN proc[q].plan
                  /\ entry' = [entry EXCEPT ![NextRemoval(q)] = Absent]
    BY <1>7, StoreChanges
  <2>2. /\ \A n \in ForeignNames : entry'[n] = entry[n]
        /\ proc[q].op = "save" => \A n \in ScanNames : entry'[n] # entry[n] =>
              /\ entry'[proc[q].incoming.name] = SavedAs(proc[q].incoming)
              /\ n # proc[q].incoming.name =>
                    entry[proc[q].incoming.name] = entry'[proc[q].incoming.name]
    BY <1>6, <2>1
  <2> QED
    BY <2>1, <2>2 DEF SavedAs
<1> QED
  BY <1>1, <1>7

\* Nothing is removed for a save that is not in its place, and nothing ever
\* that is not the store's.
THEOREM SavedBeforeRemoved == IndexSpec => SavePublishesFirst
<1> DEFINE Foreign == \A n \in ForeignNames : entry'[n] = entry[n]
           First == \A p \in Procs :
                holder = p /\ proc[p].op = "save" =>
                    \A n \in ScanNames : entry'[n] # entry[n] =>
                        LET i == proc[p].incoming IN
                        /\ entry'[i.name] = [kind |-> "snapshot", time |-> i.time, size |-> i.size]
                        /\ n # i.name => entry[i.name] = entry'[i.name]
<1>1. IndexInv /\ [IndexNext \/ IndexRests]_indexVars => [Foreign /\ First]_indexVars
  BY SaveStep
<1> QED
  BY <1>1, IndexInvHolds, PTL DEF IndexSpec, SavePublishesFirst

\* A call returns by a step of its own.
LEMMA ReturnsBy ==
    ASSUME IndexInv, [IndexNext \/ IndexRests]_indexVars, NEW p \in Procs, ReturnsNow(p)
    PROVE  Lock(p) \/ WriteTemp(p) \/ Publish(p) \/ Inventory(p) \/ RemoveOne(p) \/ Finish(p)
<1>1. proc = [x \in Procs |-> proc[x]] /\ proc[p] # proc'[p]
  BY DEF IndexInv, ReturnsNow
<1>8. proc[p] # proc'[p]
  BY DEF ReturnsNow
<1>5. PICK a : a = proc[p]
  OBVIOUS
<1>6. PICK b : b = proc'[p]
  OBVIOUS
<1>7. a = CallRecord(a)
  BY <1>5 DEF IndexInv, CallStands, CallTyped
<1>2. ASSUME NEW q \in Procs \ {p},
             Call(q) \/ Lock(q) \/ WriteTemp(q) \/ Publish(q) \/ Inventory(q)
                \/ RemoveOne(q) \/ Finish(q) \/ CancelCall(q) \/ Dies(q)
      PROVE  FALSE
  <2> DEFINE Same == proc'[p] = proc[p]
  <2>1. ASSUME NEW r, NEW acts, Returns(q, r, acts)
        PROVE  Same
    BY <1>1, <2>1 DEF Returns
  <2>2. ASSUME NEW pc, Goes(q, pc)
        PROVE  Same
    BY <1>1, <2>2 DEF Goes
  <2>3. Call(q) => Same
    BY <1>1 DEF Call
  <2>4. Inventory(q) => Same
    <3> SUFFICES ASSUME Inventory(q) PROVE Same
      OBVIOUS
    <3>1. (\E r, acts : Returns(q, r, acts))
          \/ \E l, pl : proc' = [proc EXCEPT ![q].pc = "remove", ![q].listed = l,
                                             ![q].plan = pl, ![q].planned = clock]
      BY DEF Inventory
    <3> QED
      BY <1>1, <2>1, <3>1
  <2>5. RemoveOne(q) => Same
    BY <1>1, <2>1 DEF RemoveOne
  <2>6. CancelCall(q) => Same
    BY <1>1 DEF CancelCall
  <2>7. Lock(q) \/ WriteTemp(q) \/ Publish(q) \/ Finish(q) \/ Dies(q) => Same
    <3> HIDE DEF Same
    <3> QED
      BY <2>1, <2>2 DEF Lock, WriteTemp, Publish, Finish, Dies
  <2>8. Same
    <3> HIDE DEF Same
    <3> QED
      BY <1>2, <2>3, <2>4, <2>5, <2>6, <2>7
  <2> QED
    BY ONLY <1>8, <2>8
<1>3. ~Tick /\ ~UNCHANGED indexVars
  BY <1>1 DEF Tick, indexVars
<1>4. ~Call(p) /\ ~CancelCall(p) /\ ~Dies(p)
  <2>1. ASSUME Dies(p) PROVE FALSE
    <3>1. proc'[p].pc = "dead"
      BY <2>1, GoesSo DEF Dies
    <3> QED
      BY <3>1 DEF ReturnsNow
  <2>2. ASSUME CancelCall(p) PROVE FALSE
    <3>1. b = [a EXCEPT !.canceled = TRUE]
      BY <1>1, <1>5, <1>6, <2>2 DEF CancelCall
    <3>2. b.pc = a.pc
      BY <1>7, <3>1 DEF CallRecord
    <3> QED
      BY <1>5, <1>6, <3>2 DEF ReturnsNow
  <2>3. ASSUME Call(p) PROVE FALSE
    <3>1. \/ \E op, i : proc' = [proc EXCEPT ![p].pc = "lock", ![p].op = op, ![p].incoming = i]
          \/ \E op : proc' = [proc EXCEPT ![p].pc = IF op = "dry run" THEN "list" ELSE "lock",
                                          ![p].op = op]
      BY <2>3 DEF Call
    <3>2. ASSUME NEW op, NEW i,
                 proc' = [proc EXCEPT ![p].pc = "lock", ![p].op = op, ![p].incoming = i]
          PROVE  b.pc # "over"
      <4>1. b = [a EXCEPT !.pc = "lock", !.op = op, !.incoming = i]
        BY <1>1, <1>5, <1>6, <3>2
      <4> QED
        BY <1>7, <4>1 DEF CallRecord
    <3>3. ASSUME NEW op,
                 proc' = [proc EXCEPT ![p].pc = IF op = "dry run" THEN "list" ELSE "lock",
                                      ![p].op = op]
          PROVE  b.pc # "over"
      <4> DEFINE pc == IF op = "dry run" THEN "list" ELSE "lock"
      <4>1. proc' = [proc EXCEPT ![p].pc = pc, ![p].op = op] /\ pc \in {"lock", "list"}
        BY <3>3
      <4> HIDE DEF pc
      <4>2. b = [a EXCEPT !.pc = pc, !.op = op]
        BY <1>1, <1>5, <1>6, <4>1
      <4> QED
        BY <1>7, <4>1, <4>2 DEF CallRecord
    <3> QED
      BY <1>6, <3>1, <3>2, <3>3 DEF ReturnsNow
  <2> QED
    BY <2>1, <2>2, <2>3
<1> QED
  BY <1>2, <1>3, <1>4 DEF IndexNext, IndexRests

\* What one call reports is what happened.
Reported(call, removing, before, after) ==
    LET told == ToSet(call.actions)
        named == {a.name : a \in told}
    IN
    /\ call.op = "dry run" => after = before /\ \A a \in told : ~a.removed
    /\ removing =>
        /\ \A a \in told : a.removed => after[a.name] = Absent
        /\ \A a \in told : ~a.removed => a.maybe /\ call.result = "error"
        /\ \A n \in EntryNames \ named :
              after[n].kind = "absent" <=> call.listed[n].kind = "absent"
        /\ call.result = "ok" => named = DOMAIN call.plan

\* What has been reported so far is true.
LEMMA ReportedSoFar ==
    ASSUME NEW a, NEW held, Removing(a, held)
    PROVE  /\ \A t \in ToSet(a.actions) : t.removed /\ held[t.name] = Absent
                                          /\ t.name \in EntryNames
           /\ \A n \in EntryNames \ {t.name : t \in ToSet(a.actions)} :
                 held[n].kind = "absent" <=> a.listed[n].kind = "absent"
           /\ {t.name : t \in ToSet(a.actions)}
                 = {a.actions[k].name : k \in DOMAIN a.actions}
<1>1. \A k \in DOMAIN a.actions :
          /\ a.actions[k].removed /\ held[a.actions[k].name] = Absent
          /\ a.actions[k].name \in DOMAIN a.plan
  <2> SUFFICES ASSUME NEW k \in DOMAIN a.actions
               PROVE  /\ a.actions[k].removed /\ held[a.actions[k].name] = Absent
                      /\ a.actions[k].name \in DOMAIN a.plan
    OBVIOUS
  <2>1. PICK x : x = a.actions[k]
    OBVIOUS
  <2>2. /\ x = [name |-> x.name, removed |-> TRUE, maybe |-> FALSE]
        /\ x.name \in DOMAIN a.plan /\ held[x.name] = Absent
    BY <2>1 DEF Removing
  <2>3. x.removed
    BY <2>2
  <2> QED
    BY <2>1, <2>2, <2>3
<1>2. DOMAIN a.plan \subseteq EntryNames
  <2>1. DOMAIN PlanOf(a, a.listed, a.planned) \subseteq EntryNames
    BY DEF PlanOf, PrunePlan, ClearPlan, InvalidatePlan, Removable
  <2> QED
    BY <2>1 DEF Removing
<1>3. \A n \in EntryNames : (\E k \in DOMAIN a.actions : a.actions[k].name = n)
                            \/ AsListed(held[n], a.listed[n])
  BY DEF Removing
<1>4. \A n \in EntryNames : AsListed(held[n], a.listed[n]) =>
            (held[n].kind = "absent" <=> a.listed[n].kind = "absent")
  BY DEF AsListed
<1> QED
  BY <1>1, <1>2, <1>3, <1>4 DEF ToSet

\* A step that ends a call leaves it with the actions that were done.
LEMMA ActionsStep ==
    ASSUME IndexInv, [IndexNext \/ IndexRests]_indexVars, NEW p \in Procs, ReturnsNow(p)
    PROVE  Reported(proc'[p], At(p, "remove"), entry, entry')
<1>1. PICK a : a = proc[p]
  OBVIOUS
<1>2. PICK b : b = proc'[p]
  OBVIOUS
<1>3. CallStands(a, p, holder, entry) /\ CallTyped(a) /\ Listing(entry)
  BY <1>1 DEF IndexInv, CallStands, StoreTyped
<1> SUFFICES Reported(b, a.pc = "remove", entry, entry')
  BY <1>1, <1>2 DEF At
<1>4. ASSUME NEW acts, NEW r \in {"ok", "error"}, Returns(p, r, acts)
      PROVE  /\ b.actions = acts /\ b.result = r /\ b.op = a.op /\ b.listed = a.listed
             /\ b.plan = a.plan
  BY <1>1, <1>2, <1>4, ReturnsSo
<1>5. ASSUME NEW acts, Returns(p, "error", acts), acts = <<>>, a.pc # "remove",
             a.op = "dry run" => entry' = entry
      PROVE  Reported(b, a.pc = "remove", entry, entry')
  <2>1. b.actions = <<>> /\ b.op = a.op
    BY <1>4, <1>5
  <2>2. ToSet(<<>>) = {}
    <3>1. DOMAIN <<>> = {}
      OBVIOUS
    <3> QED
      BY <3>1 DEF ToSet
  <2> QED
    BY <1>5, <2>1, <2>2 DEF Reported
<1>6. CASE Lock(p)
  <2>1. Returns(p, "error", <<>>) /\ entry' = entry /\ a.pc = "lock"
    <3>1. ~Goes(p, "write") /\ ~Goes(p, "list")
      BY GoesSo DEF ReturnsNow
    <3> QED
      BY <1>1, <1>6, <3>1 DEF Lock, At
  <2> QED
    BY <1>5, <2>1
<1>7. CASE WriteTemp(p) \/ Publish(p)
  <2>1. Returns(p, "error", <<>>) /\ a.pc \in {"write", "publish"}
    <3>1. ~Goes(p, "publish") /\ ~Goes(p, "list")
      BY GoesSo DEF ReturnsNow
    <3> QED
      BY <1>1, <1>7, <3>1 DEF WriteTemp, Publish, At
  <2>2. a.op = "save"
    BY <1>3, <2>1 DEF CallTyped
  <2> QED
    BY <1>5, <2>1, <2>2
<1>8. CASE Inventory(p)
  <2>1. entry' = entry /\ a.pc = "list"
    BY <1>1, <1>8 DEF Inventory, At
  <2>2. CASE Returns(p, "error", <<>>)
    BY <1>5, <2>1, <2>2
  <2>3. CASE \E plan : Returns(p, "ok", Proposed(plan))
    <3>1. PICK acts : Returns(p, "ok", acts) /\ \A k \in DOMAIN acts : ~acts[k].removed
      <4>1. PICK plan : Returns(p, "ok", Proposed(plan))
        BY <2>3
      <4>2. \A k \in DOMAIN Proposed(plan) : ~Proposed(plan)[k].removed
        BY DEF Proposed
      <4> QED
        BY <4>1, <4>2
    <3>2. b.actions = acts
      BY <1>4, <3>1
    <3> QED
      BY <2>1, <3>1, <3>2 DEF Reported, ToSet
  <2>4. ASSUME NEW l, NEW pl, proc' = [proc EXCEPT ![p].pc = "remove", ![p].listed = l,
                                             ![p].plan = pl, ![p].planned = clock]
        PROVE  FALSE
    <3>1. a = CallRecord(a) /\ proc = [x \in Procs |-> proc[x]]
      BY <1>3 DEF CallTyped, IndexInv
    <3>2. b = [a EXCEPT !.pc = "remove", !.listed = l, !.plan = pl, !.planned = clock]
      BY <1>1, <1>2, <2>4, <3>1
    <3>3. b.pc = "remove"
      BY <3>1, <3>2 DEF CallRecord
    <3> QED
      BY <1>2, <3>3 DEF ReturnsNow
  <2> QED
    BY <1>1, <1>8, <2>2, <2>3, <2>4 DEF Inventory
<1>9. ASSUME a.pc = "remove"
      PROVE  /\ a.op # "dry run" /\ Removing(a, entry)
             /\ Acted(p) = {t.name : t \in ToSet(a.actions)}
  <2>1. Removing(a, entry)
    BY <1>3, <1>9 DEF CallStands
  <2>2. a.op # "dry run"
    BY <1>3, <1>9 DEF CallTyped
  <2> QED
    BY <1>1, <2>1, <2>2, ReportedSoFar DEF Acted
<1>10. CASE RemoveOne(p)
  <2> DEFINE n == NextRemoval(p)
  <2>1. /\ a.pc = "remove" /\ At(p, "remove") /\ Acted(p) # DOMAIN proc[p].plan
        /\ a.op # "dry run" /\ Removing(a, entry)
    BY <1>1, <1>9, <1>10 DEF RemoveOne, At
  <2>2. n \in EntryNames
    BY <2>1, NextRemovalIs
  <2> HIDE DEF n
  <2>3. /\ \A t \in ToSet(a.actions) : t.removed /\ entry[t.name] = Absent /\ t.name \in EntryNames
        /\ \A x \in EntryNames \ {t.name : t \in ToSet(a.actions)} :
              entry[x].kind = "absent" <=> a.listed[x].kind = "absent"
    BY <2>1, ReportedSoFar
  <2>4. PICK m \in Nat : DOMAIN a.actions = 1..m
    BY <2>1 DEF Removing
  <2>5. ASSUME NEW act
        PROVE  ToSet(Append(a.actions, act)) = ToSet(a.actions) \cup {act}
    <3>1. Len(a.actions) = m
      BY <2>4
    <3>2. Append(a.actions, act) = [k \in 1..(m + 1) |-> IF k = m + 1 THEN act ELSE a.actions[k]]
      BY <3>1
    <3>3. PICK s : s = Append(a.actions, act)
      OBVIOUS
    <3>4. DOMAIN s = 1..(m + 1) /\ s[m + 1] = act /\ \A k \in 1..m : s[k] = a.actions[k]
      BY <3>2, <3>3
    <3>5. ToSet(s) = ToSet(a.actions) \cup {act}
      <4>1. 1..(m + 1) = 1..m \cup {m + 1}
        OBVIOUS
      <4> QED
        BY <2>4, <3>4, <4>1 DEF ToSet
    <3> QED
      BY <3>3, <3>5
  <2>6. CASE /\ entry' = [entry EXCEPT ![n] = Absent]
             /\ proc' = [proc EXCEPT ![p].actions = WithAction(p, TRUE, FALSE)]
    <3>1. a = CallRecord(a) /\ proc = [x \in Procs |-> proc[x]]
      BY <1>3 DEF CallTyped, IndexInv
    <3>2. b = [a EXCEPT !.actions = WithAction(p, TRUE, FALSE)]
      BY <1>1, <1>2, <2>6, <3>1
    <3>3. b.pc = a.pc
      BY <3>1, <3>2 DEF CallRecord
    <3> QED
      BY <1>2, <2>1, <3>3 DEF ReturnsNow
  <2>7. CASE Returns(p, "error", proc[p].actions) /\ UNCHANGED entry
    <3>1. b.actions = a.actions /\ b.result = "error" /\ b.op = a.op /\ b.listed = a.listed
      BY <1>1, <1>4, <2>7
    <3> QED
      BY <2>1, <2>3, <2>7, <3>1 DEF Reported
  <2>8. CASE /\ entry' = [entry EXCEPT ![n] = Absent]
             /\ Returns(p, "error", WithAction(p, TRUE, FALSE))
    <3>1. PICK act : act = [name |-> n, removed |-> TRUE, maybe |-> FALSE]
      OBVIOUS
    <3>2. /\ b.actions = Append(a.actions, act) /\ b.result = "error" /\ b.op = a.op
          /\ b.listed = a.listed
      BY <1>1, <1>4, <2>8, <3>1 DEF WithAction, n
    <3>3. ToSet(b.actions) = ToSet(a.actions) \cup {act} /\ act.removed /\ act.name = n
      BY <2>5, <3>1, <3>2
    <3>4. entry'[n] = Absent /\ \A x \in EntryNames \ {n} : entry'[x] = entry[x]
      BY <1>3, <2>2, <2>8 DEF Listing
    <3>5. \A t \in ToSet(b.actions) : t.removed /\ entry'[t.name] = Absent
      BY <2>3, <3>3, <3>4
    <3>6. \A x \in EntryNames \ {t.name : t \in ToSet(b.actions)} :
              entry'[x].kind = "absent" <=> b.listed[x].kind = "absent"
      BY <2>3, <3>2, <3>3, <3>4
    <3> QED
      BY <2>1, <3>2, <3>5, <3>6 DEF Reported
  <2>9. CASE UNCHANGED entry /\ Returns(p, "error", WithAction(p, FALSE, TRUE))
    <3>1. PICK act : act = [name |-> n, removed |-> FALSE, maybe |-> TRUE]
      OBVIOUS
    <3>2. /\ b.actions = Append(a.actions, act) /\ b.result = "error" /\ b.op = a.op
          /\ b.listed = a.listed
      BY <1>1, <1>4, <2>9, <3>1 DEF WithAction, n
    <3>3. ToSet(b.actions) = ToSet(a.actions) \cup {act} /\ ~act.removed /\ act.maybe
      BY <2>5, <3>1, <3>2
    <3>4. /\ \A t \in ToSet(b.actions) : t.removed => entry'[t.name] = Absent
          /\ \A t \in ToSet(b.actions) : ~t.removed => t.maybe
      BY <2>3, <2>9, <3>3
    <3>5. \A x \in EntryNames \ {t.name : t \in ToSet(b.actions)} :
              entry'[x].kind = "absent" <=> b.listed[x].kind = "absent"
      BY <2>3, <2>9, <3>2, <3>3
    <3> QED
      BY <2>1, <3>2, <3>4, <3>5 DEF Reported
  <2> QED
    BY <1>1, <1>2, <1>10, <2>1, <2>6, <2>7, <2>8, <2>9 DEF RemoveOne, n
<1>11. CASE Finish(p)
  <2>1. /\ a.pc = "remove" /\ Acted(p) = DOMAIN a.plan /\ entry' = entry
        /\ a.op # "dry run" /\ Removing(a, entry)
        /\ Acted(p) = {t.name : t \in ToSet(a.actions)}
    BY <1>1, <1>9, <1>11 DEF Finish, At
  <2>2. PICK r \in {"ok", "error"} : Returns(p, r, proc[p].actions)
    BY <1>11 DEF Finish
  <2>3. /\ b.actions = a.actions /\ b.result = r /\ b.op = a.op /\ b.listed = a.listed
        /\ b.plan = a.plan
    BY <1>1, <1>4, <2>2
  <2>4. /\ \A t \in ToSet(a.actions) : t.removed /\ entry[t.name] = Absent
        /\ \A x \in EntryNames \ {t.name : t \in ToSet(a.actions)} :
              entry[x].kind = "absent" <=> a.listed[x].kind = "absent"
    BY <2>1, ReportedSoFar
  <2> QED
    BY <2>1, <2>3, <2>4 DEF Reported
<1> QED
  BY <1>6, <1>7, <1>8, <1>10, <1>11, ReturnsBy

\* A lifecycle command reports what has happened to the store.
THEOREM ReportsAreTrue == IndexSpec => ActionsAreTrue
<1> DEFINE All == \A p \in Procs : ReturnsNow(p) => Reported(proc'[p], At(p, "remove"), entry, entry')
           Body == \A p \in Procs :
                LET call == proc'[p]
                    told == ToSet(call.actions)
                    named == {a.name : a \in told}
                IN
                /\ ReturnsNow(p) /\ call.op = "dry run" => entry' = entry /\ \A a \in told : ~a.removed
                /\ ReturnsNow(p) /\ At(p, "remove") =>
                    /\ \A a \in told : a.removed => entry'[a.name] = Absent
                    /\ \A a \in told : ~a.removed => a.maybe /\ call.result = "error"
                    /\ \A n \in EntryNames \ named :
                          entry'[n].kind = "absent" <=> call.listed[n].kind = "absent"
                    /\ call.result = "ok" => named = DOMAIN call.plan
<1>1. IndexInv /\ [IndexNext \/ IndexRests]_indexVars => All
  BY ActionsStep
<1>2. All => Body
  BY DEF Reported
<1>3. IndexInv /\ [IndexNext \/ IndexRests]_indexVars => [Body]_indexVars
  BY <1>1, <1>2
<1> QED
  BY <1>3, IndexInvHolds, PTL DEF IndexSpec, ActionsAreTrue

\* The store when a save or a prune has removed all it planned: the scans it
\* holds are those that were kept.
LEMMA KeptIsLeft ==
    ASSUME NEW a, NEW held, Listing(held), CallTyped(a), a.op \in {"save", "prune"},
           Removing(a, held), SavedFirst(a, held),
           {a.actions[k].name : k \in DOMAIN a.actions} = DOMAIN a.plan
    PROVE  /\ MineOf(a) \in SUBSET ScanNames /\ SizeOfAll(a.listed, MineOf(a)) <= MaxBytes
           /\ MineOf(a) \subseteq {n \in ScanNames : held[n].kind = "snapshot"}
           /\ {n \in ScanNames : held[n].kind = "snapshot"} = Kept(a.listed, MineOf(a), a.planned)
           /\ \A n \in EntryNames : held[n].kind \notin {"broken", "temp"}
           /\ SizeOfAll(held, Kept(a.listed, MineOf(a), a.planned))
                 = SizeOfAll(a.listed, Kept(a.listed, MineOf(a), a.planned))
<1> DEFINE l == a.listed
           mine == MineOf(a)
           kept == Kept(l, mine, a.planned)
           stays == {n \in ScanNames : held[n].kind = "snapshot"}
<1>1. /\ Listing(l) /\ DOMAIN a.plan = DOMAIN PlanOf(a, l, a.planned)
      /\ \A n \in DOMAIN a.plan : held[n] = Absent
      /\ \A n \in EntryNames \ DOMAIN a.plan : AsListed(held[n], l[n])
  <2>1. /\ \A k \in DOMAIN a.actions : held[a.actions[k].name] = Absent
        /\ \A n \in EntryNames : (\E k \in DOMAIN a.actions : a.actions[k].name = n)
                                 \/ AsListed(held[n], l[n])
        /\ Listing(l) /\ a.plan = PlanOf(a, l, a.planned)
    BY DEF Removing
  <2> QED
    BY <2>1
<1>2. a.op = "save" => /\ a.incoming \in Incoming /\ a.incoming.name \in ScanNames
                       /\ a.incoming.name \in EntryNames
                       /\ held[a.incoming.name] = SavedAs(a.incoming)
  BY IndexAssumption DEF CallTyped, SavedFirst, EntryNames
<1>3. Absent.kind = "absent" /\ \A i : SavedAs(i).kind = "snapshot" /\ SavedAs(i).size = i.size
  BY DEF Absent, SavedAs
<1>4. a.op = "save" => l[a.incoming.name].size = a.incoming.size
  <2>1. ASSUME a.op = "save"
        PROVE  AsListed(held[a.incoming.name], l[a.incoming.name])
    BY <1>1, <1>2, <1>3, <2>1
  <2> QED
    BY <1>2, <1>3, <2>1 DEF AsListed
<1>5. /\ mine \in SUBSET ScanNames /\ SizeOfAll(l, mine) <= MaxBytes
      /\ DOMAIN a.plan = Removable(l) \ kept
  BY <1>1, <1>2, <1>4, PlanIs
<1>6. /\ Retained(l, mine, a.planned) \subseteq ScanNames /\ mine \subseteq kept
      /\ kept \subseteq mine \cup Retained(l, mine, a.planned)
  <2> HIDE DEF mine, l
  <2> QED
    BY <1>1, <1>5, KeptKeeps
<1>7. mine \subseteq stays
  BY <1>2, <1>3 DEF MineOf
<1>8. /\ ScanNames \subseteq EntryNames \ ForeignNames
      /\ \A n \in EntryNames : ValidIn(l, n) => n \in ScanNames
  BY <1>1, ListingIs
<1> HIDE DEF mine, kept, l
<1>9. ASSUME NEW n \in kept
      PROVE  n \in stays
  <2>1. CASE n \in mine
    BY <1>7, <2>1
  <2>2. CASE n \notin mine
    <3>1. ValidIn(l, n) /\ n \in ScanNames
      BY <1>6, <1>9, <2>2 DEF Retained
    <3>2. n \in EntryNames \ DOMAIN a.plan
      BY <1>5, <1>8, <1>9, <3>1
    <3>3. AsListed(held[n], l[n]) /\ l[n].kind = "snapshot"
      BY <1>1, <3>1, <3>2 DEF ValidIn
    <3> QED
      BY <3>1, <3>3 DEF AsListed
  <2> QED
    BY <2>1, <2>2
<1>10. ASSUME NEW n \in stays
       PROVE  n \in kept
  <2>1. n \in EntryNames \ ForeignNames /\ n \notin DOMAIN a.plan
    BY <1>1, <1>3, <1>8
  <2>2. AsListed(held[n], l[n])
    BY <1>1, <2>1
  <2>3. l[n].kind # "absent"
    BY <2>2 DEF AsListed
  <2> QED
    BY <1>5, <2>1, <2>3 DEF Removable
<1>11. kept = stays
  BY <1>6, <1>5, <1>9, <1>10
<1>12. ASSUME NEW n \in EntryNames
       PROVE  held[n].kind \notin {"broken", "temp"}
  <2>1. CASE n \in DOMAIN a.plan
    BY <1>1, <1>3, <2>1
  <2>2. CASE n \in kept
    BY <1>9, <2>2
  <2>3. CASE n \notin DOMAIN a.plan /\ n \notin kept /\ n \notin ForeignNames
    <3>1. l[n].kind = "absent"
      BY <1>5, <2>3 DEF Removable
    <3>2. AsListed(held[n], l[n])
      BY <1>1, <2>3
    <3> QED
      BY <3>1, <3>2 DEF AsListed
  <2>4. CASE n \in ForeignNames
    BY <1>8, <2>4 DEF Listing, Holdable
  <2> QED
    BY <2>1, <2>2, <2>3, <2>4
<1>13. SizeOfAll(held, kept) = SizeOfAll(l, kept)
  <2>1. kept \in SUBSET EntryNames
    BY <1>8, <1>11
  <2>2. Sized(held) /\ Sized(l)
    BY <1>1, ListingIs
  <2>3. \A n \in kept : AsListed(held[n], l[n])
    BY <1>1, <1>3, <1>9, <2>1
  <2>4. \A n \in kept : held[n].size = l[n].size
    BY <2>3 DEF AsListed
  <2> QED
    BY <2>1, <2>2, <2>4, SizesEqual
<1> QED
  BY <1>5, <1>7, <1>11, <1>12, <1>13 DEF mine, kept, l

\* What a successful save or prune leaves.
Retains(call, after) ==
    LET mine == IF call.op = "save" THEN {call.incoming.name} ELSE {}
        stays == {n \in ScanNames : after[n].kind = "snapshot"}
        fresh == {n \in ScanNames :
                    n \in mine \/ (ValidIn(call.listed, n)
                                  /\ ~Expired(call.listed, n, call.planned))}
        newest == {n \in fresh : \A m \in fresh :
                        RootOf[m] = RootOf[n] => m = n \/ Newer(call.listed, n, m)}
    IN
    /\ mine \subseteq stays
    /\ SizeOfAll(after, stays) <= MaxBytes
    /\ \A n \in EntryNames : after[n].kind \notin {"broken", "temp"}
    /\ \A n \in stays \ mine : n \in fresh
    /\ \A n \in fresh \ stays : call.listed[n].size + SizeOfAll(after, stays) > MaxBytes
    /\ SizeOfAll(call.listed, newest \cup mine) <= MaxBytes => newest \subseteq stays

\* A step that ends a save or a maintenance with success leaves the store as
\* the policy says.
LEMMA RetentionStep ==
    ASSUME IndexInv, [IndexNext \/ IndexRests]_indexVars, NEW p \in Procs, ReturnsNow(p),
           proc'[p].result = "ok", proc[p].op \in {"save", "prune"}
    PROVE  Retains(proc[p], entry')
<1>1. PICK a : a = proc[p]
  OBVIOUS
<1>2. CallStands(a, p, holder, entry) /\ CallTyped(a) /\ Listing(entry) /\ a.op \in {"save", "prune"}
  BY <1>1 DEF IndexInv, CallStands, StoreTyped
<1>3. ~\E acts : Returns(p, "error", acts)
  BY ReturnsSo
<1>4. Finish(p)
  <2>1. ~Lock(p) /\ ~WriteTemp(p) /\ ~Publish(p)
    <3>1. ~Goes(p, "write") /\ ~Goes(p, "list") /\ ~Goes(p, "publish")
      BY GoesSo DEF ReturnsNow
    <3> QED
      BY <1>3, <3>1 DEF Lock, WriteTemp, Publish
  <2>2. ~Inventory(p) /\ ~RemoveOne(p)
    <3>1. PICK b : b = proc'[p]
      OBVIOUS
    <3>2. a = CallRecord(a) /\ proc = [x \in Procs |-> proc[x]]
      BY <1>2 DEF CallTyped, IndexInv
    <3>3. ASSUME NEW l, NEW pl, proc' = [proc EXCEPT ![p].pc = "remove", ![p].listed = l,
                                               ![p].plan = pl, ![p].planned = clock]
          PROVE  FALSE
      <4>1. b = [a EXCEPT !.pc = "remove", !.listed = l, !.plan = pl, !.planned = clock]
        BY <1>1, <3>1, <3>2, <3>3
      <4>2. b.pc = "remove"
        BY <3>2, <4>1 DEF CallRecord
      <4> QED
        BY <3>1, <4>2 DEF ReturnsNow
    <3>4. ASSUME proc' = [proc EXCEPT ![p].actions = WithAction(p, TRUE, FALSE)]
          PROVE  FALSE
      <4>1. b = [a EXCEPT !.actions = WithAction(p, TRUE, FALSE)]
        BY <1>1, <3>1, <3>2, <3>4
      <4>2. b.pc = a.pc
        BY <3>2, <4>1 DEF CallRecord
      <4> QED
        BY <1>1, <3>1, <4>2 DEF ReturnsNow
    <3>5. ~RemoveOne(p)
      BY <1>3, <3>4 DEF RemoveOne
    <3>6. proc[p].op # "dry run"
      OBVIOUS
    <3> QED
      BY <1>3, <3>3, <3>5, <3>6 DEF Inventory
  <2> QED
    BY <2>1, <2>2, ReturnsBy
<1>5. /\ a.pc = "remove" /\ entry' = entry
      /\ {a.actions[k].name : k \in DOMAIN a.actions} = DOMAIN a.plan
  BY <1>1, <1>4 DEF Finish, At, Acted
<1>6. Removing(a, entry) /\ SavedFirst(a, entry)
  BY <1>2, <1>5 DEF CallStands
<1> DEFINE l == a.listed
           now == a.planned
           mine == MineOf(a)
           kept == Kept(l, mine, now)
           stays == {n \in ScanNames : entry[n].kind = "snapshot"}
           all == Retained(l, mine, now)
           fresh == {n \in ScanNames : n \in mine \/ (ValidIn(l, n) /\ ~Expired(l, n, now))}
           newest == {n \in fresh : \A m \in fresh :
                            RootOf[m] = RootOf[n] => m = n \/ Newer(l, n, m)}
<1>7. /\ mine \in SUBSET ScanNames /\ SizeOfAll(l, mine) <= MaxBytes
      /\ mine \subseteq stays /\ stays = kept
      /\ \A n \in EntryNames : entry[n].kind \notin {"broken", "temp"}
      /\ SizeOfAll(entry, kept) = SizeOfAll(l, kept)
  BY <1>2, <1>5, <1>6, KeptIsLeft
<1>8. Listing(l) /\ Sized(l) /\ ScanNames \subseteq EntryNames \ ForeignNames
  BY <1>6, ListingIs DEF Removing
<1>9. /\ SizeOfAll(l, kept) <= MaxBytes /\ kept \subseteq mine \cup all
      /\ \A n \in all \ kept : ~(SizeOfAll(l, kept \cup {n}) <= MaxBytes)
      /\ \A U \in SUBSET EntryNames :
            mine \cup NewestOfRoots(l, all) \subseteq U /\ SizeOfAll(l, U) <= MaxBytes
                => NewestOfRoots(l, all) \subseteq kept
  <2> HIDE DEF mine, l, now
  <2> QED
    BY <1>7, <1>8, KeptKeeps
<1>10. fresh = all
  <2>1. \A n \in mine : l[n].kind # "absent"
    <3>1. ASSUME NEW n \in mine
          PROVE  AsListed(entry[n], l[n])
      <4>1. entry[n].kind = "snapshot" /\ n \in EntryNames
        BY <1>7, <1>8
      <4>2. \A k \in DOMAIN a.actions : a.actions[k].name # n
        <5>1. Absent.kind = "absent"
          BY DEF Absent
        <5> QED
          BY <1>6, <4>1, <5>1 DEF Removing
      <4> QED
        BY <1>6, <4>1, <4>2 DEF Removing
    <3> QED
      BY <1>7, <3>1 DEF AsListed
  <2>2. \A n \in EntryNames : ValidIn(l, n) => l[n].kind # "absent" /\ n \in ScanNames
    BY <1>8, ListingIs DEF ValidIn
  <2> HIDE DEF mine, l, now
  <2> QED
    BY <1>7, <1>8, <2>1, <2>2 DEF Retained, Removable
<1>11. newest = NewestOfRoots(l, all)
  BY <1>10 DEF NewestOfRoots
<1> HIDE DEF l, now, mine, kept, all, fresh, newest
<1>12. ASSUME NEW n \in fresh \ stays
       PROVE  l[n].size + SizeOfAll(entry, stays) > MaxBytes
  <2>1. n \in EntryNames \ kept /\ kept \in SUBSET EntryNames /\ n \in all
    BY <1>7, <1>8, <1>10 DEF fresh
  <2>2. SizeOfAll(l, kept \cup {n}) = SizeOfAll(l, kept) + l[n].size
    BY <1>8, <2>1, SizesAdd
  <2>3. ~(SizeOfAll(l, kept \cup {n}) <= MaxBytes)
    BY <1>7, <1>9, <2>1
  <2>4. SizeOfAll(l, kept) \in Nat /\ l[n].size \in Nat /\ MaxBytes \in Nat
    BY <1>8, <2>1, SizesMore, BoundsAre DEF Sized
  <2>5. SizeOfAll(entry, stays) = SizeOfAll(l, kept)
    BY <1>7
  <2> QED
    BY <2>2, <2>3, <2>4, <2>5
<1>13. SizeOfAll(l, newest \cup mine) <= MaxBytes => newest \subseteq stays
  <2>1. newest \cup mine \in SUBSET EntryNames /\ mine \cup newest \subseteq newest \cup mine
    BY <1>7, <1>8 DEF newest, fresh
  <2> QED
    BY <1>7, <1>9, <1>11, <2>1
<1>14. \A n \in stays \ mine : n \in fresh
  BY <1>7, <1>9, <1>10
<1>15. /\ mine \subseteq stays /\ SizeOfAll(entry, stays) <= MaxBytes
       /\ \A n \in EntryNames : entry[n].kind \notin {"broken", "temp"}
  BY <1>7, <1>9
<1>16. Retains(a, entry)
  BY <1>12, <1>13, <1>14, <1>15 DEF Retains, stays, mine, fresh, newest, MineOf, l, now
<1> QED
  BY <1>1, <1>5, <1>16

\* A save or a prune that succeeds leaves what the retention allows, and as
\* much of it as fits.
THEOREM RetentionIsKept == IndexSpec => RetentionHolds
<1> DEFINE All == \A p \in Procs :
                ReturnsNow(p) /\ proc'[p].result = "ok" /\ proc[p].op \in {"save", "prune"} =>
                    Retains(proc[p], entry')
           Body == \A p \in Procs :
        LET call == proc[p]
            mine == IF call.op = "save" THEN {call.incoming.name} ELSE {}
            fresh == {n \in ScanNames :
                        n \in mine \/ (ValidIn(call.listed, n)
                                      /\ ~Expired(call.listed, n, call.planned))}
            newest == {n \in fresh : \A m \in fresh :
                            RootOf[m] = RootOf[n] => m = n \/ Newer(call.listed, n, m)}
        IN
        ReturnsNow(p) /\ proc'[p].result = "ok" /\ call.op \in {"save", "prune"} =>
            /\ mine \subseteq ScansThen
            /\ SizeOfAll(entry', ScansThen) <= MaxBytes
            /\ \A n \in EntryNames : entry'[n].kind \notin {"broken", "temp"}
            /\ \A n \in ScansThen \ mine : n \in fresh
            /\ \A n \in fresh \ ScansThen :
                  call.listed[n].size + SizeOfAll(entry', ScansThen) > MaxBytes
            /\ SizeOfAll(call.listed, newest \cup mine) <= MaxBytes => newest \subseteq ScansThen
<1>1. IndexInv /\ [IndexNext \/ IndexRests]_indexVars => All
  BY RetentionStep
<1>2. All => Body
  BY DEF Retains, ScansThen
<1>3. IndexInv /\ [IndexNext \/ IndexRests]_indexVars => [Body]_indexVars
  BY <1>1, <1>2
<1> QED
  BY <1>3, IndexInvHolds, PTL DEF IndexSpec, RetentionHolds


=============================================================================
