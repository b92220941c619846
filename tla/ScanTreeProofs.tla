--------------------------- MODULE ScanTreeProofs ---------------------------
(***************************************************************************)
(* That a complete scan returns the one right tree, for any file system,   *)
(* policy, slots and batches, wherever the rules say the same of an entry  *)
(* on every path on which aliases lead to it.  As long as nothing fails,   *)
(* what a scan has read, planned, recorded and counted accounts for every  *)
(* entry that its policy admits (AllSeen); when the scan of the root is    *)
(* over nothing is left to read or to record, and the settling of owners,  *)
(* which ProgramProofs is about, puts each directory and the bytes of each *)
(* file at the smallest of their paths (RightTree).                        *)
(***************************************************************************)
EXTENDS ProgramProofs, FiniteSetTheorems

-----------------------------------------------------------------------------
(***************************************************************************)
(* A walk without errors: nothing is missed                                *)
(***************************************************************************)

\* What the policy of w says of the entry n of d, when the scan of d has this
\* path and is on a file system of this type.
PhysicalIn(w, d, n) ==
    IF w.entries[d][n].alias /\ Goal(w, d, n) \in Dirs THEN w.home[Goal(w, d, n)]
    ELSE Appended(w.home[d], n)
SizeIn(w, d, n) == IF w.entries[d][n].alias /\ ~w.follow THEN 1 ELSE w.size[Goal(w, d, n)]
DeviceIn(w, d, n) == IF w.entries[d][n].alias /\ ~w.follow THEN w.device[d]
                     ELSE w.device[Goal(w, d, n)]
Listed(w, d, n, path) == AllowsEntry(w.policy, Appended(path, n), PhysicalIn(w, d, n))
Reachable(w, d, n, path, fstype) ==
    LET resolved == w.entries[d][n].alias /\ w.follow
        target == IF resolved THEN PhysicalIn(w, d, n) ELSE Appended(path, n)
    IN AllowsTarget(w.policy, target, PhysicalIn(w, d, n), DeviceIn(w, d, n), w.device[d],
                    IF resolved \/ DeviceIn(w, d, n) # w.device[d]
                    THEN FSOf(w.mounts, target) ELSE fstype)
Passes(w, d, n, path, fstype) ==
    /\ Listed(w, d, n, path) /\ Reachable(w, d, n, path, fstype)
    /\ Enters(w, d, n) \/ AllowsFile(w.policy, SizeIn(w, d, n))
Admits(w, f, d, n) == Passes(w, d, n, f.path, f.fstype)

IsRead(f) == f.pc \notin {"idle", "begin", "open"}

\* Every scan that was begun has a path, its parent's with its name.
PathsStand(w, fr, nd) ==
    \A d \in Dirs : fr[d].pc # "idle" =>
        IF d = w.root THEN fr[d].path = <<>>
        ELSE fr[d].path = Appended(fr[nd[d].parent].path, nd[d].name)

\* What was planned or is in the tree was admitted.
Sound(w, fr, nd, ls, ed) ==
    /\ \A d \in Dirs : \A n \in fr[d].batch : Listed(w, d, n, fr[d].path)
    /\ \A d \in Dirs : \A p \in fr[d].plans :
          p.kind # "error" /\ (p.kind = "seen" => w.follow) /\ Admits(w, fr[d], d, p.name)
    /\ \A l \in ls : ~l.err /\ Admits(w, fr[l.dir], l.dir, l.name)
    /\ \A e \in ed : IsRead(fr[e.from]) /\ Admits(w, fr[e.from], e.from, e.name)
    /\ \A d \in Dirs : nd[d].live /\ d # w.root =>
          Admits(w, fr[nd[d].parent], nd[d].parent, nd[d].name)

\* An entry that was read and admitted is planned or in the tree.
Got(w, f, nd, ls, ed, d, n) ==
    \/ \E p \in f.plans : p.name = n
    \/ ~Enters(w, d, n) /\ \E l \in ls : l.dir = d /\ l.name = n
    \/ /\ Enters(w, d, n)
       /\ IF w.follow THEN \E e \in ed : e.from = d /\ e.name = n
          ELSE nd[Goal(w, d, n)].live
NoneMissed(w, fr, nd, ls, ed) ==
    /\ \A d \in Dirs : IsRead(fr[d]) =>
        \A n \in Names(w, d) : n \in fr[d].unread \/ n \in fr[d].batch
                               \/ ~Admits(w, fr[d], d, n) \/ Got(w, fr[d], nd, ls, ed, d, n)
    /\ \A d \in Dirs : fr[d].pc = "done" => fr[d].unread = {}
    /\ \A d \in Dirs : nd[d].live /\ fr[d].pc = "idle" =>
          d # w.root /\ nd[d].name \in fr[nd[d].parent].todo

\* Each file has its bytes under one name.
Charged(w, d, n, bytes, link) ==
    /\ bytes = IF link THEN 0 ELSE SizeIn(w, d, n)
    /\ link \in BOOLEAN /\ (link => Multiple(w, d, n))
Holds(w, fr, ls, d, n) ==
    /\ \/ \E l \in ls : l.dir = d /\ l.name = n /\ ~l.link
       \/ \E p \in fr[d].plans : p.name = n /\ p.kind = "file" /\ ~p.link
    /\ Multiple(w, d, n)
ChargedOnce(w, fr, ls, co) ==
    /\ \A l \in ls : /\ Charged(w, l.dir, l.name, l.bytes, l.link)
                     /\ Multiple(w, l.dir, l.name) => l.id \in co
    /\ \A d \in Dirs : \A p \in fr[d].plans : p.kind = "file" =>
          /\ Charged(w, d, p.name, p.bytes, p.link)
          /\ Multiple(w, d, p.name) => IdOf(w, d, p.name) \in co
    /\ \A id \in co : \E d \in Dirs : \E n \in Names(w, d) :
          Holds(w, fr, ls, d, n) /\ IdOf(w, d, n) = id

\* Every file that was met and every directory that was begun is counted.
ScansBegun(fr) == {d \in Dirs : fr[d].pc \notin {"idle", "begin"}}
AllCounted(fr, ls, t) ==
    t.files = Cardinality(Met(fr, ls)) /\ t.dirs = Cardinality(ScansBegun(fr))

AllSeen(w, fr, nd, ls, ed, co, t) ==
    /\ PathsStand(w, fr, nd) /\ Sound(w, fr, nd, ls, ed) /\ NoneMissed(w, fr, nd, ls, ed)
    /\ ChargedOnce(w, fr, ls, co) /\ AllCounted(fr, ls, t)

\* Nobody cancelled the scan, and nothing failed in it.
Clean == ~cancelled /\ tally.errors = 0

\* What an entry is to the policy is what it is in its world.
LEMMA EntryPasses ==
    ASSUME NEW d \in Dirs, NEW n \in Names(world, d)
    PROVE  /\ SizeOf(d, n) = SizeIn(world, d, n) /\ Physical(d, n) = PhysicalIn(world, d, n)
           /\ \A path : TargetAllowed(d, n, Append(path, n))
                            <=> Reachable(world, d, n, path, frame[d].fstype)
           /\ \A path : AllowsEntry(world.policy, Append(path, n), Physical(d, n))
                            <=> Listed(world, d, n, path)
<1>1. /\ SizeOf(d, n) = SizeIn(world, d, n) /\ Physical(d, n) = PhysicalIn(world, d, n)
      /\ DeviceOf(d, n) = DeviceIn(world, d, n) /\ Target(d, n) = Goal(world, d, n)
      /\ IsAlias(d, n) = world.entries[d][n].alias /\ Follow = world.follow
  BY DEF SizeOf, SizeIn, Physical, PhysicalIn, DeviceOf, DeviceIn, Target, Goal, IsAlias, Follow,
         Appended
<1>2. \A path : TargetAllowed(d, n, Append(path, n))
                            <=> Reachable(world, d, n, path, frame[d].fstype)
  BY <1>1 DEF TargetAllowed, Reachable, Appended
<1> QED
  BY <1>1, <1>2 DEF Listed, Appended

\* One step of the walk that plans and records nothing: who has begun keeps its
\* path, and what is read was listed or is not admitted.
Onward(w, fr, to, nd) ==
    /\ \A x \in Dirs : to[x].plans = fr[x].plans
    /\ \A x \in Dirs : fr[x].pc # "idle" =>
          to[x].pc # "idle" /\ to[x].path = fr[x].path /\ to[x].fstype = fr[x].fstype
    /\ \A x \in Dirs : fr[x].pc = "idle" /\ to[x].pc # "idle" =>
          x # w.root /\ nd[x].live /\ to[x].path = Appended(fr[nd[x].parent].path, nd[x].name)
    /\ \A x \in Dirs : \A n \in to[x].batch :
          (fr[x].pc # "idle" /\ n \in fr[x].batch) \/ Listed(w, x, n, to[x].path)
    /\ \A x \in Dirs : IsRead(fr[x]) => IsRead(to[x])
    /\ \A x \in Dirs : IsRead(to[x]) => \A n \in Names(w, x) :
          \/ n \in to[x].unread \/ n \in to[x].batch \/ ~Listed(w, x, n, to[x].path)
          \/ IsRead(fr[x]) /\ n \notin fr[x].unread /\ n \notin fr[x].batch
    /\ \A x \in Dirs : to[x].pc = "done" => to[x].unread = {}
    /\ \A x \in Dirs : nd[x].live /\ to[x].pc = "idle" =>
          x # w.root /\ nd[x].name \in to[nd[x].parent].todo

\* Who is in the tree was read in a directory whose scan was begun.
LEMMA ParentsBegun ==
    ASSUME NEW w, NEW fr, NEW nd, NEW ls, NEW cl, NEW ed, NEW co,
           WalkStands(w, fr, nd, ls, cl, ed, co)
    PROVE  /\ \A d \in Dirs : nd[d].live /\ d # w.root =>
                nd[d].parent \in Dirs /\ IsRead(fr[nd[d].parent])
           /\ \A l \in ls : l.dir \in Dirs /\ IsRead(fr[l.dir])
           /\ \A d \in Dirs : fr[d].pc # "idle" => nd[d].live
           /\ \A d \in Dirs : fr[d].plans # {} => IsRead(fr[d])
<1>1. \A d \in Dirs : nd[d].live /\ d # w.root =>
                nd[d].parent \in Dirs /\ IsRead(fr[nd[d].parent])
  BY DEF WalkStands, TreeStands, RecordedOnce, Behind, IsRead
<1>2. \A l \in ls : l.dir \in Dirs /\ IsRead(fr[l.dir])
  BY DEF WalkStands, LeavesStand, RecordedOnce, Behind, IsRead
<1>3. \A d \in Dirs : fr[d].pc # "idle" => nd[d].live
  BY DEF WalkStands, Started, TreeStands
<1>4. \A d \in Dirs : fr[d].plans # {} => IsRead(fr[d])
  BY DEF WalkStands, FramesStand, FrameStands, IsRead
<1> QED
  BY <1>1, <1>2, <1>3, <1>4

\* Such a step misses nothing.
LEMMA OnwardSeen ==
    ASSUME NEW w, NEW fr, NEW nd, NEW ls, NEW cl, NEW ed, NEW co,
           WalkStands(w, fr, nd, ls, cl, ed, co), w.root \in Dirs,
           NEW t, AllSeen(w, fr, nd, ls, ed, co, t),
           NEW to, Onward(w, fr, to, nd), NEW now, SamePlace(nd, now),
           NEW s, s.files = t.files, s.dirs = Cardinality(ScansBegun(to))
    PROVE  AllSeen(w, to, now, ls, ed, co, s)
<1>1. /\ \A d \in Dirs : nd[d].live /\ d # w.root =>
                nd[d].parent \in Dirs /\ IsRead(fr[nd[d].parent])
      /\ \A l \in ls : l.dir \in Dirs /\ IsRead(fr[l.dir])
      /\ \A d \in Dirs : fr[d].pc # "idle" => nd[d].live
      /\ \A d \in Dirs : fr[d].plans # {} => IsRead(fr[d])
  BY ParentsBegun
<1>2. \A e \in ed : e.from \in Dirs /\ e.to = Goal(w, e.from, e.name)
  BY DEF WalkStands, EdgesStand
<1>3. \A x \in Dirs : IsRead(fr[x]) => fr[x].pc # "idle"
  BY DEF IsRead
<1>4. \A x \in Dirs : IsRead(fr[x]) =>
        /\ to[x].path = fr[x].path /\ to[x].fstype = fr[x].fstype
        /\ \A n : Admits(w, fr[x], x, n) <=> Admits(w, to[x], x, n)
  <2> SUFFICES ASSUME NEW x \in Dirs, IsRead(fr[x])
               PROVE  /\ to[x].path = fr[x].path /\ to[x].fstype = fr[x].fstype
                      /\ \A n : Admits(w, fr[x], x, n) <=> Admits(w, to[x], x, n)
    OBVIOUS
  <2>1. to[x].path = fr[x].path /\ to[x].fstype = fr[x].fstype
    BY <1>3 DEF Onward
  <2> QED
    BY <2>1 DEF Admits
<1>5. \A x \in Dirs : /\ now[x].live = nd[x].live /\ now[x].parent = nd[x].parent
                      /\ now[x].name = nd[x].name
  BY DEF SamePlace
<1>6. PathsStand(w, to, now)
  <2> SUFFICES ASSUME NEW d \in Dirs, to[d].pc # "idle"
               PROVE  IF d = w.root THEN to[d].path = <<>>
                      ELSE to[d].path = Appended(to[nd[d].parent].path, nd[d].name)
    BY <1>5 DEF PathsStand
  <2>1. CASE fr[d].pc # "idle"
    <3>1. /\ to[d].path = fr[d].path
          /\ IF d = w.root THEN fr[d].path = <<>>
             ELSE fr[d].path = Appended(fr[nd[d].parent].path, nd[d].name)
      BY <2>1 DEF Onward, AllSeen, PathsStand
    <3>2. d # w.root => to[nd[d].parent].path = fr[nd[d].parent].path
      BY <1>1, <1>4, <2>1
    <3> QED
      BY <3>1, <3>2
  <2>2. CASE fr[d].pc = "idle"
    <3>1. /\ d # w.root /\ nd[d].live
          /\ to[d].path = Appended(fr[nd[d].parent].path, nd[d].name)
      BY <2>2 DEF Onward
    <3>2. to[nd[d].parent].path = fr[nd[d].parent].path
      BY <1>1, <1>4, <3>1
    <3> QED
      BY <3>1, <3>2
  <2> QED
    BY <2>1, <2>2
<1>7. Sound(w, to, now, ls, ed)
  <2>1. \A d \in Dirs : \A n \in to[d].batch : Listed(w, d, n, to[d].path)
    <3> SUFFICES ASSUME NEW d \in Dirs, NEW n \in to[d].batch PROVE Listed(w, d, n, to[d].path)
      OBVIOUS
    <3>1. CASE fr[d].pc # "idle" /\ n \in fr[d].batch
      BY <3>1 DEF Onward, AllSeen, Sound
    <3> QED
      BY <3>1 DEF Onward
  <2>2. \A d \in Dirs : \A p \in to[d].plans :
          p.kind # "error" /\ (p.kind = "seen" => w.follow) /\ Admits(w, to[d], d, p.name)
    BY <1>1, <1>4 DEF Onward, AllSeen, Sound
  <2>3. \A l \in ls : ~l.err /\ Admits(w, to[l.dir], l.dir, l.name)
    BY <1>1, <1>4 DEF AllSeen, Sound
  <2>4. \A e \in ed : IsRead(to[e.from]) /\ Admits(w, to[e.from], e.from, e.name)
    BY <1>2, <1>4 DEF Onward, AllSeen, Sound
  <2>5. \A d \in Dirs : now[d].live /\ d # w.root =>
          Admits(w, to[now[d].parent], now[d].parent, now[d].name)
    BY <1>1, <1>4, <1>5 DEF AllSeen, Sound
  <2> QED
    BY <2>1, <2>2, <2>3, <2>4, <2>5 DEF Sound
<1>8. NoneMissed(w, to, now, ls, ed)
  <2>1. ASSUME NEW d \in Dirs, IsRead(to[d]), NEW n \in Names(w, d)
        PROVE  n \in to[d].unread \/ n \in to[d].batch
                 \/ ~Admits(w, to[d], d, n) \/ Got(w, to[d], now, ls, ed, d, n)
    <3>1. CASE IsRead(fr[d]) /\ n \notin fr[d].unread /\ n \notin fr[d].batch
      <4>1. ~Admits(w, fr[d], d, n) \/ Got(w, fr[d], nd, ls, ed, d, n)
        BY <3>1 DEF AllSeen, NoneMissed
      <4>2. Enters(w, d, n) => Goal(w, d, n) \in Dirs
        BY DEF Enters
      <4>3. to[d].plans = fr[d].plans
        BY DEF Onward
      <4>4. Got(w, fr[d], nd, ls, ed, d, n) => Got(w, to[d], now, ls, ed, d, n)
        BY <1>5, <4>2, <4>3 DEF Got
      <4> QED
        BY <1>4, <3>1, <4>1, <4>4
    <3>2. CASE ~(IsRead(fr[d]) /\ n \notin fr[d].unread /\ n \notin fr[d].batch)
      <4>1. n \in to[d].unread \/ n \in to[d].batch \/ ~Listed(w, d, n, to[d].path)
        BY <2>1, <3>2 DEF Onward
      <4> QED
        BY <4>1 DEF Admits, Passes
    <3> QED
      BY <3>1, <3>2
  <2>2. \A d \in Dirs : to[d].pc = "done" => to[d].unread = {}
    BY DEF Onward
  <2>3. \A d \in Dirs : now[d].live /\ to[d].pc = "idle" =>
          d # w.root /\ now[d].name \in to[now[d].parent].todo
    BY <1>5 DEF Onward
  <2> QED
    BY <2>1, <2>2, <2>3 DEF NoneMissed
<1>9. ChargedOnce(w, to, ls, co)
  <2>1. \A d \in Dirs : to[d].plans = fr[d].plans
    BY DEF Onward
  <2>2. \A d \in Dirs : \A n \in Names(w, d) : Holds(w, fr, ls, d, n) => Holds(w, to, ls, d, n)
    BY <2>1 DEF Holds
  <2>3. \A id \in co : \E d \in Dirs : \E n \in Names(w, d) :
          Holds(w, to, ls, d, n) /\ IdOf(w, d, n) = id
    BY <2>2 DEF AllSeen, ChargedOnce
  <2> QED
    BY <2>1, <2>3 DEF AllSeen, ChargedOnce
<1>10. AllCounted(to, ls, s)
  <2>1. \A d \in Dirs : {<<d, p.name>> : p \in {q \in to[d].plans : q.kind = "file"}}
                          = {<<d, p.name>> : p \in {q \in fr[d].plans : q.kind = "file"}}
    BY DEF Onward
  <2>2. Met(to, ls) = Met(fr, ls)
    BY <2>1 DEF Met
  <2> QED
    BY <2>2 DEF AllCounted, AllSeen
<1> QED
  BY <1>6, <1>7, <1>8, <1>9, <1>10 DEF AllSeen

\* The walk so far was without errors and missed nothing.
SeesAll == AllSeen(world, frame, node, leaves, edges, counted, tally)

\* What a scan without errors is about to do: no branch that fails is taken.
LEMMA NoErrorNow ==
    ASSUME Walking, Clean'
    PROVE  tally' # OneMoreError
<1>1. tally.errors \in Nat /\ tally'.errors = 0
  BY DEF Walking, TallyStands, Clean
<1>2. OneMoreError.errors = tally.errors + 1
  BY DEF OneMoreError, Walking, TallyStands
<1> QED
  BY <1>1, <1>2

\* Where the scan of d only moves on in its code, or has nothing more to read.
LEMMA GotoOnward ==
    ASSUME Walking, SeesAll, NEW d \in Dirs, NEW pc, NEW to, GoesTo(frame, to, d, pc),
           \/ frame[d].pc = "begin" /\ pc = "open"
           \/ IsRead(frame[d]) /\ pc \in {"read", "children", "call"}
           \/ IsRead(frame[d]) /\ pc = "done" /\ frame[d].unread = {}
    PROVE  /\ Onward(world, frame, to, node)
           /\ IsRead(frame[d]) => ScansBegun(to) = ScansBegun(frame)
<1>1. FramesStand(world, frame)
  BY DEF Walking, WalkStands
<1>2. \A x \in Dirs : /\ to[x].plans = frame[x].plans /\ to[x].path = frame[x].path
                      /\ to[x].fstype = frame[x].fstype /\ to[x].unread = frame[x].unread
                      /\ to[x].batch = frame[x].batch /\ to[x].todo = frame[x].todo
                      /\ to[x].pc = IF x = d THEN pc ELSE frame[x].pc
  BY <1>1, GotoSame
<1>3. frame[d].pc # "idle" /\ pc # "idle"
  BY DEF IsRead
<1>4. \A x \in Dirs : IsRead(to[x]) <=> IsRead(frame[x])
  BY <1>2 DEF IsRead
<1>5. \A x \in Dirs : \A n \in to[x].batch : frame[x].pc # "idle" /\ n \in frame[x].batch
  BY <1>1, <1>2 DEF FramesStand, FrameStands
<1>6. \A x \in Dirs : to[x].pc = "done" => to[x].unread = {}
  BY <1>2 DEF SeesAll, AllSeen, NoneMissed
<1>7. \A x \in Dirs : node[x].live /\ to[x].pc = "idle" =>
          x # world.root /\ node[x].name \in to[node[x].parent].todo
  <2> SUFFICES ASSUME NEW x \in Dirs, node[x].live, to[x].pc = "idle"
               PROVE  x # world.root /\ node[x].name \in to[node[x].parent].todo
    OBVIOUS
  <2>1. frame[x].pc = "idle"
    BY <1>2, <1>3
  <2>2. x # world.root /\ node[x].name \in frame[node[x].parent].todo
    BY <2>1 DEF SeesAll, AllSeen, NoneMissed
  <2>3. node[x].parent \in Dirs
    BY <2>2, ParentsBegun DEF Walking
  <2> QED
    BY <1>2, <2>2, <2>3
<1>8. Onward(world, frame, to, node)
  BY <1>2, <1>3, <1>4, <1>5, <1>6, <1>7 DEF Onward
<1>9. IsRead(frame[d]) => ScansBegun(to) = ScansBegun(frame)
  BY <1>2 DEF ScansBegun, IsRead
<1> QED
  BY <1>8, <1>9

\* The step goes onward and counts what it begins: nothing is missed.
LEMMA StillSees ==
    ASSUME Walking, SeesAll, Still, Onward(world, frame, frame', node),
           tally'.files = tally.files, tally'.dirs = Cardinality(ScansBegun(frame'))
    PROVE  AllSeen(world, frame', node', leaves', edges', counted', tally')
<1>1. /\ WalkStands(world, frame, node, leaves, claimed, edges, counted)
      /\ world.root \in Dirs
  BY ScanAssumption DEF Walking
<1>2. SamePlace(node, node') /\ leaves' = leaves /\ edges' = edges /\ counted' = counted
  BY DEF Still
<1> QED
  BY <1>1, <1>2, OnwardSeen DEF SeesAll

\* A scan begins: its directory is counted.
LEMMA BeginSees ==
    ASSUME Walking, SeesAll, NEW d \in Dirs, BeginDir(d)
    PROVE  AllSeen(world, frame', node', leaves', edges', counted', tally')
<1>1. /\ frame[d].pc = "begin" /\ GoesTo(frame, frame', d, "open")
      /\ tally' = [tally EXCEPT !.dirs = @ + 1]
  BY DEF BeginDir, Goto, GoesTo, Record
<1>2. Onward(world, frame, frame', node)
  BY <1>1, GotoOnward
<1>3. Still
  BY StillSteps
<1>4. \A x \in Dirs : frame'[x].pc = IF x = d THEN "open" ELSE frame[x].pc
  BY <1>1, GotoSame DEF Walking, WalkStands
<1>5. ScansBegun(frame') = ScansBegun(frame) \cup {d} /\ d \notin ScansBegun(frame)
  BY <1>1, <1>4 DEF ScansBegun
<1>6. IsFiniteSet(ScansBegun(frame))
  BY ScanAssumption, FS_Subset DEF ScansBegun
<1>7. Cardinality(ScansBegun(frame) \cup {d}) = Cardinality(ScansBegun(frame)) + 1
  BY <1>5, <1>6, FS_AddElement
<1>8. tally'.files = tally.files /\ tally'.dirs = tally.dirs + 1
  BY <1>1 DEF Walking, TallyStands
<1>9. tally.dirs = Cardinality(ScansBegun(frame))
  BY DEF SeesAll, AllSeen, AllCounted
<1>10. tally'.dirs = Cardinality(ScansBegun(frame'))
  BY <1>5, <1>7, <1>8, <1>9
<1> QED
  BY <1>2, <1>3, <1>8, <1>10, StillSees

\* Elsewhere the counters stay.
LEMMA UncountedSees ==
    ASSUME Walking, SeesAll, Still, Onward(world, frame, frame', node), tally' = tally,
           ScansBegun(frame') = ScansBegun(frame)
    PROVE  AllSeen(world, frame', node', leaves', edges', counted', tally')
<1>1. tally'.dirs = Cardinality(ScansBegun(frame'))
  BY DEF SeesAll, AllSeen, AllCounted
<1> QED
  BY <1>1, StillSees

\* The frame of d alone changes: what is read of it, and what is in its batch.
LEMMA ReadOnward ==
    ASSUME Walking, SeesAll, NEW d \in Dirs, NEW to, frame[d].pc \in {"open", "read"},
           to = [x \in Dirs |-> to[x]], \A x \in Dirs \ {d} : to[x] = frame[x],
           to[d].plans = {}, to[d].path = frame[d].path, to[d].fstype = frame[d].fstype,
           to[d].todo = frame[d].todo, to[d].pc \in {"read", "classify"},
           \A n \in to[d].batch : Listed(world, d, n, frame[d].path),
           \A n \in Names(world, d) :
              \/ n \in to[d].unread \/ n \in to[d].batch
              \/ ~Listed(world, d, n, frame[d].path)
              \/ IsRead(frame[d]) /\ n \notin frame[d].unread
    PROVE  Onward(world, frame, to, node) /\ ScansBegun(to) = ScansBegun(frame)
<1>1. /\ FrameStands(world, d, frame[d]) /\ frame[d].plans = {} /\ frame[d].batch = {}
      /\ \A x \in Dirs : frame[x].pc = "idle" => frame[x].batch = {}
  BY DEF Walking, WalkStands, FramesStand, FrameStands
<1>2. \A x \in Dirs : x # d => to[x] = frame[x]
  OBVIOUS
<1>3. IsRead(to[d]) /\ to[d].pc # "idle" /\ frame[d].pc # "idle" /\ to[d].pc # "done"
  BY DEF IsRead
<1>4. \A x \in Dirs : to[x].plans = frame[x].plans
  BY <1>1, <1>2
<1>5. \A x \in Dirs : to[x].path = frame[x].path /\ to[x].fstype = frame[x].fstype
                      /\ to[x].todo = frame[x].todo /\ (frame[x].pc # "idle" <=> to[x].pc # "idle")
  BY <1>2, <1>3
<1>6. \A x \in Dirs : \A n \in to[x].batch :
          (frame[x].pc # "idle" /\ n \in frame[x].batch) \/ Listed(world, x, n, to[x].path)
  BY <1>1, <1>2
<1>7. \A x \in Dirs : IsRead(frame[x]) => IsRead(to[x])
  BY <1>2, <1>3
<1>8. \A x \in Dirs : IsRead(to[x]) => \A n \in Names(world, x) :
          \/ n \in to[x].unread \/ n \in to[x].batch \/ ~Listed(world, x, n, to[x].path)
          \/ IsRead(frame[x]) /\ n \notin frame[x].unread /\ n \notin frame[x].batch
  BY <1>1, <1>2
<1>9. \A x \in Dirs : to[x].pc = "done" => to[x].unread = {}
  BY <1>2, <1>3 DEF SeesAll, AllSeen, NoneMissed
<1>10. \A x \in Dirs : node[x].live /\ to[x].pc = "idle" =>
          x # world.root /\ node[x].name \in to[node[x].parent].todo
  <2>1. \A x \in Dirs : node[x].live /\ x # world.root => node[x].parent \in Dirs
    BY ParentsBegun DEF Walking
  <2> QED
    BY <1>5, <2>1 DEF SeesAll, AllSeen, NoneMissed
<1>11. Onward(world, frame, to, node)
  BY <1>4, <1>5, <1>6, <1>7, <1>8, <1>9, <1>10 DEF Onward
<1>12. ScansBegun(to) = ScansBegun(frame)
  BY <1>2 DEF ScansBegun
<1> QED
  BY <1>11, <1>12

\* A directory is opened: all its names are to be read.
LEMMA OpenSees ==
    ASSUME Walking, SeesAll, NEW d \in Dirs, OpenDir(d), Clean'
    PROVE  AllSeen(world, frame', node', leaves', edges', counted', tally')
<1>1. /\ frame[d].pc = "open" /\ cancelled' = cancelled
      /\ FramesStand(world, frame) /\ FrameStands(world, d, frame[d])
  BY DEF OpenDir, Walking, WalkStands, FramesStand
<1>2. /\ frame' = [frame EXCEPT ![d].pc = "read", ![d].unread = Names(world, d)]
      /\ tally' = tally
  <2>1. ~cancelled /\ tally' # OneMoreError
    BY <1>1, NoErrorNow DEF Clean
  <2>2. ~Abandon(d, OneMoreError)
    BY <2>1 DEF Abandon, Record
  <2> QED
    BY <2>1, <2>2 DEF OpenDir, Names
<1> PICK f : f = frame[d]
  OBVIOUS
<1> PICK to : to = frame'
  OBVIOUS
<1> PICK g : g = to[d]
  OBVIOUS
<1>3. /\ f = FrameRecord(f) /\ to = [x \in Dirs |-> to[x]] /\ \A x \in Dirs \ {d} : to[x] = frame[x]
      /\ g = [f EXCEPT !.pc = "read", !.unread = Names(world, d)]
  BY <1>1, <1>2 DEF FramesStand, FrameStands
<1>4. /\ g.pc = "read" /\ g.unread = Names(world, d) /\ g.batch = f.batch /\ g.plans = f.plans
      /\ g.todo = f.todo /\ g.path = f.path /\ g.fstype = f.fstype
  BY ONLY <1>3 DEF FrameRecord
<1>5. f.batch = {} /\ f.plans = {}
  BY <1>1 DEF FrameStands
<1>6. Onward(world, frame, to, node) /\ ScansBegun(to) = ScansBegun(frame)
  BY <1>1, <1>3, <1>4, <1>5, ReadOnward
<1> QED
  BY <1>2, <1>6, StillSteps, UncountedSees

\* A batch is read: what is not listed is left out, and nothing else.
LEMMA ReadSees ==
    ASSUME Walking, SeesAll, NEW d \in Dirs, ReadBatch(d), Clean'
    PROVE  AllSeen(world, frame', node', leaves', edges', counted', tally')
<1>1. /\ frame[d].pc = "read" /\ cancelled' = cancelled
      /\ FramesStand(world, frame) /\ FrameStands(world, d, frame[d])
  BY DEF ReadBatch, Walking, WalkStands, FramesStand
<1>2. ~Abandon(d, OneMoreError) /\ ~cancelled
  <2>1. ~cancelled /\ tally' # OneMoreError
    BY <1>1, NoErrorNow DEF Clean
  <2> QED
    BY <2>1 DEF Abandon, Record
<1>3. CASE frame[d].unread = {} /\ Goto(d, "done") /\ Record(node, tally)
  <2>1. GoesTo(frame, frame', d, "done") /\ tally' = tally /\ IsRead(frame[d])
    BY <1>1, <1>3 DEF Goto, GoesTo, Record, IsRead
  <2>2. Onward(world, frame, frame', node) /\ ScansBegun(frame') = ScansBegun(frame)
    BY <1>3, <2>1, GotoOnward
  <2> QED
    BY <2>1, <2>2, StillSteps, UncountedSees
<1>4. ASSUME NEW batch \in SUBSET frame[d].unread, NEW kept \in SUBSET batch,
             \A n \in batch : n \in kept <=> Listed(world, d, n, frame[d].path),
             frame' = [frame EXCEPT ![d].pc = "classify", ![d].unread = @ \ batch,
                                    ![d].plans = {}, ![d].batch = kept],
             tally' = tally
      PROVE  AllSeen(world, frame', node', leaves', edges', counted', tally')
  <2> PICK f : f = frame[d]
    OBVIOUS
  <2> PICK to : to = frame'
    OBVIOUS
  <2> PICK g : g = to[d]
    OBVIOUS
  <2>1. /\ f = FrameRecord(f) /\ to = [x \in Dirs |-> to[x]] /\ \A x \in Dirs \ {d} : to[x] = frame[x]
        /\ g = [f EXCEPT !.pc = "classify", !.unread = @ \ batch, !.plans = {}, !.batch = kept]
    BY <1>1, <1>4 DEF FrameStands, FramesStand
  <2>2. /\ g.pc = "classify" /\ g.unread = f.unread \ batch /\ g.batch = kept /\ g.plans = {}
        /\ g.todo = f.todo /\ g.path = f.path /\ g.fstype = f.fstype
    BY ONLY <2>1 DEF FrameRecord
  <2>3. \A n \in to[d].batch : Listed(world, d, n, frame[d].path)
    BY <1>4, <2>2
  <2>4. \A n \in Names(world, d) :
              \/ n \in to[d].unread \/ n \in to[d].batch
              \/ ~Listed(world, d, n, frame[d].path)
              \/ IsRead(frame[d]) /\ n \notin frame[d].unread
    BY <1>1, <1>4, <2>2 DEF IsRead
  <2>5. Onward(world, frame, to, node) /\ ScansBegun(to) = ScansBegun(frame)
    BY <1>1, <2>1, <2>2, <2>3, <2>4, ReadOnward
  <2> QED
    BY <1>4, <2>5, StillSteps, UncountedSees
<1>5. \/ frame[d].unread = {} /\ Goto(d, "done") /\ Record(node, tally)
      \/ \E batch \in SUBSET frame[d].unread : \E kept \in SUBSET batch :
            /\ \A n \in batch : n \in kept <=> Listed(world, d, n, frame[d].path)
            /\ frame' = [frame EXCEPT ![d].pc = "classify", ![d].unread = @ \ batch,
                                      ![d].plans = {}, ![d].batch = kept]
            /\ tally' = tally
  <2> DEFINE f == frame[d]
             size == Min({Cardinality(f.unread), world.batch})
  <2>1. ASSUME NEW batch \in kSubset(size, f.unread) \ {{}},
               frame' = [frame EXCEPT
                    ![d].pc = "classify", ![d].unread = @ \ batch, ![d].plans = {},
                    ![d].batch = {n \in batch :
                        AllowsEntry(world.policy, Append(f.path, n), Physical(d, n))}]
        PROVE  \E b \in SUBSET frame[d].unread : \E kept \in SUBSET b :
                /\ \A n \in b : n \in kept <=> Listed(world, d, n, frame[d].path)
                /\ frame' = [frame EXCEPT ![d].pc = "classify", ![d].unread = @ \ b,
                                          ![d].plans = {}, ![d].batch = kept]
    <3> DEFINE kept == {n \in batch : AllowsEntry(world.policy, Append(f.path, n), Physical(d, n))}
    <3>1. batch \in SUBSET frame[d].unread
      BY DEF kSubset
    <3>2. kept \in SUBSET batch
      OBVIOUS
    <3>3. frame' = [frame EXCEPT ![d].pc = "classify", ![d].unread = @ \ batch,
                                 ![d].plans = {}, ![d].batch = kept]
      BY <2>1
    <3>4. \A n \in batch : n \in Names(world, d)
      BY <1>1, <3>1 DEF FrameStands
    <3>5. \A n \in batch : AllowsEntry(world.policy, Append(f.path, n), Physical(d, n))
                              <=> Listed(world, d, n, frame[d].path)
      BY <3>4, EntryPasses
    <3>6. \A n \in batch : n \in kept <=> Listed(world, d, n, frame[d].path)
      BY <3>5
    <3> HIDE DEF kept
    <3> QED
      BY <3>1, <3>2, <3>3, <3>6
  <2> QED
    BY <1>2, <2>1 DEF ReadBatch
<1> QED
  BY <1>3, <1>4, <1>5

\* A child is entered, at its parent's path with its name.
LEMMA ChildSees ==
    ASSUME Walking, SeesAll, NEW d \in Dirs, ScanChild(d), Clean'
    PROVE  AllSeen(world, frame', node', leaves', edges', counted', tally')
<1>1. /\ frame[d].pc = "children" /\ cancelled' = cancelled /\ FramesStand(world, frame)
      /\ FrameStands(world, d, frame[d])
  BY DEF ScanChild, Walking, WalkStands, FramesStand
<1>2. ~cancelled
  BY <1>1 DEF Clean
<1>3. PICK n \in frame[d].todo : \E pc \in {"children", "call"} : \E fstype, free :
          /\ frame' = [[frame EXCEPT ![d].todo = @ \ {n}] EXCEPT ![d].pc = pc,
                         ![Goal(world, d, n)] = [NoFrame EXCEPT !.pc = "begin", !.caller = d,
                              !.spawned = free, !.path = Append(frame[d].path, n),
                              !.fstype = fstype]]
          /\ tally' = tally
  <2> PICK n \in frame[d].todo :
          LET c == Target(d, n)
              free == Cardinality(Running) < world.slots
              rest == [frame EXCEPT ![d].todo = @ \ {n}]
          IN
             /\ frame' = [rest EXCEPT
                    ![d].pc = IF free THEN "children" ELSE "call",
                    ![c] = [NoFrame EXCEPT !.pc = "begin", !.caller = d,
                              !.spawned = free,
                              !.path = Append(frame[d].path, n),
                              !.fstype = IF world.device[c] # world.device[d] \/ IsAlias(d, n)
                                         THEN FSOf(world.mounts, Physical(d, n))
                                         ELSE frame[d].fstype]]
             /\ UNCHANGED <<node, tally, out>>
    BY <1>2 DEF ScanChild
  <2> DEFINE free == Cardinality(Running) < world.slots
             pc == IF free THEN "children" ELSE "call"
             fstype == IF world.device[Target(d, n)] # world.device[d] \/ IsAlias(d, n)
                       THEN FSOf(world.mounts, Physical(d, n)) ELSE frame[d].fstype
             rest == [frame EXCEPT ![d].todo = @ \ {n}]
  <2>1. /\ frame' = [rest EXCEPT ![d].pc = pc,
                      ![Target(d, n)] = [NoFrame EXCEPT !.pc = "begin", !.caller = d,
                              !.spawned = free, !.path = Append(frame[d].path, n),
                              !.fstype = fstype]]
        /\ tally' = tally
    OBVIOUS
  <2>2. pc \in {"children", "call"} /\ Target(d, n) = Goal(world, d, n)
    BY DEF Target, Goal
  <2> HIDE DEF free, pc, fstype
  <2>3. /\ frame' = [[frame EXCEPT ![d].todo = @ \ {n}] EXCEPT ![d].pc = pc,
                         ![Goal(world, d, n)] = [NoFrame EXCEPT !.pc = "begin", !.caller = d,
                              !.spawned = free, !.path = Append(frame[d].path, n),
                              !.fstype = fstype]]
        /\ tally' = tally
    BY <2>1, <2>2
  <2>4. \E kind, slot :
          /\ frame' = [[frame EXCEPT ![d].todo = @ \ {n}] EXCEPT ![d].pc = pc,
                         ![Goal(world, d, n)] = [NoFrame EXCEPT !.pc = "begin", !.caller = d,
                              !.spawned = slot, !.path = Append(frame[d].path, n),
                              !.fstype = kind]]
          /\ tally' = tally
    BY ONLY <2>3
  <2> HIDE DEF rest
  <2> QED
    BY ONLY <2>2, <2>4, n \in frame[d].todo
<1>4. PICK pc \in {"children", "call"} : \E fstype, free :
          /\ frame' = [[frame EXCEPT ![d].todo = @ \ {n}] EXCEPT ![d].pc = pc,
                         ![Goal(world, d, n)] = [NoFrame EXCEPT !.pc = "begin", !.caller = d,
                              !.spawned = free, !.path = Append(frame[d].path, n),
                              !.fstype = fstype]]
          /\ tally' = tally
  BY <1>3
<1>5. PICK fstype, free :
          /\ frame' = [[frame EXCEPT ![d].todo = @ \ {n}] EXCEPT ![d].pc = pc,
                         ![Goal(world, d, n)] = [NoFrame EXCEPT !.pc = "begin", !.caller = d,
                              !.spawned = free, !.path = Append(frame[d].path, n),
                              !.fstype = fstype]]
          /\ tally' = tally
  BY <1>4
<1> PICK c : c = Goal(world, d, n)
  OBVIOUS
<1> PICK path : path = Append(frame[d].path, n)
  OBVIOUS
<1> PICK f : f = frame[d]
  OBVIOUS
<1> PICK to : to = frame'
  OBVIOUS
<1> PICK g : g = to[d]
  OBVIOUS
<1> PICK h : h = to[c]
  OBVIOUS
<1>6. /\ c \in Dirs /\ node[c].live /\ frame[c].pc = "idle" /\ c # d
      /\ node[c].parent = d /\ node[c].name = n /\ c # world.root
  BY <1>1 DEF Walking, WalkStands, Waited, Started
<1>7. /\ f = FrameRecord(f) /\ to = [x \in Dirs |-> to[x]]
      /\ \A x \in Dirs \ {c, d} : to[x] = frame[x]
      /\ g = [f EXCEPT !.todo = @ \ {n}, !.pc = pc]
      /\ h = [NoFrame EXCEPT !.pc = "begin", !.caller = d, !.spawned = free, !.path = path,
                             !.fstype = fstype]
  BY <1>1, <1>5, <1>6 DEF FramesStand, FrameStands
<1>8. /\ g.pc = pc /\ g.unread = f.unread /\ g.batch = f.batch /\ g.plans = f.plans
      /\ g.todo = f.todo \ {n} /\ g.path = f.path /\ g.fstype = f.fstype
  BY ONLY <1>7 DEF FrameRecord
<1>9. h.pc = "begin" /\ h.batch = {} /\ h.plans = {} /\ h.path = Appended(f.path, n)
  <2>1. h.pc = "begin" /\ h.batch = {} /\ h.plans = {} /\ h.path = path
    BY ONLY <1>7 DEF NoFrame
  <2> QED
    BY <2>1 DEF Appended
<1>10. f.batch = {} /\ f.plans = {} /\ frame[c].plans = {}
  BY <1>1, <1>6 DEF FrameStands, FramesStand
<1>11. \A x \in Dirs : x # c /\ x # d => to[x] = frame[x]
  BY <1>7
<1>12. \A x \in Dirs : to[x].plans = frame[x].plans
  BY <1>8, <1>9, <1>10, <1>11
<1>13. \A x \in Dirs : frame[x].pc # "idle" =>
          to[x].pc # "idle" /\ to[x].path = frame[x].path /\ to[x].fstype = frame[x].fstype
  BY <1>6, <1>8, <1>11
<1>14. \A x \in Dirs : frame[x].pc = "idle" /\ to[x].pc # "idle" =>
          x # world.root /\ node[x].live
          /\ to[x].path = Appended(frame[node[x].parent].path, node[x].name)
  BY <1>1, <1>6, <1>9, <1>11
<1>15. \A x \in Dirs : \A m \in to[x].batch : frame[x].pc # "idle" /\ m \in frame[x].batch
  BY <1>1, <1>8, <1>9, <1>10, <1>11 DEF FramesStand, FrameStands
<1>16. \A x \in Dirs : IsRead(to[x]) <=> IsRead(frame[x])
  BY <1>1, <1>6, <1>8, <1>9, <1>11 DEF IsRead
<1>17. \A x \in Dirs : IsRead(frame[x]) => to[x].unread = frame[x].unread
                                           /\ to[x].batch = frame[x].batch
  BY <1>6, <1>8, <1>11 DEF IsRead
<1>18. \A x \in Dirs : to[x].pc = "done" => to[x].unread = {}
  BY <1>8, <1>9, <1>11 DEF SeesAll, AllSeen, NoneMissed
<1>19. \A x \in Dirs : node[x].live /\ to[x].pc = "idle" =>
          x # world.root /\ node[x].name \in to[node[x].parent].todo
  <2> SUFFICES ASSUME NEW x \in Dirs, node[x].live, to[x].pc = "idle"
               PROVE  x # world.root /\ node[x].name \in to[node[x].parent].todo
    OBVIOUS
  <2>1. x # c /\ frame[x].pc = "idle"
    BY <1>9, <1>13
  <2>2. x # world.root /\ node[x].name \in frame[node[x].parent].todo
    BY <2>1 DEF SeesAll, AllSeen, NoneMissed
  <2>3. /\ node[x].parent \in Dirs /\ IsRead(frame[node[x].parent])
        /\ Goal(world, node[x].parent, node[x].name) = x
    BY <2>2, ParentsBegun DEF Walking, WalkStands, TreeStands
  <2>4. node[x].parent # c
    BY <1>6, <2>3 DEF IsRead
  <2>5. node[x].parent = d => node[x].name # n
    BY <2>1, <2>3
  <2> QED
    BY <1>8, <1>11, <2>2, <2>3, <2>4, <2>5
<1>20. Onward(world, frame, to, node)
  BY <1>12, <1>13, <1>14, <1>15, <1>16, <1>17, <1>18, <1>19 DEF Onward
<1>21. ScansBegun(to) = ScansBegun(frame)
  BY <1>1, <1>6, <1>8, <1>9, <1>11 DEF ScansBegun
<1> QED
  BY <1>5, <1>20, <1>21, StillSteps, UncountedSees

\* A child has returned, or all of them are waited for.
LEMMA WaitSees ==
    ASSUME Walking, SeesAll, NEW d \in Dirs, ChildReturns(d) \/ AwaitChildren(d), Clean'
    PROVE  AllSeen(world, frame', node', leaves', edges', counted', tally')
<1>1. cancelled' = cancelled /\ frame[d].pc \in {"children", "call"}
  BY DEF ChildReturns, AwaitChildren
<1>2. \E pc \in {"read", "children"} : GoesTo(frame, frame', d, pc) /\ tally' = tally
  <2>1. ~cancelled
    BY <1>1 DEF Clean
  <2> QED
    BY <2>1 DEF ChildReturns, AwaitChildren, Goto, GoesTo
<1>3. IsRead(frame[d])
  BY <1>1 DEF IsRead
<1>4. Onward(world, frame, frame', node) /\ ScansBegun(frame') = ScansBegun(frame)
  BY <1>2, <1>3, GotoOnward
<1> QED
  BY <1>2, <1>4, StillSteps, UncountedSees

\* Only the plans of d and its batch change.
Replans(fr, to, d, n, P) ==
    /\ \A x \in Dirs : x # d => to[x] = fr[x]
    /\ to[d].pc = fr[d].pc /\ to[d].path = fr[d].path /\ to[d].fstype = fr[d].fstype
    /\ to[d].unread = fr[d].unread /\ to[d].todo = fr[d].todo
    /\ to[d].batch = fr[d].batch \ {n} /\ to[d].plans = fr[d].plans \cup P

\* Taking n from the batch and adding its plan does no more than that.
LEMMA PlannedIs ==
    ASSUME Walking, NEW d \in Dirs, NEW n, NEW P, Planned(d, n, P)
    PROVE  Replans(frame, frame', d, n, P)
<1> PICK f : f = frame[d]
  OBVIOUS
<1> PICK g : g = frame'[d]
  OBVIOUS
<1>1. /\ f = FrameRecord(f) /\ g = [f EXCEPT !.batch = @ \ {n}, !.plans = @ \cup P]
      /\ \A x \in Dirs : x # d => frame'[x] = frame[x]
  BY DEF Planned, FramesStand, FrameStands, Walking, WalkStands
<1>2. /\ g.pc = f.pc /\ g.path = f.path /\ g.fstype = f.fstype
      /\ g.unread = f.unread /\ g.todo = f.todo
      /\ g.batch = f.batch \ {n} /\ g.plans = f.plans \cup P
  BY ONLY <1>1 DEF FrameRecord
<1> QED
  BY <1>1, <1>2 DEF Replans

\* What is planned for one name of the batch.
PlanFits(w, f, d, n, P, co, known) ==
    /\ \A p \in P : /\ p.name = n /\ p.kind \in {"file", "dir", "seen"}
                    /\ p.kind = "seen" => w.follow
                    /\ Admits(w, f, d, n)
                    /\ p.kind = "file" =>
                          /\ Charged(w, d, n, p.bytes, p.link)
                          /\ Multiple(w, d, n) => IdOf(w, d, n) \in known
    /\ P = {} => ~Admits(w, f, d, n)
    /\ co \subseteq known
    /\ \A id \in known : id \in co \/ /\ id = IdOf(w, d, n) /\ Multiple(w, d, n)
                                      /\ \E p \in P : p.kind = "file" /\ ~p.link

\* Once a name of the batch has its plan, or is not admitted, nothing is missed.
LEMMA ReplansSees ==
    ASSUME NEW w, NEW fr, NEW nd, NEW ls, NEW cl, NEW ed, NEW co,
           WalkStands(w, fr, nd, ls, cl, ed, co),
           NEW t, AllSeen(w, fr, nd, ls, ed, co, t),
           NEW d \in Dirs, fr[d].pc = "classify", NEW n \in fr[d].batch, NEW P, NEW known,
           PlanFits(w, fr[d], d, n, P, co, known),
           NEW to, Replans(fr, to, d, n, P),
           NEW s, s.files = Cardinality(Met(to, ls)), s.dirs = t.dirs
    PROVE  AllSeen(w, to, nd, ls, ed, known, s)
<1>1. /\ \A x \in Dirs : nd[x].live /\ x # w.root => nd[x].parent \in Dirs
      /\ \A l \in ls : l.dir \in Dirs
      /\ \A e \in ed : e.from \in Dirs
      /\ \A x \in Dirs : fr[x].pc # "idle" => nd[x].live
      /\ n \in Names(w, d)
  BY ParentsBegun DEF WalkStands, EdgesStand, FramesStand, FrameStands
<1>2. \A x \in Dirs : /\ to[x].pc = fr[x].pc /\ to[x].path = fr[x].path
                      /\ to[x].fstype = fr[x].fstype /\ to[x].unread = fr[x].unread
                      /\ to[x].todo = fr[x].todo /\ to[x].batch \subseteq fr[x].batch
                      /\ fr[x].plans \subseteq to[x].plans
  BY DEF Replans
<1>3. \A x \in Dirs : /\ IsRead(to[x]) <=> IsRead(fr[x])
                      /\ \A m : Admits(w, to[x], x, m) <=> Admits(w, fr[x], x, m)
  BY <1>2 DEF IsRead, Admits
<1>4. \A x \in Dirs : \A p \in to[x].plans : p \in fr[x].plans \/ (x = d /\ p \in P)
  BY DEF Replans
<1>5. PathsStand(w, to, nd)
  BY <1>1, <1>2 DEF AllSeen, PathsStand
<1>6. Sound(w, to, nd, ls, ed)
  <2>1. \A x \in Dirs : \A m \in to[x].batch : Listed(w, x, m, to[x].path)
    BY <1>2 DEF AllSeen, Sound
  <2>2. \A x \in Dirs : \A p \in to[x].plans :
          p.kind # "error" /\ (p.kind = "seen" => w.follow) /\ Admits(w, to[x], x, p.name)
    <3> SUFFICES ASSUME NEW x \in Dirs, NEW p \in to[x].plans
                 PROVE  /\ p.kind # "error" /\ (p.kind = "seen" => w.follow)
                        /\ Admits(w, fr[x], x, p.name)
      BY <1>3
    <3>1. CASE p \in fr[x].plans
      BY <3>1 DEF AllSeen, Sound
    <3>2. CASE x = d /\ p \in P
      BY <3>2 DEF PlanFits
    <3> QED
      BY <1>4, <3>1, <3>2
  <2>3. \A l \in ls : ~l.err /\ Admits(w, to[l.dir], l.dir, l.name)
    BY <1>1, <1>3 DEF AllSeen, Sound
  <2>4. \A e \in ed : IsRead(to[e.from]) /\ Admits(w, to[e.from], e.from, e.name)
    BY <1>1, <1>3 DEF AllSeen, Sound
  <2>5. \A x \in Dirs : nd[x].live /\ x # w.root =>
          Admits(w, to[nd[x].parent], nd[x].parent, nd[x].name)
    BY <1>1, <1>3 DEF AllSeen, Sound
  <2> QED
    BY <2>1, <2>2, <2>3, <2>4, <2>5 DEF Sound
<1>7. NoneMissed(w, to, nd, ls, ed)
  <2>1. ASSUME NEW x \in Dirs, IsRead(to[x]), NEW m \in Names(w, x)
        PROVE  m \in to[x].unread \/ m \in to[x].batch
                 \/ ~Admits(w, to[x], x, m) \/ Got(w, to[x], nd, ls, ed, x, m)
    <3>1. CASE m \in fr[x].unread
      BY <1>2, <3>1
    <3>2. CASE m \in fr[x].batch /\ (x # d \/ m # n)
      BY <3>2 DEF Replans
    <3>3. CASE x = d /\ m = n
      <4>1. CASE P = {}
        BY <1>3, <3>3, <4>1 DEF PlanFits
      <4>2. ASSUME NEW p \in P
            PROVE  Got(w, to[x], nd, ls, ed, x, m)
        BY <3>3, <4>2 DEF Replans, PlanFits, Got
      <4> QED
        BY <4>1, <4>2
    <3>4. CASE m \notin fr[x].unread /\ m \notin fr[x].batch
      <4>1. ~Admits(w, fr[x], x, m) \/ Got(w, fr[x], nd, ls, ed, x, m)
        BY <1>3, <2>1, <3>4 DEF AllSeen, NoneMissed
      <4>2. Got(w, fr[x], nd, ls, ed, x, m) => Got(w, to[x], nd, ls, ed, x, m)
        BY <1>2 DEF Got
      <4> QED
        BY <1>3, <4>1, <4>2
    <3> QED
      BY <3>1, <3>2, <3>3, <3>4
  <2>2. \A x \in Dirs : to[x].pc = "done" => to[x].unread = {}
    BY <1>2 DEF AllSeen, NoneMissed
  <2>3. \A x \in Dirs : nd[x].live /\ to[x].pc = "idle" =>
          x # w.root /\ nd[x].name \in to[nd[x].parent].todo
    BY <1>1, <1>2 DEF AllSeen, NoneMissed
  <2> QED
    BY <2>1, <2>2, <2>3 DEF NoneMissed
<1>8. ChargedOnce(w, to, ls, known)
  <2>1. \A l \in ls : /\ Charged(w, l.dir, l.name, l.bytes, l.link)
                      /\ Multiple(w, l.dir, l.name) => l.id \in known
    BY DEF AllSeen, ChargedOnce, PlanFits
  <2>2. \A x \in Dirs : \A p \in to[x].plans : p.kind = "file" =>
          /\ Charged(w, x, p.name, p.bytes, p.link)
          /\ Multiple(w, x, p.name) => IdOf(w, x, p.name) \in known
    <3> SUFFICES ASSUME NEW x \in Dirs, NEW p \in to[x].plans, p.kind = "file"
                 PROVE  /\ Charged(w, x, p.name, p.bytes, p.link)
                        /\ Multiple(w, x, p.name) => IdOf(w, x, p.name) \in known
      OBVIOUS
    <3>1. CASE p \in fr[x].plans
      <4>1. Multiple(w, x, p.name) => IdOf(w, x, p.name) \in co
        BY <3>1 DEF AllSeen, ChargedOnce
      <4>2. Charged(w, x, p.name, p.bytes, p.link)
        BY <3>1 DEF AllSeen, ChargedOnce
      <4> QED
        BY <4>1, <4>2 DEF PlanFits
    <3>2. CASE x = d /\ p \in P
      BY <3>2 DEF PlanFits
    <3> QED
      BY <1>4, <3>1, <3>2
  <2>3. ASSUME NEW id \in known
        PROVE  \E x \in Dirs : \E m \in Names(w, x) : Holds(w, to, ls, x, m) /\ IdOf(w, x, m) = id
    <3>1. CASE id \in co
      <4>1. PICK x \in Dirs : \E m \in Names(w, x) : Holds(w, fr, ls, x, m) /\ IdOf(w, x, m) = id
        BY <3>1 DEF AllSeen, ChargedOnce
      <4>2. \A m : Holds(w, fr, ls, x, m) => Holds(w, to, ls, x, m)
        BY <1>2 DEF Holds
      <4> QED
        BY <4>1, <4>2
    <3>2. CASE id \notin co
      <4>1. /\ id = IdOf(w, d, n) /\ Multiple(w, d, n)
            /\ \E p \in P : p.kind = "file" /\ ~p.link /\ p.name = n
        BY <3>2 DEF PlanFits
      <4>2. Holds(w, to, ls, d, n)
        BY <4>1 DEF Holds, Replans
      <4> QED
        BY <1>1, <4>1, <4>2
    <3> QED
      BY <3>1, <3>2
  <2> QED
    BY <2>1, <2>2, <2>3 DEF ChargedOnce
<1>9. AllCounted(to, ls, s)
  <2>1. ScansBegun(to) = ScansBegun(fr)
    BY <1>2 DEF ScansBegun
  <2> QED
    BY <2>1 DEF AllSeen, AllCounted
<1> QED
  BY <1>5, <1>6, <1>7, <1>8, <1>9 DEF AllSeen

\* One more file is met where one is planned, and none otherwise.
LEMMA ReplansMeets ==
    ASSUME NEW w, NEW fr, NEW nd, NEW ls, NEW cl, NEW ed, NEW co,
           WalkStands(w, fr, nd, ls, cl, ed, co), IsFiniteSet(Met(fr, ls)),
           NEW d \in Dirs, NEW n \in fr[d].batch, NEW P, \A p \in P : p.name = n,
           NEW to, Replans(fr, to, d, n, P)
    PROVE  Cardinality(Met(to, ls)) = IF \E p \in P : p.kind = "file"
                                      THEN Cardinality(Met(fr, ls)) + 1
                                      ELSE Cardinality(Met(fr, ls))
<1> DEFINE Filed(f, x) == {<<x, p.name>> : p \in {q \in f[x].plans : q.kind = "file"}}
<1>1. \A k : k \in Met(to, ls) <=>
        \/ k \in {<<l.dir, l.name>> : l \in {o \in ls : ~o.err}}
        \/ \E x \in Dirs : k \in Filed(to, x)
  BY DEF Met
<1>2. \A k : k \in Met(fr, ls) <=>
        \/ k \in {<<l.dir, l.name>> : l \in {o \in ls : ~o.err}}
        \/ \E x \in Dirs : k \in Filed(fr, x)
  BY DEF Met
<1>3. \A x \in Dirs : Filed(to, x) = Filed(fr, x)
                        \cup (IF x = d /\ \E p \in P : p.kind = "file" THEN {<<d, n>>} ELSE {})
  BY DEF Replans
<1> HIDE DEF Filed
<1>4. CASE \E p \in P : p.kind = "file"
  <2>1. Met(to, ls) = Met(fr, ls) \cup {<<d, n>>}
    BY <1>1, <1>2, <1>3, <1>4
  <2>2. <<d, n>> \notin Met(fr, ls)
    <3>1. \A l \in ls : ~(l.dir = d /\ l.name = n)
      BY DEF WalkStands, RecordedOnce, Behind
    <3>2. \A p \in fr[d].plans : p.name # n
      BY DEF WalkStands, FramesStand, FrameStands
    <3>3. \A x \in Dirs : <<d, n>> \notin Filed(fr, x)
      BY <3>2 DEF Filed
    <3> QED
      BY <1>2, <3>1, <3>3
  <2>3. Cardinality(Met(fr, ls) \cup {<<d, n>>}) = Cardinality(Met(fr, ls)) + 1
    BY <2>2, FS_AddElement
  <2> QED
    BY <1>4, <2>1, <2>3
<1>5. CASE ~\E p \in P : p.kind = "file"
  <2>1. Met(to, ls) = Met(fr, ls)
    BY <1>1, <1>2, <1>3, <1>5
  <2> QED
    BY <1>5, <2>1
<1> QED
  BY <1>4, <1>5

\* An entry is classified.
LEMMA ClassifySees ==
    ASSUME Walking, SeesAll, NEW d \in Dirs, Classify(d), Clean'
    PROVE  AllSeen(world, frame', node', leaves', edges', counted', tally')
<1>1. /\ WalkStands(world, frame, node, leaves, claimed, edges, counted)
      /\ IsFiniteSet(Met(frame, leaves)) /\ frame[d].pc = "classify"
      /\ UNCHANGED <<node, leaves, edges>> /\ TallyStands(tally)
  BY DEF Walking, Classify, MetCounted
<1>2. PICK n \in frame[d].batch :
          \/ ClassifyFails(d, n) \/ ClassifyDir(d, n)
          \/ ClassifyFile(d, n) \/ ClassifyFiltered(d, n)
  BY DEF Classify
<1>3. n \in Names(world, d) /\ Listed(world, d, n, frame[d].path)
  BY <1>1 DEF WalkStands, FramesStand, FrameStands, SeesAll, AllSeen, Sound
<1>4. /\ Target(d, n) = Goal(world, d, n) /\ (ReachesDir(d, n) <=> Enters(world, d, n))
      /\ Identity(d, n) = IdOf(world, d, n) /\ SizeOf(d, n) \in Nat
      /\ (Deduplicated(d, n) <=> Multiple(world, d, n)) /\ SizeOf(d, n) = SizeIn(world, d, n)
      /\ TargetAllowed(d, n, Append(frame[d].path, n))
            <=> Reachable(world, d, n, frame[d].path, frame[d].fstype)
  BY <1>3, EntryIs, EntryPasses
<1>5. ASSUME NEW P, Planned(d, n, P), PlanFits(world, frame[d], d, n, P, counted, counted'),
             tally'.dirs = tally.dirs,
             tally'.files = IF \E p \in P : p.kind = "file" THEN tally.files + 1 ELSE tally.files
      PROVE  AllSeen(world, frame', node', leaves', edges', counted', tally')
  <2>1. Replans(frame, frame', d, n, P) /\ \A p \in P : p.name = n
    BY <1>5, PlannedIs DEF PlanFits
  <2>2. tally.files = Cardinality(Met(frame, leaves))
    BY DEF SeesAll, AllSeen, AllCounted
  <2>3. tally'.files = Cardinality(Met(frame', leaves))
    BY <1>1, <1>5, <2>1, <2>2, ReplansMeets
  <2> QED
    BY <1>1, <1>5, <2>1, <2>3, ReplansSees DEF SeesAll
<1>6. ~ClassifyFails(d, n)
  BY NoErrorNow DEF ClassifyFails
<1>7. CASE ClassifyDir(d, n)
  <2> DEFINE first == ~Follow \/ Target(d, n) \notin claimed
             p == Plan(d, n, IF first THEN "dir" ELSE "seen", 0, FALSE)
  <2>1. p.name = n /\ p.kind = (IF first THEN "dir" ELSE "seen")
    BY DEF Plan
  <2>2. p.kind = "seen" => world.follow
    BY <2>1 DEF Follow
  <2>3. Planned(d, n, {p}) /\ counted' = counted /\ tally' = tally
    BY <1>7 DEF ClassifyDir
  <2>4. Admits(world, frame[d], d, n)
    BY <1>3, <1>4, <1>7 DEF ClassifyDir, Admits, Passes
  <2>5. p.name = n /\ p.kind \in {"dir", "seen"}
    BY <2>1
  <2> HIDE DEF p, first
  <2>6. PlanFits(world, frame[d], d, n, {p}, counted, counted')
    BY <2>2, <2>3, <2>4, <2>5 DEF PlanFits
  <2> QED
    BY <1>5, <2>3, <2>5, <2>6
<1>8. CASE ClassifyFile(d, n)
  <2> DEFINE again == Deduplicated(d, n) /\ Identity(d, n) \in counted
             p == Plan(d, n, "file", IF again THEN 0 ELSE SizeOf(d, n), again)
  <2>1. /\ p.name = n /\ p.kind = "file" /\ p.link = again
        /\ p.bytes = IF again THEN 0 ELSE SizeOf(d, n)
    BY DEF Plan
  <2>2. /\ Planned(d, n, {p}) /\ tally' = [tally EXCEPT !.files = @ + 1]
        /\ counted' = IF Multiple(world, d, n) THEN counted \cup {IdOf(world, d, n)} ELSE counted
    BY <1>4, <1>8 DEF ClassifyFile
  <2>3. Admits(world, frame[d], d, n)
    BY <1>3, <1>4, <1>8 DEF ClassifyFile, Admits, Passes
  <2>4. again \in BOOLEAN /\ (again <=> Multiple(world, d, n) /\ IdOf(world, d, n) \in counted)
    BY <1>4
  <2>5. Charged(world, d, n, p.bytes, p.link)
    BY <1>4, <2>1, <2>4 DEF Charged
  <2>6. tally'.dirs = tally.dirs /\ tally'.files = tally.files + 1
    BY <1>1, <2>2 DEF TallyStands
  <2>7. \/ p.link /\ IdOf(world, d, n) \in counted
        \/ ~p.link
        \/ ~Multiple(world, d, n)
    BY <2>1, <2>4
  <2>8. Multiple(world, d, n) /\ IdOf(world, d, n) \notin counted => ~p.link
    BY <2>1, <2>4
  <2>9. p.name = n /\ p.kind = "file"
    BY <2>1
  <2> HIDE DEF p, again
  <2>10. PlanFits(world, frame[d], d, n, {p}, counted, counted')
    BY <2>2, <2>3, <2>5, <2>8, <2>9 DEF PlanFits
  <2> QED
    BY <1>5, <2>2, <2>6, <2>9, <2>10
<1>9. CASE ClassifyFiltered(d, n)
  <2>1. ~Admits(world, frame[d], d, n)
    BY <1>4, <1>9 DEF ClassifyFiltered, Admits, Passes
  <2>2. Planned(d, n, {}) /\ counted' = counted /\ tally' = tally
    BY <1>9 DEF ClassifyFiltered
  <2>3. PlanFits(world, frame[d], d, n, {}, counted, counted')
    BY <2>1, <2>2 DEF PlanFits
  <2> QED
    BY <1>5, <2>2, <2>3
<1> QED
  BY <1>2, <1>6, <1>7, <1>8, <1>9

\* What a batch adds to the tree is what was planned.
LEMMA RecordedAre ==
    ASSUME NEW w, NEW fr, NEW nd, NEW ls, NEW cl, NEW ed, NEW co,
           WalkStands(w, fr, nd, ls, cl, ed, co), NEW t, AllSeen(w, fr, nd, ls, ed, co, t),
           NEW d \in Dirs, fr[d].pc = "classify"
    PROVE  /\ \A l \in NewLeaves(w, d, fr[d]) :
                \E p \in fr[d].plans : /\ p.kind = "file" /\ l.name = p.name /\ l.dir = d /\ ~l.err
                                       /\ l.bytes = p.bytes /\ l.link = p.link
                                       /\ l.id = IdOf(w, d, p.name)
           /\ \A p \in fr[d].plans : p.kind = "file" =>
                \E l \in NewLeaves(w, d, fr[d]) :
                    l.dir = d /\ l.name = p.name /\ ~l.err /\ l.link = p.link
           /\ \A e \in NewEdges(w, d, fr[d]) :
                e.from = d /\ \E p \in fr[d].plans : e.name = p.name
           /\ \A p \in fr[d].plans : p.kind # "file" =>
                \E e \in NewEdges(w, d, fr[d]) : e.from = d /\ e.name = p.name
           /\ \A p \in fr[d].plans : p.kind # "file" => Enters(w, d, p.name)
           /\ \A p \in fr[d].plans : p.kind = "file" => ~Enters(w, d, p.name)
           /\ \A p \in fr[d].plans : p.kind # "file" /\ ~w.follow => p \in ToEnter(fr[d])
<1> PICK f : f = fr[d]
  OBVIOUS
<1>1. PlansStand(w, d, f.plans)
  BY DEF WalkStands, FramesStand, FrameStands
<1>2. \A p \in f.plans : /\ p.kind # "error" /\ (p.kind = "seen" => w.follow)
                         /\ p.kind \in {"file", "dir", "seen"}
  BY <1>1 DEF AllSeen, Sound, PlansStand
<1>3. \A p : LeafOf(w, d, p).link = p.link
  BY DEF LeafOf
<1>4. \A l \in NewLeaves(w, d, f) :
                \E p \in f.plans : /\ p.kind = "file" /\ l.name = p.name /\ l.dir = d /\ ~l.err
                                   /\ l.bytes = p.bytes /\ l.link = p.link
                                   /\ l.id = IdOf(w, d, p.name)
  <2> SUFFICES ASSUME NEW p \in ToAdd(f)
               PROVE  LET l == LeafOf(w, d, p) IN
                      /\ p \in f.plans /\ p.kind = "file" /\ l.name = p.name /\ l.dir = d /\ ~l.err
                      /\ l.bytes = p.bytes /\ l.link = p.link /\ l.id = IdOf(w, d, p.name)
    BY DEF NewLeaves
  <2>1. p \in f.plans /\ p.kind = "file"
    BY <1>2 DEF ToAdd
  <2>2. (p.kind = "error") = FALSE
    BY <2>1
  <2>3. LeafOf(w, d, p).err = FALSE
    BY <2>2 DEF LeafOf
  <2> QED
    BY <1>3, <2>1, <2>3, LeafOfIs
<1>5. \A p \in f.plans : p.kind = "file" =>
                \E l \in NewLeaves(w, d, f) : l.dir = d /\ l.name = p.name /\ ~l.err /\ l.link = p.link
  <2> SUFFICES ASSUME NEW p \in f.plans, p.kind = "file"
               PROVE  \E l \in NewLeaves(w, d, f) :
                          l.dir = d /\ l.name = p.name /\ ~l.err /\ l.link = p.link
    OBVIOUS
  <2>1. LeafOf(w, d, p) \in NewLeaves(w, d, f)
    BY DEF NewLeaves, ToAdd
  <2>2. (p.kind = "error") = FALSE
    OBVIOUS
  <2>3. LeafOf(w, d, p).dir = d /\ LeafOf(w, d, p).name = p.name /\ LeafOf(w, d, p).err = FALSE
    BY <2>2 DEF LeafOf
  <2> QED
    BY <1>3, <2>1, <2>3
<1>6. \A e \in NewEdges(w, d, f) : e.from = d /\ \E p \in f.plans : e.name = p.name
  BY DEF NewEdges
<1>7. \A p \in f.plans : p.kind # "file" => \E e \in NewEdges(w, d, f) : e.from = d /\ e.name = p.name
  <2> SUFFICES ASSUME NEW p \in f.plans, p.kind # "file"
               PROVE  \E e \in NewEdges(w, d, f) : e.from = d /\ e.name = p.name
    OBVIOUS
  <2>1. p \in f.plans \ ToAdd(f)
    BY <1>2 DEF ToAdd
  <2> DEFINE e == [from |-> d, name |-> p.name, to |-> Goal(w, d, p.name)]
  <2>2. e \in NewEdges(w, d, f)
    BY <2>1 DEF NewEdges
  <2>3. e.from = d /\ e.name = p.name
    OBVIOUS
  <2> QED
    BY <2>2, <2>3
<1>8. \A p \in f.plans : p.kind # "file" => Enters(w, d, p.name)
  BY <1>1, <1>2 DEF PlansStand
<1>9. \A p \in f.plans : p.kind = "file" => ~Enters(w, d, p.name)
  BY <1>1 DEF PlansStand
<1>10. \A p \in f.plans : p.kind # "file" /\ ~w.follow => p \in ToEnter(f)
  BY <1>2 DEF ToEnter
<1> QED
  BY <1>4, <1>5, <1>6, <1>7, <1>8, <1>9, <1>10

\* A batch enters the tree, and its directories are to be entered next.
LEMMA RecordingSees ==
    ASSUME NEW w, NEW fr, NEW nd, NEW ls, NEW cl, NEW ed, NEW co,
           WalkStands(w, fr, nd, ls, cl, ed, co), w.root \in Dirs,
           NEW t, AllSeen(w, fr, nd, ls, ed, co, t),
           NEW d \in Dirs, fr[d].batch = {}, NEW to, NEW now, Recording(w, fr, to, nd, now, d),
           to[d].pc = "children", to[d].path = fr[d].path, to[d].fstype = fr[d].fstype,
           to[d].todo = {p.name : p \in ToEnter(fr[d])},
           NEW more, more = IF w.follow THEN ed \cup NewEdges(w, d, fr[d]) ELSE ed
    PROVE  AllSeen(w, to, now, ls \cup NewLeaves(w, d, fr[d]), more, co, t)
<1> PICK f : f = fr[d]
  OBVIOUS
<1> PICK K : K = NewChildren(w, d, f)
  OBVIOUS
<1> PICK new : new = NewLeaves(w, d, f)
  OBVIOUS
<1>1. /\ \A x \in Dirs : x # d => to[x] = fr[x]
      /\ to[d].plans = {} /\ to[d].batch = {} /\ to[d].unread = f.unread /\ f.pc = "classify"
      /\ FrameStands(w, d, f) /\ d \notin K /\ K \subseteq Dirs
      /\ \A x \in K : ~nd[x].live /\ fr[x].pc = "idle"
  BY NewIs DEF Recording
<1>2. /\ \A x \in K : /\ now[x].live /\ now[x].parent = d
                      /\ \E p \in ToEnter(f) : x = Goal(w, d, p.name) /\ now[x].name = p.name
      /\ \A x \in Dirs \ K : /\ now[x].live = nd[x].live /\ now[x].parent = nd[x].parent
                             /\ now[x].name = nd[x].name
      /\ \A p \in ToEnter(f) : Goal(w, d, p.name) \in K /\ p \in f.plans /\ p.kind = "dir"
  <2>1. Grown(nd, now, d, K, BytesOf(new), Cardinality({l \in new : ~l.err}))
    BY DEF Recording
  <2>2. /\ \A x \in K : now[x].live /\ now[x].parent = d
        /\ \A x \in Dirs \ K : now[x].live = nd[x].live /\ now[x].parent = nd[x].parent
    BY <1>1, <2>1 DEF Grown
  <2>3. /\ \A p \in ToEnter(f) : now[Goal(w, d, p.name)].name = p.name
        /\ \A x \in Dirs \ K : now[x].name = nd[x].name
    BY DEF Recording
  <2>4. \A x \in K : \E p \in ToEnter(f) : x = Goal(w, d, p.name)
    BY DEF NewChildren
  <2>5. \A p \in ToEnter(f) : Goal(w, d, p.name) \in K /\ p \in f.plans /\ p.kind = "dir"
    BY DEF NewChildren, ToEnter
  <2> QED
    BY <2>2, <2>3, <2>4, <2>5
<1>3. /\ \A x \in Dirs : nd[x].live /\ x # w.root => nd[x].parent \in Dirs
      /\ \A l \in ls : l.dir \in Dirs
      /\ \A e \in ed : e.from \in Dirs
      /\ \A x \in Dirs : fr[x].pc # "idle" => nd[x].live
  BY ParentsBegun DEF WalkStands, EdgesStand
<1>4. /\ \A l \in new :
                \E p \in f.plans : /\ p.kind = "file" /\ l.name = p.name /\ l.dir = d /\ ~l.err
                                   /\ l.bytes = p.bytes /\ l.link = p.link
                                   /\ l.id = IdOf(w, d, p.name)
      /\ \A p \in f.plans : p.kind = "file" =>
                \E l \in new : l.dir = d /\ l.name = p.name /\ ~l.err /\ l.link = p.link
      /\ \A e \in NewEdges(w, d, f) : e.from = d /\ \E p \in f.plans : e.name = p.name
      /\ \A p \in f.plans : p.kind # "file" =>
                \E e \in NewEdges(w, d, f) : e.from = d /\ e.name = p.name
      /\ \A p \in f.plans : p.kind # "file" => Enters(w, d, p.name)
      /\ \A p \in f.plans : p.kind = "file" => ~Enters(w, d, p.name)
      /\ \A p \in f.plans : p.kind # "file" /\ ~w.follow => p \in ToEnter(f)
  BY <1>1, RecordedAre
<1>5. \A x \in Dirs : /\ to[x].path = fr[x].path /\ to[x].fstype = fr[x].fstype
                      /\ to[x].unread = fr[x].unread
                      /\ (to[x].pc = "idle" <=> fr[x].pc = "idle")
                      /\ (to[x].pc = "done" => fr[x].pc = "done")
                      /\ \A m : Admits(w, to[x], x, m) <=> Admits(w, fr[x], x, m)
  <2>1. \A x \in Dirs : to[x].path = fr[x].path /\ to[x].fstype = fr[x].fstype
    BY <1>1
  <2> QED
    BY <1>1, <2>1 DEF Admits
<1>6. \A x \in Dirs : IsRead(to[x]) <=> IsRead(fr[x])
  BY <1>1 DEF IsRead
<1>7. \A p \in f.plans : Admits(w, f, d, p.name)
  BY DEF AllSeen, Sound
<1>8. PathsStand(w, to, now)
  <2> SUFFICES ASSUME NEW x \in Dirs, to[x].pc # "idle"
               PROVE  IF x = w.root THEN to[x].path = <<>>
                      ELSE to[x].path = Appended(to[now[x].parent].path, now[x].name)
    BY DEF PathsStand
  <2>1. fr[x].pc # "idle" /\ x \notin K /\ nd[x].live
    BY <1>1, <1>3, <1>5
  <2>2. IF x = w.root THEN fr[x].path = <<>>
                      ELSE fr[x].path = Appended(fr[nd[x].parent].path, nd[x].name)
    BY <2>1 DEF AllSeen, PathsStand
  <2> QED
    BY <1>2, <1>3, <1>5, <2>1, <2>2
<1>9. Sound(w, to, now, ls \cup new, more)
  <2>1. \A x \in Dirs : \A m \in to[x].batch : Listed(w, x, m, to[x].path)
    BY <1>1 DEF AllSeen, Sound
  <2>2. \A x \in Dirs : \A p \in to[x].plans :
          p.kind # "error" /\ (p.kind = "seen" => w.follow) /\ Admits(w, to[x], x, p.name)
    BY <1>1 DEF AllSeen, Sound
  <2>3. \A l \in ls \cup new : ~l.err /\ Admits(w, to[l.dir], l.dir, l.name)
    <3>1. \A l \in ls : ~l.err /\ Admits(w, to[l.dir], l.dir, l.name)
      BY <1>3, <1>5 DEF AllSeen, Sound
    <3>2. \A l \in new : ~l.err /\ Admits(w, to[l.dir], l.dir, l.name)
      <4> SUFFICES ASSUME NEW l \in new
                   PROVE  ~l.err /\ Admits(w, to[l.dir], l.dir, l.name)
        OBVIOUS
      <4>1. PICK p \in f.plans : l.name = p.name /\ l.dir = d /\ ~l.err
        BY <1>4
      <4>2. Admits(w, fr[d], d, p.name)
        BY <1>7
      <4> QED
        BY <1>5, <4>1, <4>2
    <3> QED
      BY <3>1, <3>2
  <2>4. \A e \in more : IsRead(to[e.from]) /\ Admits(w, to[e.from], e.from, e.name)
    <3>1. \A e \in ed : IsRead(to[e.from]) /\ Admits(w, to[e.from], e.from, e.name)
      BY <1>3, <1>5, <1>6 DEF AllSeen, Sound
    <3>2. \A e \in NewEdges(w, d, f) : IsRead(to[e.from]) /\ Admits(w, to[e.from], e.from, e.name)
      <4>1. IsRead(to[d])
        BY DEF IsRead
      <4> QED
        BY <1>4, <1>5, <1>7, <4>1
    <3> QED
      BY <3>1, <3>2
  <2>5. \A x \in Dirs : now[x].live /\ x # w.root =>
          Admits(w, to[now[x].parent], now[x].parent, now[x].name)
    <3> SUFFICES ASSUME NEW x \in Dirs, now[x].live, x # w.root
                 PROVE  Admits(w, to[now[x].parent], now[x].parent, now[x].name)
      OBVIOUS
    <3>1. CASE x \in K
      BY <1>2, <1>5, <1>7, <3>1
    <3>2. CASE x \notin K
      <4>1. nd[x].live /\ nd[x].parent \in Dirs /\ now[x].parent = nd[x].parent
            /\ now[x].name = nd[x].name
        BY <1>2, <1>3, <3>2
      <4>2. Admits(w, fr[nd[x].parent], nd[x].parent, nd[x].name)
        BY <4>1 DEF AllSeen, Sound
      <4> QED
        BY <1>5, <4>1, <4>2
    <3> QED
      BY <3>1, <3>2
  <2> QED
    BY <2>1, <2>2, <2>3, <2>4, <2>5 DEF Sound
<1>10. NoneMissed(w, to, now, ls \cup new, more)
  <2>1. ASSUME NEW x \in Dirs, IsRead(to[x]), NEW m \in Names(w, x), m \notin to[x].unread,
               m \notin to[x].batch, Admits(w, to[x], x, m)
        PROVE  Got(w, to[x], now, ls \cup new, more, x, m)
    <3>1. CASE x = d /\ \E p \in f.plans : p.name = m
      <4>1. PICK p \in f.plans : p.name = m
        BY <3>1
      <4>2. CASE p.kind = "file"
        BY <1>4, <3>1, <4>1, <4>2 DEF Got
      <4>3. CASE p.kind # "file"
        <5>1. /\ Enters(w, d, m)
              /\ w.follow => \E e \in NewEdges(w, d, f) : e.from = d /\ e.name = m
              /\ ~w.follow => now[Goal(w, d, m)].live
          BY <1>2, <1>4, <4>1, <4>3
        <5> QED
          BY <3>1, <5>1 DEF Got
      <4> QED
        BY <4>2, <4>3
    <3>2. CASE ~(x = d /\ \E p \in f.plans : p.name = m)
      <4>1. m \notin fr[x].batch /\ m \notin fr[x].unread
        BY <1>1, <1>5, <2>1
      <4>2. Got(w, fr[x], nd, ls, ed, x, m)
        BY <1>5, <1>6, <2>1, <4>1 DEF AllSeen, NoneMissed
      <4>3. Goal(w, x, m) \in Dirs /\ nd[Goal(w, x, m)].live => now[Goal(w, x, m)].live
        BY <1>1, <1>2
      <4>4. (\E p \in fr[x].plans : p.name = m) => (\E p \in to[x].plans : p.name = m)
        BY <1>1, <3>2
      <4>5. (\E l \in ls : l.dir = x /\ l.name = m) => (\E l \in ls \cup new : l.dir = x /\ l.name = m)
        OBVIOUS
      <4>6. (\E e \in ed : e.from = x /\ e.name = m) /\ w.follow
               => (\E e \in more : e.from = x /\ e.name = m)
        OBVIOUS
      <4>7. Enters(w, x, m) => Goal(w, x, m) \in Dirs
        BY DEF Enters
      <4> QED
        BY <4>2, <4>3, <4>4, <4>5, <4>6, <4>7 DEF Got
    <3> QED
      BY <3>1, <3>2
  <2>2. \A x \in Dirs : to[x].pc = "done" => to[x].unread = {}
    BY <1>5 DEF AllSeen, NoneMissed
  <2>3. ASSUME NEW x \in Dirs, now[x].live, to[x].pc = "idle"
        PROVE  x # w.root /\ now[x].name \in to[now[x].parent].todo
    <3>1. fr[x].pc = "idle" /\ x # w.root
      BY <1>5, <2>3 DEF WalkStands, Started
    <3>2. CASE x \in K
      BY <1>2, <3>1, <3>2
    <3>3. CASE x \notin K
      <4>1. /\ nd[x].live /\ now[x].parent = nd[x].parent /\ now[x].name = nd[x].name
            /\ nd[x].parent \in Dirs
        BY <1>2, <1>3, <2>3, <3>1, <3>3
      <4>2. nd[x].name \in fr[nd[x].parent].todo
        BY <3>1, <4>1 DEF AllSeen, NoneMissed
      <4>3. f.todo = {}
        BY <1>1 DEF FrameStands
      <4> QED
        BY <1>1, <3>1, <4>1, <4>2, <4>3
    <3> QED
      BY <3>2, <3>3
  <2> QED
    BY <2>1, <2>2, <2>3 DEF NoneMissed
<1>11. ChargedOnce(w, to, ls \cup new, co)
  <2>1. ASSUME NEW l \in ls \cup new
        PROVE  /\ Charged(w, l.dir, l.name, l.bytes, l.link)
               /\ Multiple(w, l.dir, l.name) => l.id \in co
    <3>1. CASE l \in ls
      BY <3>1 DEF AllSeen, ChargedOnce
    <3>2. CASE l \in new
      <4>1. PICK p \in f.plans : /\ p.kind = "file" /\ l.name = p.name /\ l.dir = d
                                 /\ l.bytes = p.bytes /\ l.link = p.link
                                 /\ l.id = IdOf(w, d, p.name)
        BY <1>4, <3>2
      <4>2. /\ Charged(w, d, p.name, p.bytes, p.link)
            /\ Multiple(w, d, p.name) => IdOf(w, d, p.name) \in co
        BY <4>1 DEF AllSeen, ChargedOnce
      <4> QED
        BY <4>1, <4>2
    <3> QED
      BY <3>1, <3>2
  <2>2. \A x \in Dirs : \A p \in to[x].plans : p.kind = "file" =>
          /\ Charged(w, x, p.name, p.bytes, p.link)
          /\ Multiple(w, x, p.name) => IdOf(w, x, p.name) \in co
    BY <1>1 DEF AllSeen, ChargedOnce
  <2>3. ASSUME NEW x \in Dirs, NEW m, Holds(w, fr, ls, x, m)
        PROVE  Holds(w, to, ls \cup new, x, m)
    <3>1. CASE \E l \in ls : l.dir = x /\ l.name = m /\ ~l.link
      BY <2>3, <3>1 DEF Holds
    <3>2. CASE x = d /\ \E p \in f.plans : p.name = m /\ p.kind = "file" /\ ~p.link
      <4>1. \E l \in new : l.dir = x /\ l.name = m /\ ~l.link
        BY <1>4, <3>2
      <4> QED
        BY <2>3, <4>1 DEF Holds
    <3>3. CASE x # d /\ \E p \in fr[x].plans : p.name = m /\ p.kind = "file" /\ ~p.link
      BY <1>1, <2>3, <3>3 DEF Holds
    <3> QED
      BY <2>3, <3>1, <3>2, <3>3 DEF Holds
  <2>4. \A id \in co : \E x \in Dirs : \E m \in Names(w, x) :
          Holds(w, to, ls \cup new, x, m) /\ IdOf(w, x, m) = id
    <3>1. \A id \in co : \E x \in Dirs : \E m \in Names(w, x) :
             Holds(w, fr, ls, x, m) /\ IdOf(w, x, m) = id
      BY DEF AllSeen, ChargedOnce
    <3> QED
      BY <2>3, <3>1
  <2> QED
    BY <2>1, <2>2, <2>4 DEF ChargedOnce
<1>12. AllCounted(to, ls \cup new, t)
  <2>1. Met(to, ls \cup new) = Met(fr, ls)
    <3>1. ASSUME NEW k \in Met(fr, ls)
          PROVE  k \in Met(to, ls \cup new)
      <4>1. CASE k \in {<<l.dir, l.name>> : l \in {o \in ls : ~o.err}}
        BY <4>1 DEF Met
      <4>2. ASSUME NEW x \in Dirs, NEW p \in fr[x].plans, p.kind = "file", k = <<x, p.name>>
            PROVE  k \in Met(to, ls \cup new)
        <5>1. CASE x = d
          <6>1. PICK l \in new : l.dir = d /\ l.name = p.name /\ ~l.err
            BY <1>4, <4>2, <5>1
          <6> QED
            BY <4>2, <5>1, <6>1 DEF Met
        <5>2. CASE x # d
          BY <1>1, <4>2, <5>2 DEF Met
        <5> QED
          BY <5>1, <5>2
      <4>3. k \in {<<l.dir, l.name>> : l \in {o \in ls : ~o.err}}
              \/ \E x \in Dirs : \E p \in fr[x].plans : p.kind = "file" /\ k = <<x, p.name>>
        BY DEF Met
      <4> QED
        BY <4>1, <4>2, <4>3
    <3>2. Met(to, ls \cup new) \subseteq Met(fr, ls)
      BY RecordingLeaves
    <3> QED
      BY <3>1, <3>2
  <2>2. ScansBegun(to) = ScansBegun(fr)
    BY <1>1 DEF ScansBegun
  <2> QED
    BY <2>1, <2>2 DEF AllSeen, AllCounted
<1> QED
  BY <1>8, <1>9, <1>10, <1>11, <1>12 DEF AllSeen

\* A batch is recorded, and nothing of it is lost.
LEMMA RecordSees ==
    ASSUME Walking, SeesAll, NEW d \in Dirs, RecordBatch(d), Clean'
    PROVE  AllSeen(world, frame', node', leaves', edges', counted', tally')
<1>1. ~cancelled /\ cancelled' = cancelled
  BY DEF RecordBatch, Clean
<1>2. frame[d].pc = "classify" /\ frame[d].batch = {}
  BY <1>1 DEF RecordBatch
<1>3. frame'[d].pc = "children"
  <2>1. frame = [x \in Dirs |-> frame[x]] /\ frame[d] = FrameRecord(frame[d])
    BY DEF Walking, WalkStands, FramesStand, FrameStands
  <2>2. \E todo : frame' = [frame EXCEPT ![d].pc = "children", ![d].batch = {},
                               ![d].plans = {}, ![d].todo = todo]
    BY <1>1 DEF RecordBatch
  <2> QED
    BY <2>1, <2>2 DEF FrameRecord
<1>4. world.root \in Dirs
  BY <1>2, WalkingIs
<1> QED
  BY <1>1, <1>2, <1>3, <1>4, RecordWalksOn, RecordingSees DEF Walking, SeesAll

\* Every step of a scan without errors keeps that nothing was missed.
LEMMA DirSees ==
    ASSUME Walking, SeesAll, NEW d \in Dirs, ScanDir(d), Clean'
    PROVE  AllSeen(world, frame', node', leaves', edges', counted', tally')
BY BeginSees, OpenSees, ReadSees, ClassifySees, RecordSees, ChildSees, WaitSees DEF ScanDir

\* The root alone: nothing to miss yet.
LEMMA SeesBegin ==
    ASSUME NEW w \in Worlds, NEW to, NEW now, RootEnters(w, to, now),
           NEW t, t.files = 0, t.dirs = 0
    PROVE  AllSeen(w, to, now, {}, {}, {}, t)
<1>1. w.root \in Dirs
  BY ScanAssumption
<1>2. /\ \A d \in Dirs : /\ to[d].plans = {} /\ to[d].batch = {}
                         /\ to[d].pc = IF d = w.root THEN "begin" ELSE "idle"
                         /\ now[d].live <=> d = w.root
      /\ to[w.root].path = <<>>
  <2> PICK fstype : to = [d \in Dirs |-> IF d = w.root
                            THEN [NoFrame EXCEPT !.pc = "begin", !.fstype = fstype]
                            ELSE NoFrame]
    BY DEF RootEnters
  <2> PICK f : f = [NoFrame EXCEPT !.pc = "begin", !.fstype = fstype]
    OBVIOUS
  <2> PICK a : a = [NoNode EXCEPT !.live = TRUE]
    OBVIOUS
  <2>1. f.plans = {} /\ f.batch = {} /\ f.pc = "begin" /\ f.path = <<>>
    BY DEF NoFrame
  <2>2. NoFrame.plans = {} /\ NoFrame.batch = {} /\ NoFrame.pc = "idle"
    BY DEF NoFrame
  <2>3. a.live = TRUE /\ NoNode.live = FALSE
    BY DEF NoNode
  <2> QED
    BY <1>1, <2>1, <2>2, <2>3 DEF RootEnters
<1>3. PathsStand(w, to, now) /\ Sound(w, to, now, {}, {}) /\ NoneMissed(w, to, now, {}, {})
  <2>1. PathsStand(w, to, now)
    BY <1>2 DEF PathsStand
  <2>2. Sound(w, to, now, {}, {})
    BY <1>2 DEF Sound
  <2>3. NoneMissed(w, to, now, {}, {})
    BY <1>2 DEF NoneMissed, IsRead
  <2> QED
    BY <2>1, <2>2, <2>3
<1>4. ChargedOnce(w, to, {}, {})
  BY <1>2 DEF ChargedOnce
<1>5. AllCounted(to, {}, t)
  <2>1. Met(to, {}) = {} /\ ScansBegun(to) = {}
    BY <1>2 DEF Met, ScansBegun
  <2> QED
    BY <2>1, FS_EmptySet DEF AllCounted
<1> QED
  BY <1>3, <1>4, <1>5 DEF AllSeen

-----------------------------------------------------------------------------
(***************************************************************************)
(* The paths on which a directory is met                                   *)
(***************************************************************************)

\* On whatever paths the aliases of w lead to a directory, its policy says the
\* same of what is in it.  W are the directories with the paths on which the
\* entries that are listed lead to them.
Unambiguous(w) ==
    w.follow => \E W \in SUBSET (Dirs \X Seq(Int)) :
        /\ <<w.root, <<>>>> \in W
        /\ \A d \in Dirs : \A p \in Seq(Int) : <<d, p>> \in W =>
              \A n \in Names(w, d) : Enters(w, d, n) /\ Listed(w, d, n, p) =>
                  <<Goal(w, d, n), Appended(p, n)>> \in W
        /\ \A d \in Dirs : \A p, q \in Seq(Int) : <<d, p>> \in W /\ <<d, q>> \in W =>
              \A n \in Names(w, d) :
                  /\ Listed(w, d, n, p) <=> Listed(w, d, n, q)
                  /\ \A fstype : Reachable(w, d, n, p, fstype) <=> Reachable(w, d, n, q, fstype)

\* When the scan of the root is over, so is that of every directory in the tree.
LEMMA AllDone ==
    ASSUME Walking, SeesAll, frame[world.root].pc = "done"
    PROVE  /\ \A d \in Dirs : frame[d].plans = {} /\ frame[d].batch = {}
           /\ \A d \in Dirs : node[d].live => frame[d].unread = {} /\ IsRead(frame[d])
           /\ ScansBegun(frame) = {d \in Dirs : node[d].live}
<1>1. /\ \A d \in Dirs : ~Active(frame[d]) /\ frame[d].plans = {} /\ frame[d].batch = {}
      /\ \A d \in Dirs : frame[d].todo = {}
  <2>1. \A d \in Dirs : ~Active(frame[d]) /\ frame[d].plans = {} /\ frame[d].batch = {}
    BY NothingPlanned
  <2>2. \A d \in Dirs : FrameStands(world, d, frame[d])
    BY DEF Walking, WalkStands, FramesStand
  <2> QED
    BY <2>1, <2>2 DEF FrameStands, Active
<1>2. \A d \in Dirs : node[d].live => frame[d].pc = "done"
  <2> SUFFICES ASSUME NEW d \in Dirs, node[d].live, frame[d].pc = "idle"
               PROVE  FALSE
    BY <1>1 DEF Active
  <2>1. d # world.root /\ node[d].name \in frame[node[d].parent].todo
    BY DEF SeesAll, AllSeen, NoneMissed
  <2>2. node[d].parent \in Dirs
    BY <2>1, ParentsBegun DEF Walking
  <2> QED
    BY <1>1, <2>1, <2>2
<1>3. \A d \in Dirs : node[d].live => frame[d].unread = {} /\ IsRead(frame[d])
  BY <1>2 DEF SeesAll, AllSeen, NoneMissed, IsRead
<1>4. \A d \in Dirs : frame[d].pc # "idle" => node[d].live
  BY ParentsBegun DEF Walking
<1>5. ScansBegun(frame) = {d \in Dirs : node[d].live}
  BY <1>2, <1>4 DEF ScansBegun
<1> QED
  BY <1>1, <1>3, <1>5

\* The path of a scan is that of its directory in the tree.
LEMMA ScanPaths ==
    ASSUME Walking, SeesAll, frame[world.root].pc = "done"
    PROVE  \A d \in Dirs : node[d].live => frame[d].path = PathIn(node, d)
<1>1. TreeStands(world, node) /\ world \in Worlds
  BY DEF Walking, WalkStands
<1>2. Parented(node) /\ Grounded(node) /\ Named(node)
  BY <1>1, TreePaths
<1>3. \A d \in Dirs : node[d].live => frame[d].pc # "idle"
  BY AllDone DEF IsRead
<1> DEFINE F == {d \in Dirs : node[d].live => frame[d].path = PathIn(node, d)}
<1>4. ASSUME NEW d \in Dirs, node[d].parent \in F \cup {NoDir}
      PROVE  d \in F
  <2> SUFFICES ASSUME node[d].live PROVE frame[d].path = PathIn(node, d)
    OBVIOUS
  <2>1. IF d = world.root THEN frame[d].path = <<>>
        ELSE frame[d].path = Appended(frame[node[d].parent].path, node[d].name)
    BY <1>3 DEF SeesAll, AllSeen, PathsStand
  <2>2. PathIn(node, d) = IF node[d].parent = NoDir THEN <<>>
                          ELSE Appended(PathIn(node, node[d].parent), node[d].name)
    BY <1>2, PathIs DEF Appended
  <2>3. CASE d = world.root
    BY <1>1, <2>1, <2>2, <2>3 DEF TreeStands
  <2>4. CASE d # world.root
    <3>1. node[d].parent \in Dirs /\ node[d].parent # NoDir
      BY <1>1, <2>4, ScanAssumption DEF TreeStands
    <3>2. node[node[d].parent].live
      BY <1>1, <3>1 DEF TreeStands, Tree
    <3> QED
      BY <1>4, <2>1, <2>2, <2>4, <3>1, <3>2
  <2> QED
    BY <2>3, <2>4
<1> HIDE DEF F
<1>5. Dirs \subseteq F
  BY <1>2, <1>4, Descent
<1> QED
  BY <1>5 DEF F

\* A tree whose places are admitted has its directories where ways lead.
LEMMA PlacesAreWays ==
    ASSUME NEW w \in Worlds, NEW tr, TreeStands(w, tr), NEW W, NEW P,
           <<w.root, <<>>>> \in W, P[w.root] = <<>>,
           \A d \in Dirs : tr[d].live /\ d # w.root =>
              /\ P[d] = Appended(P[tr[d].parent], tr[d].name)
              /\ <<tr[d].parent, P[tr[d].parent]>> \in W =>
                    <<d, Appended(P[tr[d].parent], tr[d].name)>> \in W
    PROVE  \A d \in Dirs : tr[d].live => <<d, P[d]>> \in W
<1>1. Parented(tr) /\ Grounded(tr)
  BY TreePaths
<1> DEFINE F == {d \in Dirs : tr[d].live => <<d, P[d]>> \in W}
<1>2. ASSUME NEW d \in Dirs, tr[d].parent \in F \cup {NoDir}
      PROVE  d \in F
  <2> SUFFICES ASSUME tr[d].live, d # w.root PROVE <<d, P[d]>> \in W
    OBVIOUS
  <2>1. tr[d].parent \in Dirs /\ tr[d].parent # NoDir
    BY ScanAssumption DEF TreeStands
  <2>2. tr[tr[d].parent].live
    BY <2>1 DEF TreeStands, Tree
  <2> QED
    BY <1>2, <2>1, <2>2
<1> HIDE DEF F
<1>3. Dirs \subseteq F
  BY <1>1, <1>2, Descent
<1> QED
  BY <1>3 DEF F

\* What the policy says of the entries of a directory at the place it has in
\* the end is what it said of them on the path of its scan.
LEMMA WaysPass ==
    ASSUME Walking, SeesAll, frame[world.root].pc = "done", Unambiguous(world),
           NEW tr, TreeStands(world, tr), OnlyPlaces(node, tr),
           IF world.follow THEN PlacedByEdges(world, tr) ELSE tr = node
    PROVE  \A d \in Dirs : node[d].live => \A n \in Names(world, d) :
              Passes(world, d, n, PathIn(tr, d), frame[d].fstype) <=> Admits(world, frame[d], d, n)
<1>1. TreeStands(world, node) /\ world \in Worlds /\ world.root \in Dirs
  BY ScanAssumption DEF Walking, WalkStands
<1>2. CASE ~world.follow
  BY <1>2, ScanPaths DEF Admits
<1>3. CASE world.follow
  <2> PICK W \in SUBSET (Dirs \X Seq(Int)) :
        /\ <<world.root, <<>>>> \in W
        /\ \A d \in Dirs : \A p \in Seq(Int) : <<d, p>> \in W =>
              \A n \in Names(world, d) : Enters(world, d, n) /\ Listed(world, d, n, p) =>
                  <<Goal(world, d, n), Appended(p, n)>> \in W
        /\ \A d \in Dirs : \A p, q \in Seq(Int) : <<d, p>> \in W /\ <<d, q>> \in W =>
              \A n \in Names(world, d) :
                  /\ Listed(world, d, n, p) <=> Listed(world, d, n, q)
                  /\ \A fstype : Reachable(world, d, n, p, fstype)
                                    <=> Reachable(world, d, n, q, fstype)
    BY <1>3 DEF Unambiguous
  <2>0. \A d, p : <<d, p>> \in W => d \in Dirs /\ p \in Seq(Int)
    OBVIOUS
  <2> DEFINE WasAt == [d \in Dirs |-> frame[d].path]
             IsAt == [d \in Dirs |-> PathIn(tr, d)]
  <2>1. \A d \in Dirs : node[d].live => <<d, frame[d].path>> \in W
    <3>1. ASSUME NEW d \in Dirs, node[d].live, d # world.root
          PROVE  /\ node[d].parent \in Dirs
                 /\ frame[d].path = Appended(frame[node[d].parent].path, node[d].name)
                 /\ <<node[d].parent, frame[node[d].parent].path>> \in W =>
                       <<d, Appended(frame[node[d].parent].path, node[d].name)>> \in W
      <4>1. /\ node[d].parent \in Dirs /\ node[d].name \in Names(world, node[d].parent)
            /\ Goal(world, node[d].parent, node[d].name) = d
            /\ Enters(world, node[d].parent, node[d].name)
        BY <1>1, <3>1 DEF TreeStands
      <4>2. frame[d].pc # "idle"
        BY <3>1, AllDone DEF IsRead
      <4>3. Listed(world, node[d].parent, node[d].name, frame[node[d].parent].path)
        BY <3>1 DEF SeesAll, AllSeen, Sound, Admits, Passes
      <4>4. frame[d].path = Appended(frame[node[d].parent].path, node[d].name)
        BY <3>1, <4>2 DEF SeesAll, AllSeen, PathsStand
      <4> QED
        BY <2>0, <4>1, <4>3, <4>4
    <3>2. frame[world.root].path = <<>>
      BY <1>1 DEF SeesAll, AllSeen, PathsStand
    <3>3. \A d \in Dirs : node[d].live => <<d, WasAt[d]>> \in W
      <4>1. WasAt[world.root] = <<>>
        BY <1>1, <3>2
      <4>2. \A d \in Dirs : node[d].live /\ d # world.root =>
              /\ WasAt[d] = Appended(WasAt[node[d].parent], node[d].name)
              /\ <<node[d].parent, WasAt[node[d].parent]>> \in W =>
                    <<d, Appended(WasAt[node[d].parent], node[d].name)>> \in W
        BY <3>1
      <4> HIDE DEF WasAt
      <4> QED
        BY <1>1, <4>1, <4>2, PlacesAreWays
    <3> QED
      BY <3>3
  <2>2. Parented(tr) /\ Grounded(tr) /\ Named(tr)
    BY <1>1, TreePaths
  <2>3. \A d \in Dirs : tr[d].live => <<d, PathIn(tr, d)>> \in W
    <3>1. ASSUME NEW d \in Dirs, tr[d].live, d # world.root
          PROVE  /\ tr[d].parent \in Dirs
                 /\ PathIn(tr, d) = Appended(PathIn(tr, tr[d].parent), tr[d].name)
                 /\ <<tr[d].parent, PathIn(tr, tr[d].parent)>> \in W =>
                       <<d, Appended(PathIn(tr, tr[d].parent), tr[d].name)>> \in W
      <4> PICK p : p = tr[d].parent
        OBVIOUS
      <4> PICK n : n = tr[d].name
        OBVIOUS
      <4>1. /\ p \in Dirs /\ n \in Names(world, p) /\ Goal(world, p, n) = d /\ Enters(world, p, n)
            /\ p # NoDir
        BY <1>1, <3>1, ScanAssumption DEF TreeStands
      <4>2. node[p].live
        <5>1. tr[p].live
          BY <3>1, <4>1 DEF TreeStands, Tree
        <5> QED
          BY <4>1, <5>1 DEF OnlyPlaces
      <4>3. Listed(world, p, n, frame[p].path)
        <5>1. [from |-> p, name |-> n, to |-> d] \in edges
          BY <1>3, <3>1 DEF PlacedByEdges
        <5> PICK e \in edges : e = [from |-> p, name |-> n, to |-> d]
          BY <5>1
        <5>2. e.from = p /\ e.name = n
          OBVIOUS
        <5>3. Admits(world, frame[e.from], e.from, e.name)
          BY DEF SeesAll, AllSeen, Sound
        <5> QED
          BY <5>2, <5>3 DEF Admits, Passes
      <4>4. PathIn(tr, d) = Appended(PathIn(tr, p), n)
        BY <2>2, <4>1, PathIs DEF Appended
      <4>5. ASSUME <<p, PathIn(tr, p)>> \in W
            PROVE  <<d, Appended(PathIn(tr, p), n)>> \in W
        <5>1. <<p, frame[p].path>> \in W
          BY <2>1, <4>1, <4>2
        <5>2. Listed(world, p, n, PathIn(tr, p))
          BY <2>0, <4>1, <4>3, <4>5, <5>1
        <5> QED
          BY <2>0, <4>1, <4>5, <5>2
      <4> QED
        BY <4>1, <4>4, <4>5
    <3>2. PathIn(tr, world.root) = <<>>
      BY <1>1, <2>2, PathIs DEF TreeStands
    <3>3. \A d \in Dirs : tr[d].live => <<d, IsAt[d]>> \in W
      <4>1. IsAt[world.root] = <<>>
        BY <1>1, <3>2
      <4>2. \A d \in Dirs : tr[d].live /\ d # world.root =>
              /\ IsAt[d] = Appended(IsAt[tr[d].parent], tr[d].name)
              /\ <<tr[d].parent, IsAt[tr[d].parent]>> \in W =>
                    <<d, Appended(IsAt[tr[d].parent], tr[d].name)>> \in W
        BY <3>1
      <4> HIDE DEF IsAt
      <4> QED
        BY <1>1, <4>1, <4>2, PlacesAreWays
    <3> QED
      BY <3>3
  <2>4. ASSUME NEW d \in Dirs, node[d].live, NEW n \in Names(world, d)
        PROVE  Passes(world, d, n, PathIn(tr, d), frame[d].fstype) <=> Admits(world, frame[d], d, n)
    <3>1. tr[d].live
      BY <2>4 DEF OnlyPlaces
    <3>2. <<d, PathIn(tr, d)>> \in W /\ <<d, frame[d].path>> \in W
      BY <2>1, <2>3, <2>4, <3>1
    <3>3. /\ Listed(world, d, n, PathIn(tr, d)) <=> Listed(world, d, n, frame[d].path)
          /\ Reachable(world, d, n, PathIn(tr, d), frame[d].fstype)
                <=> Reachable(world, d, n, frame[d].path, frame[d].fstype)
      BY <2>0, <3>2
    <3> QED
      BY <3>3 DEF Admits, Passes
  <2> QED
    BY <2>4
<1> QED
  BY <1>2, <1>3

-----------------------------------------------------------------------------
(***************************************************************************)
(* The one right tree                                                      *)
(***************************************************************************)

\* The policy takes the entry n of d at the place d has in the tree.
Belongs(w, fr, nd, d, n) == n \in Names(w, d) /\ Passes(w, d, n, PathIn(nd, d), fr[d].fstype)

\* The directories of a tree are those its policy takes, each at the smallest
\* of its paths.
RightDirs(w, fr, nd) ==
    /\ nd[w.root].live
    /\ \A p \in Dirs : nd[p].live => \A n : Belongs(w, fr, nd, p, n) /\ Enters(w, p, n) =>
          /\ nd[Goal(w, p, n)].live
          /\ Goal(w, p, n) # w.root =>
                ~PathLess(Appended(PathIn(nd, p), n), PathIn(nd, Goal(w, p, n)))
    /\ \A d \in Dirs : nd[d].live /\ d # w.root =>
          /\ nd[d].parent \in Dirs /\ nd[nd[d].parent].live
          /\ Belongs(w, fr, nd, nd[d].parent, nd[d].name)
          /\ Enters(w, nd[d].parent, nd[d].name) /\ Goal(w, nd[d].parent, nd[d].name) = d

\* So are its other entries.
RightNames(w, fr, nd, ls) ==
    /\ \A l \in ls : /\ l.dir \in Dirs /\ nd[l.dir].live
                     /\ Belongs(w, fr, nd, l.dir, l.name) /\ ~Enters(w, l.dir, l.name)
    /\ \A d \in Dirs : nd[d].live => \A n : Belongs(w, fr, nd, d, n) /\ ~Enters(w, d, n) =>
          \E l \in ls : l.dir = d /\ l.name = n

\* A file has its bytes under the smallest of its paths.
First(nd, ls, l, M) == l \in M /\ \E o \in M : PathLess(LeafPath(nd, o), LeafPath(nd, l))
MetAs(w, ls, l) == {o \in ls : o.id = l.id /\ Multiple(w, o.dir, o.name)}
RightBytes(w, nd, ls) ==
    \A l \in ls : LET later == First(nd, ls, l, MetAs(w, ls, l)) IN
        /\ l.bytes = IF later THEN 0 ELSE SizeIn(w, l.dir, l.name)
        /\ l.link = later

RightCounts(nd, ls, t) ==
    t.files = Cardinality(ls) /\ t.dirs = Cardinality({d \in Dirs : nd[d].live})

RightTree(w, fr, nd, ls, t) ==
    /\ RightDirs(w, fr, nd) /\ RightNames(w, fr, nd, ls) /\ RightBytes(w, nd, ls)
    /\ RightCounts(nd, ls, t)

\* The tree with its owners, as the settling makes it of a walk without errors.
SettledIn(tr) ==
    /\ Walking /\ SeesAll /\ frame[world.root].pc = "done"
    /\ TreeStands(world, tr) /\ OnlyPlaces(node, tr)
    /\ IF world.follow THEN PlacedByEdges(world, tr) ELSE tr = node
    /\ \A e \in edges : tr[e.to].live
          /\ ~PathLess(Appended(PathIn(tr, e.from), e.name), PathIn(tr, e.to))

\* Its directories are right.
LEMMA SettledDirs ==
    ASSUME NEW tr, SettledIn(tr), Unambiguous(world)
    PROVE  RightDirs(world, frame, tr)
<1>1. /\ TreeStands(world, node) /\ EdgesStand(world, node, edges) /\ world \in Worlds
      /\ world.root \in Dirs
  BY ScanAssumption DEF SettledIn, Walking, WalkStands
<1>2. \A d \in Dirs : tr[d].live <=> node[d].live
  BY DEF SettledIn, OnlyPlaces
<1>3. \A d \in Dirs : node[d].live => frame[d].plans = {} /\ frame[d].batch = {}
                                      /\ frame[d].unread = {} /\ IsRead(frame[d])
  BY AllDone DEF SettledIn
<1>4. \A d \in Dirs : node[d].live => \A n \in Names(world, d) :
              Passes(world, d, n, PathIn(tr, d), frame[d].fstype) <=> Admits(world, frame[d], d, n)
  BY WaysPass DEF SettledIn
<1>5. tr[world.root].live
  BY DEF SettledIn, TreeStands
<1>6. ASSUME NEW p \in Dirs, tr[p].live, NEW n, Belongs(world, frame, tr, p, n), Enters(world, p, n)
      PROVE  /\ tr[Goal(world, p, n)].live
             /\ Goal(world, p, n) # world.root =>
                   ~PathLess(Appended(PathIn(tr, p), n), PathIn(tr, Goal(world, p, n)))
  <2> PICK d : d = Goal(world, p, n)
    OBVIOUS
  <2>1. n \in Names(world, p) /\ d \in Dirs /\ node[p].live
    BY <1>2, <1>6 DEF Belongs, Enters
  <2>2. Admits(world, frame[p], p, n)
    BY <1>4, <1>6, <2>1 DEF Belongs
  <2>3. Got(world, frame[p], node, leaves, edges, p, n)
    BY <1>3, <2>1, <2>2 DEF SettledIn, SeesAll, AllSeen, NoneMissed
  <2>4. CASE world.follow
    <3>1. PICK e \in edges : e.from = p /\ e.name = n
      BY <1>3, <1>6, <2>1, <2>3, <2>4 DEF Got
    <3>2. e.to = d
      BY <1>1, <3>1 DEF EdgesStand
    <3> QED
      BY <3>1, <3>2 DEF SettledIn
  <2>5. CASE ~world.follow
    <3>1. node[d].live
      BY <1>3, <1>6, <2>1, <2>3, <2>5 DEF Got
    <3>2. ASSUME d # world.root
          PROVE  ~PathLess(Appended(PathIn(tr, p), n), PathIn(tr, d))
      <4>1. /\ tr[d].parent \in Dirs /\ tr[d].name \in Names(world, tr[d].parent)
            /\ Goal(world, tr[d].parent, tr[d].name) = d /\ Enters(world, tr[d].parent, tr[d].name)
        BY <1>2, <2>1, <3>1, <3>2 DEF SettledIn, TreeStands
      <4>2. tr[d].parent = p /\ tr[d].name = n
        BY <1>1, <1>6, <2>1, <2>5, <4>1, OneWayIn
      <4>3. PathIn(tr, d) = Appended(PathIn(tr, p), n) /\ PathIn(tr, d) \in Seq(Int)
        <5>1. Parented(tr) /\ Grounded(tr) /\ Named(tr)
          BY <1>1, TreePaths DEF SettledIn
        <5>2. p # NoDir
          BY ScanAssumption
        <5> QED
          BY <2>1, <4>2, <5>1, <5>2, PathIs DEF Appended
      <4> QED
        BY <4>3, LessIsStrict
    <3> QED
      BY <1>2, <2>1, <3>1, <3>2
  <2> QED
    BY <2>4, <2>5
<1>7. ASSUME NEW d \in Dirs, tr[d].live, d # world.root
      PROVE  /\ tr[d].parent \in Dirs /\ tr[tr[d].parent].live
             /\ Belongs(world, frame, tr, tr[d].parent, tr[d].name)
             /\ Enters(world, tr[d].parent, tr[d].name) /\ Goal(world, tr[d].parent, tr[d].name) = d
  <2> PICK p : p = tr[d].parent
    OBVIOUS
  <2> PICK n : n = tr[d].name
    OBVIOUS
  <2>1. p \in Dirs /\ n \in Names(world, p) /\ Goal(world, p, n) = d /\ Enters(world, p, n)
    BY <1>7 DEF SettledIn, TreeStands
  <2>2. tr[p].live /\ node[p].live
    <3>1. p # NoDir
      BY <2>1, ScanAssumption
    <3>2. tr[p].live
      BY <1>7, <2>1, <3>1 DEF SettledIn, TreeStands, Tree
    <3> QED
      BY <1>2, <2>1, <3>2
  <2>3. Admits(world, frame[p], p, n)
    <3>1. CASE world.follow
      <4>1. [from |-> p, name |-> n, to |-> d] \in edges
        BY <1>7, <3>1 DEF SettledIn, PlacedByEdges
      <4> PICK e \in edges : e = [from |-> p, name |-> n, to |-> d]
        BY <4>1
      <4>2. e.from = p /\ e.name = n
        OBVIOUS
      <4>3. Admits(world, frame[e.from], e.from, e.name)
        BY DEF SettledIn, SeesAll, AllSeen, Sound
      <4> QED
        BY <4>2, <4>3
    <3>2. CASE ~world.follow
      BY <1>7, <3>2 DEF SettledIn, SeesAll, AllSeen, Sound
    <3> QED
      BY <3>1, <3>2
  <2>4. Belongs(world, frame, tr, p, n)
    BY <1>4, <2>1, <2>2, <2>3 DEF Belongs
  <2> QED
    BY <2>1, <2>2, <2>4
<1> QED
  BY <1>5, <1>6, <1>7 DEF RightDirs

\* So are the names of everything else, before bytes find their owners.
LEMMA SettledNames ==
    ASSUME NEW tr, SettledIn(tr), Unambiguous(world)
    PROVE  RightNames(world, frame, tr, leaves)
<1>1. \A d \in Dirs : tr[d].live <=> node[d].live
  BY DEF SettledIn, OnlyPlaces
<1>2. \A d \in Dirs : node[d].live => frame[d].plans = {} /\ frame[d].batch = {}
                                      /\ frame[d].unread = {} /\ IsRead(frame[d])
  BY AllDone DEF SettledIn
<1>3. \A d \in Dirs : node[d].live => \A n \in Names(world, d) :
              Passes(world, d, n, PathIn(tr, d), frame[d].fstype) <=> Admits(world, frame[d], d, n)
  BY WaysPass DEF SettledIn
<1>4. ASSUME NEW l \in leaves
      PROVE  /\ l.dir \in Dirs /\ tr[l.dir].live
             /\ Belongs(world, frame, tr, l.dir, l.name) /\ ~Enters(world, l.dir, l.name)
  <2>1. ~l.err /\ Admits(world, frame[l.dir], l.dir, l.name)
    BY DEF SettledIn, SeesAll, AllSeen, Sound
  <2>2. /\ l.dir \in Dirs /\ node[l.dir].live /\ l.name \in Names(world, l.dir)
        /\ ~Enters(world, l.dir, l.name)
    BY <2>1 DEF SettledIn, Walking, WalkStands, LeavesStand
  <2> QED
    BY <1>1, <1>3, <2>1, <2>2 DEF Belongs
<1>5. ASSUME NEW d \in Dirs, tr[d].live, NEW n, Belongs(world, frame, tr, d, n),
             ~Enters(world, d, n)
      PROVE  \E l \in leaves : l.dir = d /\ l.name = n
  <2>1. n \in Names(world, d) /\ node[d].live /\ Admits(world, frame[d], d, n)
    BY <1>1, <1>3, <1>5 DEF Belongs
  <2>2. Got(world, frame[d], node, leaves, edges, d, n)
    BY <1>2, <2>1 DEF SettledIn, SeesAll, AllSeen, NoneMissed
  <2> QED
    BY <1>2, <1>5, <2>1, <2>2 DEF Got
<1> QED
  BY <1>4, <1>5 DEF RightNames

\* What was counted is what is there.
LEMMA SettledCounts ==
    ASSUME NEW tr, SettledIn(tr)
    PROVE  RightCounts(tr, leaves, tally)
<1>1. \A d \in Dirs : frame[d].plans = {}
  BY AllDone DEF SettledIn
<1>2. tally.dirs = Cardinality({d \in Dirs : tr[d].live})
  <2>1. tally.dirs = Cardinality({d \in Dirs : node[d].live})
    BY AllDone DEF SettledIn, SeesAll, AllSeen, AllCounted
  <2>2. {d \in Dirs : node[d].live} = {d \in Dirs : tr[d].live}
    BY DEF SettledIn, OnlyPlaces
  <2> QED
    BY <2>1, <2>2
<1>3. tally.files = Cardinality(leaves)
  <2> DEFINE spot == [l \in leaves |-> <<l.dir, l.name>>]
             all == {<<l.dir, l.name>> : l \in leaves}
  <2>1. Met(frame, leaves) = all
    <3>1. \A l \in leaves : ~l.err
      BY DEF SettledIn, SeesAll, AllSeen, Sound
    <3> QED
      BY <1>1, <3>1 DEF Met
  <2>2. tally.files = Cardinality(all)
    BY <2>1 DEF SettledIn, SeesAll, AllSeen, AllCounted
  <2>3. IsFiniteSet(leaves) /\ \A l, o \in leaves : l.dir = o.dir /\ l.name = o.name => l = o
    BY DEF SettledIn, Walking, WalkStands, LeavesStand
  <2>4. spot \in Surjection(leaves, all)
    BY DEF Surjection
  <2>5. spot \in Injection(leaves, all)
    BY <2>3 DEF Injection, IsInjective
  <2> HIDE DEF spot, all
  <2> QED
    BY <2>2, <2>3, <2>4, <2>5, FS_Surjection
<1> QED
  BY <1>2, <1>3 DEF RightCounts

\* Where one has all the bytes the sum is no more than its own.
LEMMA BytesOfOne ==
    ASSUME NEW S, IsFiniteSet(S), NEW h \in S, \A x \in S : x.bytes \in Nat,
           \A x \in S : x # h => x.bytes = 0
    PROVE  BytesOf(S) <= h.bytes
<1> DEFINE f == BytesIn(S)
           one == [x \in {h} |-> h.bytes]
           phi == [x \in S |-> h]
<1>1. BytesOf(S) = SumOver(f, S)
  BY BytesSum, S \in SUBSET S, \A x \in S : x.bytes \in Int
<1>2. /\ \A x \in S : f[x] = x.bytes /\ phi[x] = h
      /\ one[h] = h.bytes /\ IsFiniteSet({h}) /\ h.bytes \in Nat
  BY FS_Singleton DEF BytesIn
<1> HIDE DEF f, one, phi
<1>3. SumOver(f, S) <= SumOver(one, {h})
  <2>1. \A x \in S : f[x] \in Nat /\ phi[x] \in {h} /\ f[x] <= one[phi[x]]
    BY <1>2
  <2>2. \A y \in {h} : one[y] \in Nat
    BY <1>2
  <2>3. \A x, y \in S : f[x] > 0 /\ f[y] > 0 /\ phi[x] = phi[y] => x = y
    BY <1>2
  <2> QED
    BY <1>2, <2>1, <2>2, <2>3, SumInjected
<1>4. SumOver(one, {h}) = h.bytes
  <2>1. Pick({h}) = h
    BY DEF Pick
  <2>2. SumOver(one, {}) = 0
    BY FS_EmptySet, SumStep
  <2>3. SumOver(one, {h}) = one[Pick({h})] + SumOver(one, {h} \ {Pick({h})})
    <3>1. {h} # {} /\ IsFiniteSet({h}) /\ \A x \in {h} : one[x] \in Int
      BY <1>2
    <3> QED
      BY ONLY <3>1, SumStep
  <2>4. {h} \ {Pick({h})} = {}
    BY <2>1
  <2>5. SumOver(one, {h}) = one[h] + 0
    BY ONLY <2>1, <2>2, <2>3, <2>4
  <2> QED
    BY <1>2, <2>5
<1> QED
  BY <1>1, <1>3, <1>4

\* Names of the same file have its size.
LEMMA SameSize ==
    ASSUME NEW w, NEW d, NEW n, NEW e, NEW m, IdOf(w, d, n) = IdOf(w, e, m),
           Multiple(w, d, n), Multiple(w, e, m)
    PROVE  SizeIn(w, d, n) = SizeIn(w, e, m)
BY DEF IdOf, Multiple, SizeIn

\* Of those that share the bytes of a file one has them, after a walk without
\* errors.
LEMMA SharesHeld ==
    ASSUME NEW tr, SettledIn(tr), NEW l \in leaves
    PROVE  /\ ~Multiple(world, l.dir, l.name) => Shared(l) = {}
           /\ Multiple(world, l.dir, l.name) =>
                /\ l \in Shared(l) /\ Shared(l) = MetAs(world, leaves, l)
                /\ \E h \in Shared(l) : /\ ~h.link /\ h.bytes = SizeIn(world, l.dir, l.name)
                                        /\ \A x \in Shared(l) : x # h => x.bytes = 0
<1>1. /\ Walking /\ world \in Worlds /\ LeavesStand(world, node, leaves)
      /\ ChargedOnce(world, frame, leaves, counted) /\ \A o \in leaves : ~o.err
      /\ \A d \in Dirs : frame[d].plans = {}
  BY AllDone DEF SettledIn, Walking, WalkStands, SeesAll, AllSeen, Sound
<1>2. \A o \in leaves : /\ o.dir \in Dirs /\ o.name \in Names(world, o.dir)
                        /\ o.id = IdOf(world, o.dir, o.name) /\ o.bytes \in Nat
  BY <1>1 DEF LeavesStand
<1>3. Shared(l) = MetAs(world, leaves, l)
  BY <1>1, SharedAre DEF MetAs
<1>4. CASE ~Multiple(world, l.dir, l.name)
  <2>1. ASSUME NEW o \in MetAs(world, leaves, l)
        PROVE  FALSE
    <3>1. o \in leaves /\ o.id = l.id /\ Multiple(world, o.dir, o.name)
      BY DEF MetAs
    <3>2. IdOf(world, o.dir, o.name) = IdOf(world, l.dir, l.name)
      BY <1>2, <3>1
    <3>3. Multiple(world, l.dir, l.name)
      BY <1>1, <1>2, <3>1, <3>2, SameMultiple
    <3> QED
      BY <1>4, <3>3
  <2> QED
    BY <1>3, <1>4, <2>1
<1>5. CASE Multiple(world, l.dir, l.name)
  <2>1. l \in Shared(l)
    BY <1>3, <1>5 DEF MetAs
  <2>2. PICK d \in Dirs : \E n \in Names(world, d) :
            Holds(world, frame, leaves, d, n) /\ IdOf(world, d, n) = l.id
    BY <1>1, <1>5 DEF ChargedOnce
  <2>3. PICK n \in Names(world, d) : Holds(world, frame, leaves, d, n) /\ IdOf(world, d, n) = l.id
    BY <2>2
  <2>4. PICK h \in leaves : h.dir = d /\ h.name = n /\ ~h.link /\ Multiple(world, d, n)
    BY <1>1, <2>3 DEF Holds
  <2>5. h \in Shared(l) /\ h.id = l.id
    BY <1>2, <1>3, <2>3, <2>4 DEF MetAs
  <2>6. \A x \in Shared(l) : /\ x \in leaves /\ x.id = l.id /\ Multiple(world, x.dir, x.name)
                             /\ SizeIn(world, x.dir, x.name) = SizeIn(world, l.dir, l.name)
    <3> SUFFICES ASSUME NEW x \in Shared(l)
                 PROVE  /\ x \in leaves /\ x.id = l.id /\ Multiple(world, x.dir, x.name)
                        /\ SizeIn(world, x.dir, x.name) = SizeIn(world, l.dir, l.name)
      OBVIOUS
    <3>1. x \in leaves /\ x.id = l.id /\ Multiple(world, x.dir, x.name)
      BY <1>3 DEF MetAs
    <3>2. IdOf(world, x.dir, x.name) = IdOf(world, l.dir, l.name)
      BY <1>2, <3>1
    <3> QED
      BY <1>5, <3>1, <3>2, SameSize
  <2>7. \A x \in leaves : Charged(world, x.dir, x.name, x.bytes, x.link)
    BY <1>1 DEF ChargedOnce
  <2>8. h.bytes = SizeIn(world, l.dir, l.name)
    BY <2>4, <2>5, <2>6, <2>7 DEF Charged
  <2>9. ASSUME NEW x \in Shared(l), x # h, x.bytes # 0
        PROVE  FALSE
    <3>1. x \in leaves /\ x.bytes = SizeIn(world, l.dir, l.name) /\ x.bytes \in Nat
      BY <1>2, <2>6, <2>7, <2>9 DEF Charged
    <3>2. x.bytes > 0 /\ h.bytes > 0 /\ x.id = h.id /\ Multiple(world, x.dir, x.name)
      BY <2>5, <2>6, <2>8, <2>9, <3>1
    <3>3. CountedOnce(world, leaves)
      BY <1>1, WalkCountsOnce
    <3> QED
      BY <2>4, <2>9, <3>1, <3>2, <3>3 DEF CountedOnce
  <2> QED
    BY <1>3, <1>5, <2>1, <2>4, <2>5, <2>8, <2>9
<1> QED
  BY <1>4, <1>5

\* Of a set with fewer than two all are the same.
LEMMA OnlyOne ==
    ASSUME NEW S, IsFiniteSet(S), Cardinality(S) < 2, NEW a \in S, NEW b \in S
    PROVE  a = b
<1> SUFFICES ASSUME a # b PROVE FALSE
  OBVIOUS
<1>1. {a, b} \subseteq S
  OBVIOUS
<1>2. Cardinality({a, b}) = 2
  <2>1. Cardinality({a}) = 1 /\ IsFiniteSet({a})
    BY FS_Singleton
  <2>2. {a, b} = {a} \cup {b} /\ b \notin {a}
    OBVIOUS
  <2> QED
    BY <2>1, <2>2, FS_AddElement
<1>3. Cardinality({a, b}) <= Cardinality(S) /\ Cardinality(S) \in Nat
  BY <1>1, FS_Subset, FS_CardinalityType
<1> QED
  BY <1>2, <1>3

\* Once the owners are settled the smallest path of a file has its bytes, and
\* the others are links to it.
LEMMA SettledBytes ==
    ASSUME NEW tr, SettledIn(tr)
    PROVE  RightBytes(world, tr, Normalized(tr))
<1> DEFINE new == Normalized(tr)
<1>1. /\ Walking /\ world \in Worlds /\ TreeStands(world, tr) /\ OnlyPlaces(node, tr)
      /\ LeavesStand(world, node, leaves)
      /\ \A l \in leaves : Charged(world, l.dir, l.name, l.bytes, l.link)
  BY DEF SettledIn, Walking, WalkStands, SeesAll, AllSeen, ChargedOnce
<1>2. new = {Renewed(tr, l) : l \in leaves}
  BY <1>1, NormalizedIs
<1> HIDE DEF new
<1>3. \A l \in leaves : /\ Renewed(tr, l).dir = l.dir /\ Renewed(tr, l).name = l.name
                        /\ Renewed(tr, l).id = l.id
                        /\ LeafPath(tr, Renewed(tr, l)) = LeafPath(tr, l)
  BY <1>1, RenewedIs DEF LeafPath
<1>4. \A l \in leaves : LeafPath(tr, l) \in Seq(Int)
  <2> SUFFICES ASSUME NEW l \in leaves PROVE LeafPath(tr, l) \in Seq(Int)
    OBVIOUS
  <2>1. l.dir \in Dirs /\ l.name \in Names(world, l.dir)
    BY <1>1 DEF LeavesStand
  <2>2. l.name \in Int /\ PathIn(tr, l.dir) \in Seq(Int)
    BY <1>1, <2>1, TreePaths, ScanAssumption DEF Names
  <2> QED
    BY <2>2 DEF LeafPath
<1>5. ASSUME NEW l \in leaves
      PROVE  LET r == Renewed(tr, l)
                 later == First(tr, new, r, MetAs(world, new, r)) IN
             /\ r.bytes = IF later THEN 0 ELSE SizeIn(world, r.dir, r.name)
             /\ r.link = later
  <2> PICK r : r = Renewed(tr, l)
    OBVIOUS
  <2> PICK later \in BOOLEAN : later = First(tr, new, r, MetAs(world, new, r))
    BY DEF First
  <2>1. /\ r.dir = l.dir /\ r.name = l.name /\ r.id = l.id /\ LeafPath(tr, r) = LeafPath(tr, l)
        /\ r \in new
    BY <1>2, <1>3
  <2>2. \A o \in leaves : Renewed(tr, o) \in MetAs(world, new, r) <=> o \in MetAs(world, leaves, l)
    BY <1>2, <1>3, <2>1 DEF MetAs
  <2>3. later <=> /\ l \in MetAs(world, leaves, l)
                  /\ \E o \in MetAs(world, leaves, l) : PathLess(LeafPath(tr, o), LeafPath(tr, l))
    <3>1. r \in MetAs(world, new, r) <=> l \in MetAs(world, leaves, l)
      BY <2>2
    <3>2. \A q \in MetAs(world, new, r) : \E o \in leaves : q = Renewed(tr, o)
      BY <1>2 DEF MetAs
    <3>3. (\E q \in MetAs(world, new, r) : PathLess(LeafPath(tr, q), LeafPath(tr, r)))
            <=> \E o \in MetAs(world, leaves, l) : PathLess(LeafPath(tr, o), LeafPath(tr, l))
      <4>1. MetAs(world, leaves, l) \subseteq leaves
        BY DEF MetAs
      <4> QED
        BY <1>3, <2>1, <2>2, <3>2, <4>1
    <3> QED
      BY <3>1, <3>3 DEF First
  <2>4. IF Cardinality(Shared(l)) < 2 \/ l \notin Shared(l) THEN r = l
        ELSE /\ Owner(tr, l) \in Shared(l)
             /\ r.bytes = IF Owner(tr, l) = l THEN BytesOf(Shared(l)) ELSE 0
             /\ r.link = (Owner(tr, l) # l)
             /\ BytesOf(Shared(l)) \in Nat
             /\ \A o \in Shared(l) : o.bytes <= BytesOf(Shared(l))
    <3>1. l = LeafRecord(l)
      BY <1>1 DEF LeavesStand
    <3>2. ~(Cardinality(Shared(l)) < 2 \/ l \notin Shared(l)) => r.link = (Owner(tr, l) # l)
      BY <3>1 DEF Renewed, LeafRecord
    <3> QED
      BY <1>1, <3>2, RenewedIs
  <2>5. IsFiniteSet(Shared(l))
    BY <1>1, SharedAre
  <2>6. CASE ~Multiple(world, l.dir, l.name)
    <3>1. Shared(l) = {} /\ r = l
      BY <2>4, <2>6, SharesHeld
    <3>2. ~l.link /\ l.bytes = SizeIn(world, l.dir, l.name) /\ l.link = FALSE
      BY <1>1, <2>6 DEF Charged
    <3>3. later = FALSE
      BY <2>3, <2>6 DEF MetAs
    <3> QED
      BY <3>1, <3>2, <3>3
  <2>7. CASE Multiple(world, l.dir, l.name)
    <3> PICK S : S = Shared(l)
      OBVIOUS
    <3>1. l \in S /\ S = MetAs(world, leaves, l) /\ S \subseteq leaves
      BY <2>7, SharesHeld DEF MetAs
    <3>2. PICK h \in S : /\ ~h.link /\ h.bytes = SizeIn(world, l.dir, l.name)
                         /\ \A x \in S : x # h => x.bytes = 0
      BY <2>7, SharesHeld
    <3>3. CASE Cardinality(S) < 2
      <4>1. \A x \in S : x = l
        BY <2>5, <3>1, <3>3, OnlyOne
      <4>2. r = l /\ h = l /\ l.link = FALSE /\ l.bytes = SizeIn(world, l.dir, l.name)
        BY <1>1, <2>4, <3>1, <3>2, <3>3, <4>1 DEF Charged
      <4>3. later = FALSE
        BY <1>4, <2>3, <3>1, <4>1, LessIsStrict
      <4> QED
        BY <4>2, <4>3
    <3>4. CASE ~(Cardinality(S) < 2)
      <4> PICK ow : ow = Owner(tr, l)
        OBVIOUS
      <4>1. /\ ow \in S /\ r.bytes = (IF ow = l THEN BytesOf(S) ELSE 0) /\ r.link = (ow # l)
            /\ BytesOf(S) \in Nat /\ h.bytes <= BytesOf(S)
        BY <2>4, <3>1, <3>2, <3>4
      <4>2. \A x \in S : x = ow \/ PathLess(LeafPath(tr, ow), LeafPath(tr, x))
        BY <1>1, <3>1, OwnerIsOne
      <4>3. BytesOf(S) = SizeIn(world, l.dir, l.name)
        <5>1. \A x \in S : x.bytes \in Nat
          BY <1>1, <3>1 DEF LeavesStand
        <5>2. BytesOf(S) <= h.bytes
          BY <2>5, <3>2, <5>1, BytesOfOne
        <5> QED
          BY <3>2, <4>1, <5>1, <5>2
      <4>4. CASE ow = l
        <5>1. ASSUME NEW o \in S, PathLess(LeafPath(tr, o), LeafPath(tr, l))
              PROVE  FALSE
          <6>1. PathLess(LeafPath(tr, l), LeafPath(tr, l))
            <7>1. CASE o = l
              BY <5>1, <7>1
            <7>2. CASE PathLess(LeafPath(tr, l), LeafPath(tr, o))
              BY <1>4, <3>1, <5>1, <7>2, LessThrough
            <7> QED
              BY <4>2, <4>4, <7>1, <7>2
          <6> QED
            BY <1>4, <6>1, LessIsStrict
        <5>2. later = FALSE
          BY <2>3, <3>1, <5>1
        <5>3. r.link = FALSE
          BY <4>1, <4>4
        <5> QED
          BY <2>1, <4>1, <4>3, <4>4, <5>2, <5>3
      <4>5. CASE ow # l
        <5>1. PathLess(LeafPath(tr, ow), LeafPath(tr, l))
          BY <3>1, <4>2, <4>5
        <5>2. later = TRUE
          BY <2>3, <3>1, <4>1, <5>1
        <5>3. r.link = TRUE
          BY <4>1, <4>5
        <5> QED
          BY <4>1, <4>5, <5>2, <5>3
      <4> QED
        BY <4>4, <4>5
    <3> QED
      BY <3>3, <3>4
  <2> QED
    BY <2>6, <2>7
<1> QED
  BY <1>2, <1>5 DEF RightBytes, new

-----------------------------------------------------------------------------
(***************************************************************************)
(* What settling makes of the tree, and the scan returns                   *)
(***************************************************************************)

\* The settling takes a walk without errors to the one right tree.
LEMMA SettlesRight ==
    ASSUME Walking, SeesAll, Reached(world, frame, node, claimed, edges), Settle,
           Unambiguous(world)
    PROVE  RightTree(world, frame, node', leaves', tally')
<1>1. PICK tr : /\ TreeStands(world, tr) /\ OnlyPlaces(node, tr)
                /\ leaves' = Normalized(tr) /\ tally' = tally
                /\ SamePlace(tr, node')
                /\ \A d \in Dirs : PathIn(node', d) = PathIn(tr, d)
                /\ IF world.follow THEN PlacedByEdges(world, tr) ELSE tr = node
                /\ \A e \in edges : /\ tr[e.to].live
                                    /\ ~PathLess(Appended(PathIn(tr, e.from), e.name),
                                                 PathIn(tr, e.to))
  BY SettledAs
<1>2. frame[world.root].pc = "done"
  BY DEF Settle, Root
<1>3. SettledIn(tr)
  BY <1>1, <1>2 DEF SettledIn
<1> PICK now : now = node'
  OBVIOUS
<1> PICK ls : ls = leaves'
  OBVIOUS
<1>4. /\ world.root \in Dirs
      /\ \A d \in Dirs : \A n \in Names(world, d) :
            Enters(world, d, n) => Goal(world, d, n) \in Dirs
  BY ScanAssumption DEF Walking, Enters
<1>5. /\ \A d \in Dirs : /\ now[d].live = tr[d].live /\ now[d].parent = tr[d].parent
                         /\ now[d].name = tr[d].name /\ PathIn(now, d) = PathIn(tr, d)
  BY <1>1 DEF SamePlace
<1>6. \A d \in Dirs : \A n : Belongs(world, frame, now, d, n) <=> Belongs(world, frame, tr, d, n)
  BY <1>5 DEF Belongs
<1>7. RightDirs(world, frame, now)
  <2>1. RightDirs(world, frame, tr)
    BY <1>3, SettledDirs
  <2>2. now[world.root].live
    BY <1>4, <1>5, <2>1 DEF RightDirs
  <2>3. ASSUME NEW p \in Dirs, now[p].live, NEW n, Belongs(world, frame, now, p, n),
               Enters(world, p, n)
        PROVE  /\ now[Goal(world, p, n)].live
               /\ Goal(world, p, n) # world.root =>
                     ~PathLess(Appended(PathIn(now, p), n), PathIn(now, Goal(world, p, n)))
    <3>1. tr[p].live /\ Belongs(world, frame, tr, p, n) /\ Goal(world, p, n) \in Dirs
      BY <1>5, <1>6, <2>3 DEF Enters
    <3>2. /\ tr[Goal(world, p, n)].live
          /\ Goal(world, p, n) # world.root =>
                ~PathLess(Appended(PathIn(tr, p), n), PathIn(tr, Goal(world, p, n)))
      BY <2>1, <2>3, <3>1 DEF RightDirs
    <3>3. /\ PathIn(now, p) = PathIn(tr, p)
          /\ PathIn(now, Goal(world, p, n)) = PathIn(tr, Goal(world, p, n))
      BY <1>5, <3>1
    <3> QED
      BY <1>5, <3>1, <3>2, <3>3
  <2>4. ASSUME NEW d \in Dirs, now[d].live, d # world.root
        PROVE  /\ now[d].parent \in Dirs /\ now[now[d].parent].live
               /\ Belongs(world, frame, now, now[d].parent, now[d].name)
               /\ Enters(world, now[d].parent, now[d].name)
               /\ Goal(world, now[d].parent, now[d].name) = d
    <3>1. tr[d].live /\ now[d].parent = tr[d].parent /\ now[d].name = tr[d].name
      BY <1>5, <2>4
    <3>2. /\ tr[d].parent \in Dirs /\ tr[tr[d].parent].live
          /\ Belongs(world, frame, tr, tr[d].parent, tr[d].name)
          /\ Enters(world, tr[d].parent, tr[d].name) /\ Goal(world, tr[d].parent, tr[d].name) = d
      BY <2>1, <2>4, <3>1 DEF RightDirs
    <3> QED
      BY <1>5, <1>6, <3>1, <3>2
  <2> QED
    BY <2>2, <2>3, <2>4 DEF RightDirs
<1>8. /\ ls = {Renewed(tr, l) : l \in leaves} /\ LeavesStand(world, tr, ls)
      /\ \A l, o \in leaves : Renewed(tr, l) = Renewed(tr, o) => l = o
  BY <1>1, NormalizedIs
<1>9. \A l \in leaves : Renewed(tr, l).dir = l.dir /\ Renewed(tr, l).name = l.name
  BY <1>1, RenewedIs
<1>10. RightNames(world, frame, now, ls)
  <2>1. RightNames(world, frame, tr, leaves)
    BY <1>3, SettledNames
  <2>2. ASSUME NEW r \in ls
        PROVE  /\ r.dir \in Dirs /\ now[r.dir].live
               /\ Belongs(world, frame, now, r.dir, r.name) /\ ~Enters(world, r.dir, r.name)
    <3>1. PICK l \in leaves : r = Renewed(tr, l)
      BY <1>8
    <3>2. r.dir = l.dir /\ r.name = l.name
      BY <1>9, <3>1
    <3>3. /\ l.dir \in Dirs /\ tr[l.dir].live
          /\ Belongs(world, frame, tr, l.dir, l.name) /\ ~Enters(world, l.dir, l.name)
      BY <2>1 DEF RightNames
    <3> QED
      BY <1>5, <1>6, <3>2, <3>3
  <2>3. ASSUME NEW d \in Dirs, now[d].live, NEW n, Belongs(world, frame, now, d, n),
               ~Enters(world, d, n)
        PROVE  \E r \in ls : r.dir = d /\ r.name = n
    <3>1. PICK l \in leaves : l.dir = d /\ l.name = n
      BY <1>5, <1>6, <2>1, <2>3 DEF RightNames
    <3>2. Renewed(tr, l) \in ls
      BY <1>8
    <3> QED
      BY <1>9, <3>1, <3>2
  <2> QED
    BY <2>2, <2>3 DEF RightNames
<1>11. RightBytes(world, now, ls)
  <2>1. RightBytes(world, tr, ls)
    BY <1>1, <1>3, SettledBytes
  <2>2. \A l \in ls : LeafPath(now, l) = LeafPath(tr, l)
    BY <1>5, <1>8 DEF LeavesStand, LeafPath
  <2>3. \A l \in ls : First(now, ls, l, MetAs(world, ls, l))
                        <=> First(tr, ls, l, MetAs(world, ls, l))
    <3>1. \A l \in ls : \A o \in MetAs(world, ls, l) : o \in ls
      BY DEF MetAs
    <3> QED
      BY <2>2, <3>1 DEF First
  <2>4. ASSUME NEW l \in ls
        PROVE  /\ l.bytes = IF First(now, ls, l, MetAs(world, ls, l)) THEN 0
                            ELSE SizeIn(world, l.dir, l.name)
               /\ l.link = First(now, ls, l, MetAs(world, ls, l))
    <3>1. First(now, ls, l, MetAs(world, ls, l)) = First(tr, ls, l, MetAs(world, ls, l))
      <4>1. /\ First(now, ls, l, MetAs(world, ls, l)) \in BOOLEAN
            /\ First(tr, ls, l, MetAs(world, ls, l)) \in BOOLEAN
        BY DEF First
      <4> QED
        BY <2>3, <4>1
    <3>2. /\ l.bytes = IF First(tr, ls, l, MetAs(world, ls, l)) THEN 0
                       ELSE SizeIn(world, l.dir, l.name)
          /\ l.link = First(tr, ls, l, MetAs(world, ls, l))
      BY <2>1 DEF RightBytes
    <3> QED
      BY <3>1, <3>2
  <2> QED
    BY <2>4 DEF RightBytes
<1>12. RightCounts(now, ls, tally)
  <2>1. RightCounts(tr, leaves, tally)
    BY <1>3, SettledCounts
  <2>2. Cardinality(ls) = Cardinality(leaves)
    <3> DEFINE g == [l \in leaves |-> Renewed(tr, l)]
    <3>1. IsFiniteSet(leaves)
      BY DEF Walking, WalkStands, LeavesStand
    <3>2. g \in Surjection(leaves, ls)
      BY <1>8 DEF Surjection
    <3>3. g \in Injection(leaves, ls)
      <4>1. \A l, o \in leaves : g[l] = g[o] => l = o
        BY <1>8
      <4> QED
        BY <1>8, <4>1 DEF Injection, IsInjective
    <3> HIDE DEF g
    <3> QED
      BY <3>1, <3>2, <3>3, FS_Surjection
  <2>3. {d \in Dirs : now[d].live} = {d \in Dirs : tr[d].live}
    BY <1>5
  <2> QED
    BY <2>1, <2>2, <2>3 DEF RightCounts
<1> QED
  BY <1>1, <1>7, <1>10, <1>11, <1>12 DEF RightTree

\* What a scan keeps of this: as long as nothing fails nothing is missed, and
\* then the tree is right.
TreeKept ==
    /\ phase = "walk" /\ Clean => SeesAll
    /\ phase \in {"final", "drain", "returned"} /\ Clean /\ Unambiguous(world) =>
          RightTree(world, frame, node, leaves, tally)

\* Every step of a scan keeps it.
LEMMA TreeGoesOn ==
    ASSUME ScanKeeps, OwnersKept, TreeKept, [ScanNext]_scanVars
    PROVE  TreeKept'
<1>1. CASE Start
  <2>1. /\ phase = "start" /\ AtStart /\ world \in Worlds /\ world.root \in Dirs
        /\ UNCHANGED <<world, leaves, edges, counted, tally>>
    BY <1>1, ScanAssumption DEF Start, ScanKeeps, AtStart
  <2>2. CASE phase' = "refused"
    BY <2>1, <2>2 DEF TreeKept
  <2>3. CASE /\ phase' = "walk"
             /\ frame' = [frame EXCEPT ![Root].pc = "begin",
                                       ![Root].fstype = FSOf(world.mounts, world.home[Root])]
             /\ node' = [node EXCEPT ![Root].live = TRUE]
    <3> PICK to : to = frame'
      OBVIOUS
    <3> PICK now : now = node'
      OBVIOUS
    <3> PICK fstype : fstype = FSOf(world.mounts, world.home[Root])
      OBVIOUS
    <3>1. frame = [d \in Dirs |-> NoFrame] /\ node = [d \in Dirs |-> NoNode]
      BY <2>1 DEF AtStart
    <3>2. to = [d \in Dirs |-> IF d = world.root
                   THEN [NoFrame EXCEPT !.pc = "begin", !.fstype = fstype] ELSE NoFrame]
      <4>1. to = [frame EXCEPT ![world.root].pc = "begin", ![world.root].fstype = fstype]
        BY <2>3 DEF Root
      <4> QED
        BY ONLY <2>1, <3>1, <4>1
    <3>3. now = [d \in Dirs |-> IF d = world.root THEN [NoNode EXCEPT !.live = TRUE] ELSE NoNode]
      BY <2>1, <2>3, <3>1 DEF Root
    <3>4. RootEnters(world, to, now)
      BY ONLY <3>2, <3>3 DEF RootEnters
    <3>5. /\ leaves' = {} /\ edges' = {} /\ counted' = {}
          /\ tally' = [files |-> 0, dirs |-> 0, errors |-> 0]
      BY <2>1 DEF AtStart
    <3>6. AllSeen(world, to, now, {}, {}, {}, tally')
      BY <2>1, <3>4, <3>5, SeesBegin
    <3> QED
      BY <2>1, <2>3, <3>5, <3>6 DEF TreeKept, SeesAll
  <2> QED
    BY <1>1, <2>2, <2>3 DEF Start
<1>2. ASSUME NEW d \in Dirs, ScanDir(d)
      PROVE  TreeKept'
  <2>1. world.maxFaults \in Nat /\ faults \in 0..world.maxFaults /\ world \in Worlds
    BY ScanAssumption DEF ScanKeeps
  <2>2. Active(frame[d]) /\ UNCHANGED <<world, phase, cancelled>>
    BY <1>2, <2>1, DirMoves
  <2>3. phase = "walk"
    <3>1. CASE phase \in {"start", "refused"}
      <4>1. frame[d] = NoFrame
        BY <3>1 DEF ScanKeeps, AtStart
      <4> QED
        BY <2>2, <4>1 DEF Active, NoFrame
    <3>2. CASE phase \in {"final", "drain", "returned"}
      BY <2>2, <3>2 DEF ScanKeeps, Rested
    <3> QED
      BY <3>1, <3>2 DEF ScanKeeps
  <2>4. Walking
    BY <2>3 DEF ScanKeeps
  <2>5. ASSUME Clean'
        PROVE  SeesAll'
    <3>1. WalksOn
      BY <1>2, <2>4, DirWalksOn
    <3>2. tally.errors \in Nat /\ tally'.errors >= tally.errors
      BY <2>4, <3>1 DEF Walking, WalksOn, NoneLost, TallyStands
    <3>3. Clean
      BY <2>2, <2>5, <3>2 DEF Clean
    <3>4. SeesAll
      BY <2>3, <3>3 DEF TreeKept
    <3>5. AllSeen(world, frame', node', leaves', edges', counted', tally')
      BY <1>2, <2>4, <2>5, <3>4, DirSees
    <3> QED
      BY <2>2, <3>5 DEF SeesAll
  <2> QED
    BY <2>2, <2>3, <2>5 DEF TreeKept
<1>3. CASE Settle
  <2>1. phase = "walk" /\ phase' = "final" /\ UNCHANGED <<world, frame, cancelled>>
    BY <1>3 DEF Settle
  <2>2. Walking /\ Reached(world, frame, node, claimed, edges)
    BY <2>1 DEF ScanKeeps, OwnersKept
  <2>3. ASSUME Clean', Unambiguous(world)
        PROVE  RightTree(world, frame, node', leaves', tally')
    <3>1. tally' = tally
      BY <1>3, <2>2, SettledAs
    <3>2. SeesAll
      BY <2>1, <2>3, <3>1 DEF Clean, TreeKept
    <3> QED
      BY <1>3, <2>2, <2>3, <3>2, SettlesRight
  <2>4. Unambiguous(world)' => Unambiguous(world)
    BY <2>1
  <2>5. ASSUME Clean', Unambiguous(world)'
        PROVE  RightTree(world, frame, node, leaves, tally)'
    BY <2>1, <2>3, <2>4, <2>5
  <2> QED
    BY <2>1, <2>5 DEF TreeKept
<1>4. CASE EmitFinal \/ Return
  <2>1. /\ UNCHANGED <<world, cancelled, frame, node, leaves, tally>>
        /\ phase \in {"final", "drain"} /\ phase' \in {"drain", "returned"}
    BY <1>4 DEF EmitFinal, Return
  <2>2. (Clean' <=> Clean) /\ (Unambiguous(world)' <=> Unambiguous(world))
    BY <2>1 DEF Clean
  <2>3. RightTree(world, frame, node, leaves, tally)
            => RightTree(world, frame, node, leaves, tally)'
    BY <2>1
  <2> QED
    BY <2>1, <2>2, <2>3 DEF TreeKept
<1>5. CASE CancelScan
  <2>1. cancelled' = TRUE
    BY <1>5 DEF CancelScan
  <2> QED
    BY <2>1 DEF TreeKept, Clean
<1>6. CASE Deliver \/ UNCHANGED scanVars
  <2>1. UNCHANGED <<world, phase, cancelled, frame, node, leaves, edges, counted, tally>>
    BY <1>6 DEF Deliver, scanVars
  <2>2. (Clean' <=> Clean) /\ (Unambiguous(world)' <=> Unambiguous(world))
    BY <2>1 DEF Clean
  <2>3. /\ SeesAll => SeesAll'
        /\ RightTree(world, frame, node, leaves, tally)
              => RightTree(world, frame, node, leaves, tally)'
    BY <2>1 DEF SeesAll
  <2> QED
    BY <2>1, <2>2, <2>3 DEF TreeKept
<1> QED
  BY <1>1, <1>2, <1>3, <1>4, <1>5, <1>6 DEF ScanNext, ScanStep

\* It holds before there is a scan.
LEMMA TreeBegins == Init => TreeKept
BY DEF Init, ScanInit, ScanIdles, TreeKept

-----------------------------------------------------------------------------
(***************************************************************************)
(* What a complete scan returns                                            *)
(***************************************************************************)

\* What the property calls admitted at a directory of the tree belongs there.
LEMMA AdmittedBelong ==
    ASSUME NEW d \in Dirs
    PROVE  /\ \A n : n \in Admitted(d) <=> Belongs(world, frame, node, d, n)
           /\ \A n : n \in Entered(d) <=> Belongs(world, frame, node, d, n) /\ Enters(world, d, n)
<1>1. ASSUME NEW n \in Names(world, d)
      PROVE  n \in Admitted(d) <=> Belongs(world, frame, node, d, n)
  <2> PICK path : path = PathIn(node, d)
    OBVIOUS
  <2>1. /\ SizeOf(d, n) = SizeIn(world, d, n) /\ Physical(d, n) = PhysicalIn(world, d, n)
        /\ TargetAllowed(d, n, Append(path, n)) <=> Reachable(world, d, n, path, frame[d].fstype)
    BY EntryPasses
  <2>2. ReachesDir(d, n) <=> Enters(world, d, n)
    BY DEF ReachesDir, Enters, Target, Goal, Follow, IsAlias
  <2>3. n \in Admitted(d) <=>
           /\ AllowsEntry(world.policy, Append(path, n), Physical(d, n))
           /\ TargetAllowed(d, n, Append(path, n))
           /\ ReachesDir(d, n) \/ AllowsFile(world.policy, SizeOf(d, n))
    BY DEF Admitted, Names
  <2>4. Belongs(world, frame, node, d, n) <=>
           /\ AllowsEntry(world.policy, Append(path, n), PhysicalIn(world, d, n))
           /\ Reachable(world, d, n, path, frame[d].fstype)
           /\ Enters(world, d, n) \/ AllowsFile(world.policy, SizeIn(world, d, n))
    BY DEF Belongs, Passes, Listed, Appended
  <2> QED
    BY ONLY <2>1, <2>2, <2>3, <2>4
<1>2. \A n : n \in Admitted(d) => n \in Names(world, d)
  BY DEF Admitted, Names
<1>3. \A n : Belongs(world, frame, node, d, n) => n \in Names(world, d)
  BY DEF Belongs
<1>4. \A n : n \in Admitted(d) <=> Belongs(world, frame, node, d, n)
  BY <1>1, <1>2, <1>3
<1>5. \A n : ReachesDir(d, n) <=> Enters(world, d, n)
  BY DEF ReachesDir, Enters, Target, Goal, Follow, IsAlias
<1> QED
  BY <1>4, <1>5 DEF Entered

\* In the right tree the directories are as the property has them.
LEMMA TreeHasDirectories ==
    ASSUME world \in Worlds, RightDirs(world, frame, node)
    PROVE  DirectoriesAreRight
<1>1. world.root \in Dirs
  BY ScanAssumption
<1>2. Root \in Live
  BY <1>1 DEF RightDirs, Root, Live
<1>3. ASSUME NEW p \in Live, NEW n \in Entered(p)
      PROVE  /\ Target(p, n) \in Live
             /\ Target(p, n) # Root =>
                   ~PathLess(Append(PathIn(node, p), n), PathIn(node, Target(p, n)))
  <2>1. p \in Dirs /\ node[p].live
    BY DEF Live
  <2>2. Belongs(world, frame, node, p, n) /\ Enters(world, p, n)
    BY <2>1, AdmittedBelong
  <2>3. Target(p, n) = Goal(world, p, n) /\ Goal(world, p, n) \in Dirs
    BY <2>2 DEF Target, Goal, Enters
  <2>4. /\ node[Goal(world, p, n)].live
        /\ Goal(world, p, n) # world.root =>
              ~PathLess(Append(PathIn(node, p), n), PathIn(node, Goal(world, p, n)))
    BY <2>1, <2>2 DEF RightDirs, Appended
  <2> QED
    BY <2>3, <2>4 DEF Live, Root
<1>4. ASSUME NEW d \in Live \ {Root}
      PROVE  /\ node[d].parent \in Live
             /\ node[d].name \in Entered(node[d].parent)
             /\ Target(node[d].parent, node[d].name) = d
  <2>1. /\ node[d].parent \in Dirs /\ node[node[d].parent].live
        /\ Belongs(world, frame, node, node[d].parent, node[d].name)
        /\ Enters(world, node[d].parent, node[d].name)
        /\ Goal(world, node[d].parent, node[d].name) = d
    BY DEF RightDirs, Live, Root
  <2> QED
    BY <2>1, AdmittedBelong DEF Live, Target, Goal
<1> QED
  BY <1>2, <1>3, <1>4 DEF DirectoriesAreRight

\* So are the files.
LEMMA TreeHasFiles ==
    ASSUME world \in Worlds, RightNames(world, frame, node, leaves), RightBytes(world, node, leaves)
    PROVE  FilesAreRight
<1> DEFINE spots == {<<l.dir, l.name>> : l \in leaves}
           due == UNION {{<<d, n>> : n \in Admitted(d) \ Entered(d)} : d \in Live}
<1>1. \A d \in Dirs : \A n : n \in Admitted(d) \ Entered(d)
         <=> Belongs(world, frame, node, d, n) /\ ~Enters(world, d, n)
  BY AdmittedBelong
<1>2. ASSUME NEW l \in leaves
      PROVE  <<l.dir, l.name>> \in due
  <2>1. /\ l.dir \in Dirs /\ node[l.dir].live
        /\ Belongs(world, frame, node, l.dir, l.name) /\ ~Enters(world, l.dir, l.name)
    BY DEF RightNames
  <2>2. l.dir \in Live /\ l.name \in Admitted(l.dir) \ Entered(l.dir)
    BY <1>1, <2>1 DEF Live
  <2> QED
    BY <2>2
<1>3. ASSUME NEW d \in Live, NEW n \in Admitted(d) \ Entered(d)
      PROVE  <<d, n>> \in spots
  <2>1. d \in Dirs /\ node[d].live
    BY DEF Live
  <2>2. \E l \in leaves : l.dir = d /\ l.name = n
    BY <1>1, <2>1 DEF RightNames
  <2> QED
    BY <2>2
<1>4. spots = due
  BY <1>2, <1>3
<1>5. ASSUME NEW l \in leaves
      PROVE  LET met == {o \in leaves : o.id = l.id /\ Deduplicated(o.dir, o.name)}
                 smallest == \A o \in met : ~PathLess(LeafPath(node, o), LeafPath(node, l))
             IN /\ l.bytes = IF l \in met /\ ~smallest THEN 0 ELSE SizeOf(l.dir, l.name)
                /\ l.link = (l \in met /\ ~smallest)
  <2> PICK met : met = {o \in leaves : o.id = l.id /\ Deduplicated(o.dir, o.name)}
    OBVIOUS
  <2> DEFINE smallest == \A o \in met : ~PathLess(LeafPath(node, o), LeafPath(node, l))
  <2>1. met = MetAs(world, leaves, l)
    BY DEF MetAs, Deduplicated, Multiple, Follow, IsAlias, Target, Goal
  <2>2. First(node, leaves, l, met) = (l \in met /\ ~smallest)
    BY DEF First
  <2>3. /\ l.bytes = IF First(node, leaves, l, met) THEN 0 ELSE SizeIn(world, l.dir, l.name)
        /\ l.link = First(node, leaves, l, met)
    BY <2>1 DEF RightBytes
  <2>4. SizeOf(l.dir, l.name) = SizeIn(world, l.dir, l.name)
    BY DEF SizeOf, SizeIn, IsAlias, Follow, Target, Goal
  <2> QED
    BY <2>2, <2>3, <2>4
<1> QED
  BY <1>4, <1>5 DEF FilesAreRight

\* So the property holds where the path rules are unambiguous.
LEMMA KeepsTree ==
    ScanKeeps /\ OwnersKept /\ TreeKept => (Unambiguous(world) => FinalTree)
<1> SUFFICES ASSUME ScanKeeps, OwnersKept, TreeKept, Unambiguous(world) PROVE FinalTree
  OBVIOUS
<1>1. OwnersAreFirst
  BY KeepsOwners
<1>2. ASSUME Complete
      PROVE  /\ DirectoriesAreRight /\ FilesAreRight /\ TotalsAreRight(leaves)
             /\ tally.files = Cardinality(leaves) /\ tally.dirs = Cardinality(Live)
  <2>1. phase = "returned" /\ Clean /\ world \in Worlds
    BY <1>2 DEF Complete, Clean, ScanKeeps
  <2>2. RightTree(world, frame, node, leaves, tally)
    BY <2>1 DEF TreeKept
  <2>3. TotalsAreRight(leaves)
    BY <2>1, AgreeTotals DEF ScanKeeps, Rested
  <2> QED
    BY <2>1, <2>2, <2>3, TreeHasDirectories, TreeHasFiles DEF RightTree, RightCounts, Live
<1> QED
  BY <1>1, <1>2 DEF FinalTree

\* Whatever the scheduling of the goroutines and the order in which the system
\* lists a directory: a scan that is complete, of a file system on which the
\* rules say the same of an entry on whatever path aliases lead to it, returns
\* the one right tree.  Without aliases followed every file system is so.
THEOREM TreeIsRight == Spec => [](Unambiguous(world) => FinalTree)
<1>1. Init => ScanKeeps /\ OwnersKept /\ TreeKept
  BY ScanBegins, OwnersBegin, TreeBegins
<1>2. ScanKeeps /\ OwnersKept /\ TreeKept /\ [Next \/ Rests]_vars
        => (ScanKeeps /\ OwnersKept /\ TreeKept)'
  BY ScanMovesAlone, ScanGoesOn, OwnersGoOn, TreeGoesOn
<1> QED
  BY <1>1, <1>2, KeepsTree, PTL DEF Spec

\* Neither do rules that leave paths and types of file system alone make it
\* otherwise: those that look at names, devices and sizes only.
LEMMA NamesAreUnambiguous ==
    ASSUME NEW w \in Worlds, w.policy.virtual = {}, w.policy.exclude = {}, w.policy.include = {},
           w.policy.includeFS = {}, w.policy.excludeFS = {},
           \A g \in w.policy.globs : g \in Seq(Int) /\ Len(g) = 1
    PROVE  Unambiguous(w)
<1> SUFFICES ASSUME w.follow PROVE Unambiguous(w)
  BY DEF Unambiguous
<1> DEFINE W == Dirs \X Seq(Int)
<1>1. w.root \in Dirs
  BY ScanAssumption
<1>2. /\ \A path, physical : AllowsPath(w.policy, path, physical)
      /\ \A fstype : AllowsFilesystem(w.policy, fstype)
  BY DEF AllowsPath, RejectsPath, IsVirtual, ExcludedPath, IncludedPath, AllowsFilesystem
<1>3. ASSUME NEW d \in Dirs, NEW p \in Seq(Int), NEW q \in Seq(Int), NEW n \in Names(w, d),
             Listed(w, d, n, p)
      PROVE  Listed(w, d, n, q)
  <2>1. n \in Int
    BY ScanAssumption DEF Names
  <2>2. Last(Append(p, n)) = n /\ Last(Append(q, n)) = n
    BY <2>1 DEF Last
  <2>3. ASSUME NEW g \in w.policy.globs, g # <<n>>
        PROVE  g # Append(q, n)
    <3> SUFFICES ASSUME g = Append(q, n) PROVE FALSE
      OBVIOUS
    <3>1. Len(q) = 0
      <4>1. Len(Append(q, n)) = Len(q) + 1 /\ Len(q) \in Nat
        BY <2>1
      <4>2. Len(g) = 1
        OBVIOUS
      <4>3. Len(q) + 1 = 1
        BY ONLY <4>1, <4>2, g = Append(q, n)
      <4> QED
        BY ONLY <4>1, <4>3
    <3>2. Append(q, n) = <<n>>
      BY <2>1, <3>1
    <3> QED
      BY <2>3, <3>2
  <2> QED
    BY <1>2, <1>3, <2>2, <2>3 DEF Listed, AllowsEntry, Appended
<1>4. ASSUME NEW d \in Dirs, NEW p, NEW q, NEW n, NEW fstype, Reachable(w, d, n, p, fstype)
      PROVE  Reachable(w, d, n, q, fstype)
  BY <1>2, <1>4 DEF Reachable, AllowsTarget
<1>5. ASSUME NEW d \in Dirs, NEW p \in Seq(Int), NEW n \in Names(w, d), Enters(w, d, n)
      PROVE  <<Goal(w, d, n), Appended(p, n)>> \in W
  <2>1. n \in Int
    BY ScanAssumption DEF Names
  <2>2. Goal(w, d, n) \in Dirs /\ Appended(p, n) \in Seq(Int)
    BY <1>5, <2>1 DEF Enters, Appended
  <2> QED
    BY <2>2
<1> QED
  <2>1. W \in SUBSET (Dirs \X Seq(Int)) /\ <<w.root, <<>>>> \in W
    <3>1. <<>> \in Seq(Int)
      OBVIOUS
    <3> QED
      BY <1>1, <3>1
  <2>2. \A d \in Dirs : \A p \in Seq(Int) : <<d, p>> \in W =>
            \A n \in Names(w, d) : Enters(w, d, n) /\ Listed(w, d, n, p) =>
                <<Goal(w, d, n), Appended(p, n)>> \in W
    BY <1>5
  <2>3. \A d \in Dirs : \A p, q \in Seq(Int) : <<d, p>> \in W /\ <<d, q>> \in W =>
            \A n \in Names(w, d) :
                /\ Listed(w, d, n, p) <=> Listed(w, d, n, q)
                /\ \A fstype : Reachable(w, d, n, p, fstype) <=> Reachable(w, d, n, q, fstype)
    BY <1>3, <1>4
  <2> HIDE DEF W
  <2> QED
    BY <2>1, <2>2, <2>3 DEF Unambiguous

=============================================================================
