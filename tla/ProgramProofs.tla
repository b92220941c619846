--------------------------- MODULE ProgramProofs ---------------------------
(***************************************************************************)
(* What the program keeps, whatever the command and for every value of the *)
(* constants.  Each part of the program moves as it is specified alone, so *)
(* that what is proved of a part is proved of the program.                 *)
(*                                                                         *)
(* The installed skill files come first, then the concurrent scan, and the *)
(* program.  A scan is treated as a walk given by its frames, its tree and *)
(* what else it has found (WalkStands), so that the lemmas are about       *)
(* values and each kind of step is looked at once.                         *)
(***************************************************************************)
EXTENDS Program, SessionIndexProofs

-----------------------------------------------------------------------------
(***************************************************************************)
(* The installed skill files                                               *)
(***************************************************************************)

\* The numbers from 1 to n are n.
LEMMA UpToN ==
    ASSUME NEW n \in Nat
    PROVE  IsFiniteSet(1..n) /\ Cardinality(1..n) = n
<1>1. IsFiniteSet(1..n) /\ Cardinality(1..n) = IF 1 > n THEN 0 ELSE n - 1 + 1
  BY FS_Interval
<1> QED
  BY <1>1

\* A request is for one to six files.
LEMMA PairsAre ==
    ASSUME NEW r \in Requests
    PROVE  IsFiniteSet(Pairs(r)) /\ Cardinality(Pairs(r)) \in 1..6
<1>1. Pairs(r) \subseteq (1..2) \X (1..3)
  BY DEF Pairs, Targets, Profiles
<1>2. IsFiniteSet((1..2) \X (1..3)) /\ Cardinality((1..2) \X (1..3)) = 6
  <2>1. \A n \in Nat : IsFiniteSet(1..n) /\ Cardinality(1..n) = n
    BY UpToN
  <2>2. IsFiniteSet(1..2) /\ Cardinality(1..2) = 2 /\ IsFiniteSet(1..3) /\ Cardinality(1..3) = 3
    BY <2>1
  <2>3. IsFiniteSet((1..2) \X (1..3))
        /\ Cardinality((1..2) \X (1..3)) = Cardinality(1..2) * Cardinality(1..3)
    BY <2>2, FS_Product
  <2> QED
    BY <2>2, <2>3
<1>3. IsFiniteSet(Pairs(r)) /\ Cardinality(Pairs(r)) \in Nat /\ Cardinality(Pairs(r)) <= 6
  BY <1>1, <1>2, FS_Subset, FS_CardinalityType
<1>4. Pairs(r) # {}
  <2>1. PICK t \in r.targets, p \in r.profiles : TRUE
    BY SkillsAssumption
  <2>2. t \in ToSet(Targets) /\ p \in ToSet(Profiles)
    BY <2>1, SkillsAssumption
  <2>3. DOMAIN Targets = 1..2 /\ DOMAIN Profiles = 1..3 /\ Len(Targets) = 2 /\ Len(Profiles) = 3
    BY DEF Targets, Profiles
  <2>4. PICK i \in 1..2, j \in 1..3 : Targets[i] = t /\ Profiles[j] = p
    BY <2>2, <2>3 DEF ToSet
  <2>5. <<i, j>> \in Pairs(r)
    BY <2>1, <2>3, <2>4 DEF Pairs
  <2> QED
    BY <2>5
<1> QED
  BY <1>3, <1>4, FS_EmptySet

\* A request names at most six files, and when it is resolved no file twice.
LEMMA LocationsAre ==
    ASSUME NEW r \in Requests
    PROVE  /\ Len(Locations(r)) \in 1..6 /\ DOMAIN Locations(r) = 1..Len(Locations(r))
           /\ \A k \in 1..Len(Locations(r)) : Locations(r)[k].path \in Paths
           /\ Resolvable(r) => \A j, k \in 1..Len(Locations(r)) :
                 Locations(r)[j].path = Locations(r)[k].path => j = k
<1> DEFINE n == Cardinality(Pairs(r))
           L == Locations(r)
           P == ToSetOfPaths(L)
<1>1. n \in 1..6
  BY PairsAre
<1>2. DOMAIN L = 1..n /\ L = [k \in 1..n |-> L[k]]
  BY DEF Locations
<1>3. Len(L) = n
  <2>1. L \in Seq({L[k] : k \in 1..n})
    BY <1>1, <1>2
  <2>2. DOMAIN L = 1..Len(L) /\ Len(L) \in Nat
    BY <2>1
  <2> QED
    BY <1>1, <1>2, <2>2
<1>4. \A k \in 1..n : L[k].path \in Paths
  <2>1. \A k \in 1..n : L[k].path \in P
    BY <1>2 DEF ToSetOfPaths
  <2>2. P \subseteq Paths
    BY DEF Paths
  <2> QED
    BY <2>1, <2>2
<1>5. ASSUME Resolvable(r) PROVE \A j, k \in 1..n : L[j].path = L[k].path => j = k
  <2> DEFINE f == [k \in 1..n |-> L[k].path]
  <2>1. Cardinality(P) = n
    BY <1>3, <1>5 DEF Resolvable
  <2>2. P = {L[k].path : k \in 1..n}
    BY <1>2 DEF ToSetOfPaths
  <2>3. f \in Surjection(1..n, P)
    BY <2>2 DEF Surjection
  <2>4. IsFiniteSet(1..n) /\ Cardinality(1..n) = n
    BY <1>1, UpToN
  <2>5. f \in Injection(1..n, P)
    <3> HIDE DEF n, L, P, f
    <3> QED
      BY <2>1, <2>3, <2>4, FS_SurjSameCardinalityImpliesInj
  <2> QED
    BY <2>5 DEF Injection, IsInjective
<1> HIDE DEF n, L
<1> QED
  BY <1>1, <1>2, <1>3, <1>4, <1>5 DEF L

-----------------------------------------------------------------------------
(***************************************************************************)
(* The invariant                                                           *)
(***************************************************************************)

CommandRecord(a) ==
    [pc |-> a.pc, request |-> a.request, at |-> a.at, seen |-> a.seen, result |-> a.result]

SkillsTyped ==
    /\ file = [path \in Paths |-> file[path]]
    /\ asked = [c \in Commands |-> asked[c]]
    /\ crossed \in [Commands -> SUBSET Paths] /\ wrote \in [Commands -> SUBSET Paths]
    /\ handmade \subseteq Paths /\ edits \in 0..MaxEdits /\ failures \in 0..MaxFailures

\* Who may have written a file: the user, or an installation of some profile.
AskedFor(r) == r \in Requests /\ Resolvable(r)
Installs(path, profile) ==
    \E r \in Requests, j \in 1..6 :
        /\ j \in DOMAIN Locations(r)
        /\ Locations(r)[j].path = path /\ Locations(r)[j].profile = profile
LastWritten(text, path, hands) ==
    \/ text = Missing
    \/ text = Edited /\ path \in hands
    \/ text.kind = "managed" /\ Installs(path, text.profile)

\* Whom a conflict at one place is with.
Blamed(place, hands) ==
    \/ place.path \in hands
    \/ \E r \in Requests, j \in 1..6 :
          /\ j \in DOMAIN Locations(r)
          /\ Locations(r)[j].path = place.path /\ Locations(r)[j].profile # place.profile

Wanted(r, place) == IF r.op = "install" THEN Definition(r, place.profile) ELSE Missing

Going == {"status", "check", "next", "act"}
Judged == {"next", "act"}

\* How far a command is, and what it has written by then.
Progress(a, written) ==
    LET n == Len(Locations(a.request)) IN
    /\ a = CommandRecord(a) /\ a.pc \in Going \cup {"idle", "over"}
    /\ a.result \in {"none", "ok", "invalid", "conflict", "error", "dead"}
    /\ a.pc \in Going => AskedFor(a.request) /\ a.result = "none" /\ a.at \in 1..n
    /\ a.result \in {"ok", "conflict"} => AskedFor(a.request)
    /\ a.pc = "idle" => a = Unasked
    /\ a.pc = "status" => Len(a.seen) = a.at - 1
    /\ a.pc = "check" => a.at = 1
    /\ a.pc \in Going => a.seen \in Seq({"missing", "installed", "modified"})
    /\ a.pc \in {"check", "next", "act"} => Len(a.seen) = n
    /\ a.pc \in Judged /\ ~a.request.force => \A k \in 1..n : a.seen[k] # "modified"
    /\ a.pc \in {"idle", "status", "check"} \/ a.result \in {"conflict", "invalid"} => written = {}

\* What a command has looked at and not handled is as it was, unless crossed;
\* what it has handled is as it was asked; and a conflict has a reason.
Handled(a, k) == (a.pc \in Judged /\ k < a.at) \/ a.result = "ok"
Looked(a, crossings, f, hands) ==
    LET places == Locations(a.request) IN
    /\ a.pc \in Going => \A k \in DOMAIN places : k \in DOMAIN a.seen =>
          /\ a.seen[k] = "modified" => Blamed(places[k], hands)
          /\ ~Handled(a, k) /\ places[k].path \notin crossings =>
                a.seen[k] = StateOf(f[places[k].path], places[k].profile)
    /\ a.pc \in Judged \/ a.result = "ok" =>
          \A k \in DOMAIN places : Handled(a, k) =>
              places[k].path \in crossings \/ f[places[k].path] = Wanted(a.request, places[k])
    /\ a.result = "conflict" => \E k \in DOMAIN places : Blamed(places[k], hands)

SkillsInv ==
    /\ SkillsTyped
    /\ \A path \in Paths : LastWritten(file[path], path, handmade)
    /\ \A c \in Commands : Progress(asked[c], wrote[c])
    /\ \A c \in Commands : Looked(asked[c], crossed[c], file, handmade)

\* A command that does not move: what others do to a file it has looked at is
\* marked.
LEMMA LookedStays ==
    ASSUME NEW a, NEW crossings, NEW f, NEW hands, Looked(a, crossings, f, hands),
           NEW crossings2, NEW f2, NEW hands2, crossings \subseteq crossings2,
           hands \subseteq hands2, \A path \in Paths : f2[path] # f[path] => path \in crossings2,
           AskedFor(a.request) \/ (a.pc \notin Going /\ a.result \notin {"ok", "conflict"})
    PROVE  Looked(a, crossings2, f2, hands2)
<1>1. \A place : Blamed(place, hands) => Blamed(place, hands2)
  BY DEF Blamed
<1>2. CASE AskedFor(a.request)
  <2>1. \A k \in DOMAIN Locations(a.request) : Locations(a.request)[k].path \in Paths
    BY <1>2, LocationsAre DEF AskedFor
  <2> DEFINE places == Locations(a.request)
  <2>2. \A k \in DOMAIN places : Blamed(places[k], hands) => Blamed(places[k], hands2)
    BY <1>1
  <2>3. \A k \in DOMAIN places : places[k].path \notin crossings2 =>
            places[k].path \notin crossings /\ f2[places[k].path] = f[places[k].path]
    BY <2>1
  <2>4. Looked(a, crossings, f, hands)
    OBVIOUS
  <2> HIDE DEF places
  <2> QED
    BY <2>2, <2>3, <2>4 DEF Looked, places
<1>3. CASE a.pc \notin Going /\ a.result \notin {"ok", "conflict"}
  BY <1>3 DEF Looked, Going, Judged
<1> QED
  BY <1>2, <1>3

\* When a command has moved, by its own means, the others stand as they did.
LEMMA OthersStand ==
    ASSUME SkillsInv, NEW c \in Commands, SkillsTyped',
           \A path \in Paths : LastWritten(file'[path], path, handmade'),
           handmade \subseteq handmade',
           \A d \in Commands \ {c} :
              /\ asked'[d] = asked[d] /\ wrote'[d] = wrote[d] /\ crossed[d] \subseteq crossed'[d]
              /\ \A path \in Paths : file'[path] # file[path] => path \in crossed'[d],
           Progress(asked'[c], wrote'[c]), Looked(asked'[c], crossed'[c], file', handmade')
    PROVE  SkillsInv'
<1>1. ASSUME NEW d \in Commands
      PROVE  Progress(asked'[d], wrote'[d])
  BY DEF SkillsInv
<1>2. ASSUME NEW d \in Commands
      PROVE  Looked(asked'[d], crossed'[d], file', handmade')
  <2>1. CASE d = c
    BY <2>1
  <2>2. CASE d # c
    <3>1. Looked(asked[d], crossed[d], file, handmade) /\ Progress(asked[d], wrote[d])
      BY DEF SkillsInv
    <3>2. AskedFor(asked[d].request) \/ (asked[d].pc \notin Going /\ asked[d].result \notin {"ok", "conflict"})
      BY <3>1 DEF Progress
    <3>3. Looked(asked[d], crossed'[d], file', handmade')
      BY <2>2, <3>1, <3>2, LookedStays
    <3> QED
      BY <2>2, <3>3
  <2> QED
    BY <2>1, <2>2
<1> QED
  BY <1>1, <1>2 DEF SkillsInv

\* Nothing is asked and nothing is there.
LEMMA SkillsBegin == SkillsInit => SkillsInv
<1> SUFFICES ASSUME SkillsInit PROVE SkillsInv
  OBVIOUS
<1>1. SkillsTyped
  BY SkillsAssumption DEF SkillsInit, SkillsTyped
<1>2. \A path \in Paths : LastWritten(file[path], path, handmade)
  BY DEF SkillsInit, LastWritten
<1>3. ASSUME NEW c \in Commands
      PROVE  Progress(asked[c], wrote[c]) /\ Looked(asked[c], crossed[c], file, handmade)
  <2>1. asked[c] = Unasked /\ wrote[c] = {}
    BY DEF SkillsInit
  <2> QED
    BY <2>1 DEF Progress, Looked, Unasked, Going, Judged, CommandRecord
<1> QED
  BY <1>1, <1>2, <1>3 DEF SkillsInv

\* An end that is no success and no conflict leaves everything else as it is.
LEMMA EndsKeeps ==
    ASSUME SkillsInv, NEW c \in Commands, asked[c].pc # "idle",
           NEW result \in {"invalid", "error", "dead"}, Ends(c, result), Leaves,
           UNCHANGED handmade, edits' \in 0..MaxEdits, failures' \in 0..MaxFailures,
           result = "invalid" => wrote[c] = {}
    PROVE  SkillsInv'
<1>1. asked' = [asked EXCEPT ![c].pc = "over", ![c].result = result]
      /\ UNCHANGED <<file, wrote, crossed, handmade>>
  BY DEF Ends, Leaves
<1>2. asked = [d \in Commands |-> asked[d]] /\ Progress(asked[c], wrote[c])
  BY DEF SkillsInv, SkillsTyped
<1>3. asked'[c] = [asked[c] EXCEPT !.pc = "over", !.result = result]
      /\ (\A d \in Commands \ {c} : asked'[d] = asked[d])
      /\ asked' = [d \in Commands |-> asked'[d]]
  BY <1>1, <1>2
<1>4. SkillsTyped'
  BY <1>1, <1>3 DEF SkillsInv, SkillsTyped
<1>5. Progress(asked'[c], wrote'[c])
  BY <1>1, <1>2, <1>3 DEF Progress, Going, Judged, CommandRecord
<1>6. Looked(asked'[c], crossed'[c], file', handmade')
  BY <1>2, <1>3 DEF Looked, Going, Judged, Progress, CommandRecord
<1>7. \A path \in Paths : LastWritten(file'[path], path, handmade')
  BY <1>1 DEF SkillsInv
<1> QED
  BY <1>1, <1>3, <1>4, <1>5, <1>6, <1>7, OthersStand

\* A request is resolved and its rules are there, or it is refused.
LEMMA AskForKeeps ==
    ASSUME SkillsInv, NEW c \in Commands, AskFor(c)
    PROVE  SkillsInv'
<1>1. asked[c] = Unasked /\ wrote[c] = {} /\ asked = [d \in Commands |-> asked[d]]
  BY DEF AskFor, SkillsInv, Progress, SkillsTyped
<1>2. PICK r \in Requests :
        asked' = [asked EXCEPT
            ![c].request = r,
            ![c].pc = IF Resolvable(r) /\ RulesFit(r) THEN "status" ELSE "over",
            ![c].result = IF Resolvable(r) /\ RulesFit(r) THEN "none" ELSE "invalid"]
  BY DEF AskFor
<1>3. UNCHANGED <<file, wrote, crossed, edits, failures, handmade>>
  BY DEF AskFor, Leaves
<1> DEFINE fit == Resolvable(r) /\ RulesFit(r)
           now == IF fit THEN "status" ELSE "over"
           result == IF fit THEN "none" ELSE "invalid"
<1>4. /\ asked'[c] = [pc |-> now, request |-> r, at |-> 1, seen |-> <<>>, result |-> result]
      /\ \A d \in Commands \ {c} : asked'[d] = asked[d]
      /\ asked' = [d \in Commands |-> asked'[d]]
  <2>1. asked' = [asked EXCEPT ![c].request = r, ![c].pc = now, ![c].result = result]
    BY <1>2
  <2> HIDE DEF fit, now, result
  <2>2. asked'[c] = [asked[c] EXCEPT !.request = r, !.pc = now, !.result = result]
    BY <1>1, <2>1
  <2>3. asked'[c] = [pc |-> now, request |-> r, at |-> 1, seen |-> <<>>, result |-> result]
    <3>1. asked[c] = CommandRecord(asked[c]) /\ asked[c].at = 1 /\ asked[c].seen = <<>>
      BY <1>1 DEF Unasked, CommandRecord
    <3>2. /\ asked'[c] = CommandRecord(asked'[c]) /\ asked'[c].pc = now /\ asked'[c].request = r
          /\ asked'[c].result = result /\ asked'[c].at = 1 /\ asked'[c].seen = <<>>
      <4>1. PICK a : a = asked[c]
        OBVIOUS
      <4>2. PICK b : b = [a EXCEPT !.request = r, !.pc = now, !.result = result]
        OBVIOUS
      <4>3. b = asked'[c]
        BY <2>2, <4>1, <4>2
      <4>4. a = CommandRecord(a) /\ a.at = 1 /\ a.seen = <<>>
        BY <3>1, <4>1
      <4>5. /\ b = CommandRecord(b) /\ b.request = r /\ b.pc = now /\ b.result = result
            /\ b.at = 1 /\ b.seen = <<>>
        BY <4>2, <4>4 DEF CommandRecord
      <4> QED
        BY <4>3, <4>5
    <3> QED
      BY <3>2 DEF CommandRecord
  <2>4. \A d \in Commands \ {c} : asked'[d] = asked[d]
    BY <1>1, <2>1
  <2>5. asked' = [d \in Commands |-> asked'[d]]
    BY <1>1, <2>1
  <2> QED
    BY <2>3, <2>4, <2>5
<1>5. SkillsTyped'
  BY <1>3, <1>4 DEF SkillsInv, SkillsTyped
<1>6. Progress(asked'[c], wrote'[c]) /\ Looked(asked'[c], crossed'[c], file', handmade')
  <2>0. Len(Locations(r)) \in 1..6
    BY LocationsAre
  <2>1. fit => AskedFor(r) /\ 1 \in 1..Len(Locations(r))
    BY <2>0 DEF AskedFor
  <2>2. <<>> \in Seq({"missing", "installed", "modified"}) /\ Len(<<>>) = 0 /\ DOMAIN <<>> = {}
    OBVIOUS
  <2> HIDE DEF fit
  <2>3. CASE fit
    BY <1>1, <1>3, <1>4, <2>1, <2>2, <2>3 DEF Progress, Looked, Going, Judged, CommandRecord
  <2>4. CASE ~fit
    BY <1>1, <1>3, <1>4, <2>1, <2>2, <2>4 DEF Progress, Looked, Going, Judged, CommandRecord
  <2> QED
    BY <2>3, <2>4
<1>7. \A path \in Paths : LastWritten(file'[path], path, handmade')
  BY <1>3 DEF SkillsInv
<1> QED
  BY <1>3, <1>4, <1>5, <1>6, <1>7, OthersStand

\* The user: a file is written by hand, and all commands are crossed.
LEMMA UserEditsKeeps ==
    ASSUME SkillsInv, UserEdits
    PROVE  SkillsInv'
<1>1. PICK path \in Paths, text \in {Edited, Missing} :
          /\ file' = [file EXCEPT ![path] = text]
          /\ crossed' = [c \in Commands |-> crossed[c] \cup {path}]
          /\ handmade' = handmade \cup {path}
  BY DEF UserEdits
<1>2. UNCHANGED <<asked, failures, wrote>> /\ edits' \in 0..MaxEdits
  BY SkillsAssumption DEF UserEdits, SkillsInv, SkillsTyped
<1>3. file'[path] = text /\ \A p \in Paths : p # path => file'[p] = file[p]
  BY <1>1 DEF SkillsInv, SkillsTyped
<1>4. SkillsTyped'
  BY <1>1, <1>2 DEF SkillsInv, SkillsTyped
<1>5. ASSUME NEW p \in Paths PROVE LastWritten(file'[p], p, handmade')
  BY <1>1, <1>3 DEF SkillsInv, LastWritten
<1>6. ASSUME NEW d \in Commands
      PROVE  Looked(asked'[d], crossed'[d], file', handmade')
  <2>1. Looked(asked[d], crossed[d], file, handmade) /\ Progress(asked[d], wrote[d])
    BY DEF SkillsInv
  <2>2. AskedFor(asked[d].request) \/ (asked[d].pc \notin Going /\ asked[d].result \notin {"ok", "conflict"})
    BY <2>1 DEF Progress
  <2>3. crossed'[d] = crossed[d] \cup {path}
    BY <1>1
  <2>4. /\ crossed[d] \subseteq crossed'[d] /\ handmade \subseteq handmade'
        /\ \A p \in Paths : file'[p] # file[p] => p \in crossed'[d]
    BY <1>1, <1>3, <2>3
  <2>5. Looked(asked[d], crossed'[d], file', handmade')
    BY <2>1, <2>2, <2>4, LookedStays
  <2> QED
    BY <1>2, <2>5
<1> QED
  BY <1>2, <1>4, <1>5, <1>6 DEF SkillsInv

\* What is called modified was written by hand or for another profile.
LEMMA ModifiedIsBlamed ==
    ASSUME NEW place, NEW f, NEW hands, LastWritten(f[place.path], place.path, hands)
    PROVE  /\ StateOf(f[place.path], place.profile) \in {"missing", "installed", "modified"}
           /\ StateOf(f[place.path], place.profile) = "modified" => Blamed(place, hands)
           /\ StateOf(f[place.path], place.profile) = "missing" => f[place.path] = Missing
<1> DEFINE text == f[place.path]
<1>1. CASE text = Missing
  BY <1>1 DEF StateOf, Missing
<1>2. CASE text = Edited /\ place.path \in hands
  BY <1>2 DEF StateOf, Edited, Blamed
<1>3. CASE text.kind = "managed" /\ Installs(place.path, text.profile)
  BY <1>3 DEF StateOf, Installs, Blamed
<1> QED
  BY <1>1, <1>2, <1>3 DEF LastWritten

\* One more file is looked at.
LooksOn(a, b, state) ==
    /\ b = CommandRecord(b) /\ b.request = a.request /\ b.result = a.result
    /\ b.seen = Append(a.seen, state)
    /\ b.at = IF a.at = Len(Locations(a.request)) THEN 1 ELSE a.at + 1
    /\ b.pc = IF a.at = Len(Locations(a.request)) THEN "check" ELSE "status"
LooksAgain(a, b, state) ==
    /\ b.request = a.request /\ b.pc \in {"status", "check"} /\ b.result = "none"
    /\ Len(a.seen) = a.at - 1 /\ Len(b.seen) = a.at /\ DOMAIN b.seen = 1..a.at
    /\ b.seen[a.at] = state /\ \A k \in 1..(a.at - 1) : b.seen[k] = a.seen[k]

\* One more state is known, and all files are there once the last is.
LEMMA LookProgress ==
    ASSUME NEW a, NEW written, Progress(a, written), a.pc = "status", NEW state,
           state \in {"missing", "installed", "modified"},
           NEW b, LooksOn(a, b, state)
    PROVE  Progress(b, written) /\ LooksAgain(a, b, state)
<1> DEFINE n == Len(Locations(a.request))
<1>1. /\ AskedFor(a.request) /\ n \in 1..6 /\ a = CommandRecord(a) /\ a.result = "none" /\ a.at \in 1..n
      /\ a.seen \in Seq({"missing", "installed", "modified"}) /\ Len(a.seen) = a.at - 1 /\ written = {}
  BY LocationsAre DEF Progress, Going, AskedFor
<1>2. /\ b = CommandRecord(b) /\ b.request = a.request /\ b.result = a.result
      /\ b.seen = Append(a.seen, state)
      /\ b.at = (IF a.at = n THEN 1 ELSE a.at + 1)
      /\ b.pc = (IF a.at = n THEN "check" ELSE "status")
  BY DEF LooksOn
<1>3. /\ b.seen \in Seq({"missing", "installed", "modified"}) /\ Len(b.seen) = a.at
      /\ DOMAIN b.seen = 1..a.at
      /\ b.seen[a.at] = state /\ \A k \in 1..(a.at - 1) : b.seen[k] = a.seen[k]
  BY <1>1, <1>2
<1> HIDE DEF n
<1>4. Progress(b, written)
  BY <1>1, <1>2, <1>3 DEF Progress, Going, Judged, n
<1> QED
  BY <1>1, <1>2, <1>3, <1>4 DEF LooksAgain

\* A file after the other is looked at.
LEMMA LookKeeps ==
    ASSUME SkillsInv, NEW c \in Commands, Look(c)
    PROVE  SkillsInv'
<1>1. /\ asked = [d \in Commands |-> asked[d]] /\ Progress(asked[c], wrote[c])
      /\ Looked(asked[c], crossed[c], file, handmade) /\ asked[c].pc = "status"
      /\ UNCHANGED <<file, wrote, edits, handmade>>
  BY DEF SkillsInv, SkillsTyped, Look
<1>2. CASE Failure /\ Ends(c, "error") /\ UNCHANGED crossed
  <2>1. failures' \in 0..MaxFailures
    BY <1>2, SkillsAssumption DEF Failure, SkillsInv, SkillsTyped
  <2>2. edits' \in 0..MaxEdits
    BY <1>1 DEF SkillsInv, SkillsTyped
  <2> QED
    BY <1>1, <1>2, <2>1, <2>2, EndsKeeps DEF Leaves
<1>3. CASE /\ asked' = [asked EXCEPT
                ![c].seen = Append(@, StateOf(file[PlaceOf(c).path], PlaceOf(c).profile)),
                ![c].at = IF @ = Len(Locations(asked[c].request)) THEN 1 ELSE @ + 1,
                ![c].pc = IF asked[c].at = Len(Locations(asked[c].request))
                          THEN "check" ELSE "status"]
           /\ crossed' = [crossed EXCEPT ![c] = @ \ {PlaceOf(c).path}]
           /\ UNCHANGED failures
  <2> DEFINE places == Locations(asked[c].request)
             n == Len(places)
             at == asked[c].at
             place == places[at]
             state == StateOf(file[place.path], place.profile)
  <2>1. /\ n \in 1..6 /\ at \in 1..n /\ DOMAIN places = 1..n /\ place = PlaceOf(c)
        /\ \A k \in 1..n : places[k].path \in Paths
        /\ \A j, k \in 1..n : places[j].path = places[k].path => j = k
    BY <1>1, LocationsAre DEF Progress, Going, AskedFor, PlaceOf
  <2>2. /\ state \in {"missing", "installed", "modified"}
        /\ state = "modified" => Blamed(place, handmade)
    BY <2>1, ModifiedIsBlamed DEF SkillsInv
  <2> HIDE DEF state
  <2>3. asked'[c] = [asked[c] EXCEPT
                !.seen = Append(@, state),
                !.at = IF @ = Len(Locations(asked[c].request)) THEN 1 ELSE @ + 1,
                !.pc = IF asked[c].at = Len(Locations(asked[c].request)) THEN "check" ELSE "status"]
    BY <1>1, <1>3, <2>1 DEF state
  <2>4. /\ \A d \in Commands \ {c} : asked'[d] = asked[d]
        /\ asked' = [d \in Commands |-> asked'[d]]
    BY <1>1, <1>3
  <2>5. PICK b : b = asked'[c]
    OBVIOUS
  <2>6. /\ Progress(b, wrote[c]) /\ b.request = asked[c].request
        /\ b.pc \in {"status", "check"} /\ b.result = "none"
        /\ Len(asked[c].seen) = asked[c].at - 1 /\ Len(b.seen) = asked[c].at
        /\ DOMAIN b.seen = 1..asked[c].at
        /\ b.seen[asked[c].at] = state /\ \A k \in 1..(asked[c].at - 1) : b.seen[k] = asked[c].seen[k]
    <3>1. PICK a : a = asked[c]
      OBVIOUS
    <3>2. b = [a EXCEPT
                !.seen = Append(@, state),
                !.at = IF @ = Len(Locations(a.request)) THEN 1 ELSE @ + 1,
                !.pc = IF a.at = Len(Locations(a.request)) THEN "check" ELSE "status"]
      BY <2>3, <2>5, <3>1
    <3>3. Progress(a, wrote[c]) /\ a.pc = "status"
      BY <1>1, <3>1
    <3> HIDE DEF places, n, at, place
    <3>5. LooksOn(a, b, state)
      BY <3>2, <3>3 DEF Progress, CommandRecord, LooksOn
    <3>4. Progress(b, wrote[c]) /\ LooksAgain(a, b, state)
      BY <2>2, <3>3, <3>5, LookProgress
    <3> QED
      BY <3>1, <3>4 DEF LooksAgain
  <2>7. /\ crossed'[c] = crossed[c] \ {place.path}
        /\ \A d \in Commands \ {c} : crossed'[d] = crossed[d]
        /\ crossed' \in [Commands -> SUBSET Paths]
    BY <1>3, <2>1 DEF SkillsInv, SkillsTyped
  <2>8. Looked(b, crossed'[c], file', handmade')
    <3>1. ASSUME NEW k \in DOMAIN places, k \in DOMAIN b.seen
          PROVE  /\ b.seen[k] = "modified" => Blamed(places[k], handmade)
                 /\ places[k].path \notin crossed'[c] =>
                      b.seen[k] = StateOf(file[places[k].path], places[k].profile)
      <4>1. CASE k = at
        BY <2>2, <2>6, <4>1 DEF state
      <4>2. CASE k # at
        <5>1. k \in 1..(at - 1) /\ k \in DOMAIN asked[c].seen /\ places[k].path # place.path
          <6>1. asked[c].seen \in Seq({"missing", "installed", "modified"})
            BY <1>1 DEF Progress, Going
          <6> QED
            BY <2>1, <2>6, <3>1, <4>2, <6>1
        <5>2. b.seen[k] = asked[c].seen[k] /\ ~Handled(asked[c], k)
          BY <1>1, <2>6, <5>1 DEF Handled, Judged, Progress, Going
        <5> QED
          BY <1>1, <2>7, <5>1, <5>2 DEF Looked, Going
      <4> QED
        BY <4>1, <4>2
    <3>2. /\ b.pc \notin Judged /\ b.result = "none" /\ Locations(b.request) = places
          /\ file' = file /\ handmade' = handmade
      BY <1>1, <2>6 DEF Judged
    <3> HIDE DEF places, n, at, place
    <3> QED
      BY <3>1, <3>2 DEF Looked
  <2>9. SkillsTyped'
    BY <1>1, <1>3, <2>4, <2>7 DEF SkillsInv, SkillsTyped
  <2>10. \A path \in Paths : LastWritten(file'[path], path, handmade')
    BY <1>1 DEF SkillsInv
  <2> QED
    <3>1. Progress(asked'[c], wrote'[c]) /\ Looked(asked'[c], crossed'[c], file', handmade')
      BY <1>1, <2>5, <2>6, <2>8
    <3> HIDE DEF places, n, at, place
    <3> QED
      BY <1>1, <2>4, <2>7, <2>9, <2>10, <3>1, OthersStand
<1> QED
  BY <1>2, <1>3 DEF Look

\* The files of a command under way.
LEMMA PlacesAre ==
    ASSUME NEW a, NEW written, Progress(a, written), a.pc \in Going \/ a.result \in {"ok", "conflict"},
           NEW places, places = Locations(a.request), NEW n, n = Len(places)
    PROVE  /\ a.request \in Requests /\ n \in 1..6 /\ DOMAIN places = 1..n
           /\ \A k \in 1..n : places[k].path \in Paths
           /\ \A j, k \in 1..n : places[j].path = places[k].path => j = k
BY LocationsAre DEF Progress, AskedFor

\* A command goes on, and leaves everything else as it is.
MovesTo(a, b, pc, result) ==
    /\ b = CommandRecord(b) /\ b.request = a.request /\ b.seen = a.seen /\ b.at = a.at
    /\ b.pc = pc /\ b.result = result

\* Where only the place or the result of a command is assigned, it is all that
\* changes.
LEMMA MovesKeeps ==
    ASSUME SkillsInv, NEW c \in Commands, NEW pc, NEW result,
           \/ asked' = [asked EXCEPT ![c].pc = pc] /\ result = asked[c].result
           \/ asked' = [asked EXCEPT ![c].pc = pc, ![c].result = result]
    PROVE  /\ MovesTo(asked[c], asked'[c], pc, result)
           /\ \A d \in Commands \ {c} : asked'[d] = asked[d]
           /\ asked' = [d \in Commands |-> asked'[d]]
<1>1. asked = [d \in Commands |-> asked[d]] /\ asked[c] = CommandRecord(asked[c])
  BY DEF SkillsInv, SkillsTyped, Progress
<1>2. /\ \A d \in Commands \ {c} : asked'[d] = asked[d]
      /\ asked' = [d \in Commands |-> asked'[d]]
  BY <1>1
<1>3. PICK a : a = asked[c]
  OBVIOUS
<1>4. PICK b : b = asked'[c]
  OBVIOUS
<1>5. CASE asked' = [asked EXCEPT ![c].pc = pc] /\ result = asked[c].result
  <2>1. b = [a EXCEPT !.pc = pc]
    BY <1>1, <1>3, <1>4, <1>5
  <2>2. a = CommandRecord(a) /\ result = a.result
    BY <1>1, <1>3, <1>5
  <2>3. MovesTo(a, b, pc, result)
    BY <2>1, <2>2 DEF MovesTo, CommandRecord
  <2> QED
    BY <1>2, <1>3, <1>4, <2>3
<1>6. CASE asked' = [asked EXCEPT ![c].pc = pc, ![c].result = result]
  <2>1. b = [a EXCEPT !.pc = pc, !.result = result]
    BY <1>1, <1>3, <1>4, <1>6
  <2>2. a = CommandRecord(a)
    BY <1>1, <1>3
  <2>3. MovesTo(a, b, pc, result)
    BY <2>1, <2>2 DEF MovesTo, CommandRecord
  <2> QED
    BY <1>2, <1>3, <1>4, <2>3
<1> QED
  BY <1>5, <1>6

\* All the files are judged: a conflict is with what was seen.
LEMMA JudgedSo ==
    ASSUME NEW a, NEW written, Progress(a, written), a.pc = "check", NEW x, NEW f, NEW hands,
           Looked(a, x, f, hands), NEW b,
           \/ MovesTo(a, b, "over", "conflict") /\ "modified" \in ToSet(a.seen)
           \/ /\ MovesTo(a, b, "next", a.result)
              /\ a.request.force \/ "modified" \notin ToSet(a.seen)
    PROVE  Progress(b, written) /\ Looked(b, x, f, hands)
<1> DEFINE places == Locations(a.request)
           n == Len(places)
<1>1. n \in 1..6 /\ DOMAIN places = 1..n
  BY PlacesAre DEF Going
<1>2. /\ AskedFor(a.request) /\ a.at = 1 /\ a.result = "none" /\ written = {}
      /\ a.seen \in Seq({"missing", "installed", "modified"}) /\ Len(a.seen) = n
  BY DEF Progress, Going
<1>3. DOMAIN a.seen = 1..n
  BY <1>2
<1>4. CASE MovesTo(a, b, "over", "conflict") /\ "modified" \in ToSet(a.seen)
  <2>1. PICK k \in 1..n : a.seen[k] = "modified"
    BY <1>3, <1>4 DEF ToSet
  <2>2. Blamed(places[k], hands)
    BY <1>1, <1>3, <2>1 DEF Looked, Going
  <2>3. Progress(b, written)
    BY <1>1, <1>2, <1>4 DEF MovesTo, Progress, Going, Judged
  <2>4. Looked(b, x, f, hands)
    BY <1>1, <1>4, <2>2 DEF MovesTo, Looked, Going, Judged
  <2> QED
    BY <2>3, <2>4
<1>5. CASE /\ MovesTo(a, b, "next", a.result)
           /\ a.request.force \/ "modified" \notin ToSet(a.seen)
  <2>1. ~a.request.force => \A k \in 1..n : a.seen[k] # "modified"
    BY <1>3, <1>5 DEF ToSet
  <2>2. Progress(b, written)
    BY <1>1, <1>2, <1>5, <2>1 DEF MovesTo, Progress, Going, Judged
  <2>3. \A k \in 1..n : ~Handled(b, k) /\ ~Handled(a, k)
    BY <1>1, <1>2, <1>5 DEF MovesTo, Handled, Judged
  <2>4. Looked(b, x, f, hands)
    BY <1>1, <1>2, <1>5, <2>3 DEF MovesTo, Looked, Going, Judged
  <2> QED
    BY <2>2, <2>4
<1> QED
  BY <1>4, <1>5

\* The definitions, then all conflicts, before the first write.
LEMMA CheckKeeps ==
    ASSUME SkillsInv, NEW c \in Commands, Check(c)
    PROVE  SkillsInv'
<1>1. /\ asked[c].pc = "check" /\ Progress(asked[c], wrote[c])
      /\ Looked(asked[c], crossed[c], file, handmade) /\ wrote[c] = {} /\ asked[c].result = "none"
      /\ UNCHANGED <<file, wrote, crossed, edits, failures, handmade>>
  BY DEF SkillsInv, Check, Leaves, Progress, Going
<1>2. CASE Ends(c, "invalid")
  <2>1. edits' \in 0..MaxEdits /\ failures' \in 0..MaxFailures
    BY <1>1 DEF SkillsInv, SkillsTyped
  <2> QED
    BY <1>1, <1>2, <2>1, EndsKeeps DEF Leaves
<1>3. ASSUME \/ Ends(c, "conflict") /\ "modified" \in ToSet(asked[c].seen)
             \/ /\ Moves(c, "next")
                /\ asked[c].request.force \/ "modified" \notin ToSet(asked[c].seen)
      PROVE  SkillsInv'
  <2>1. PICK pc, result :
          /\ MovesTo(asked[c], asked'[c], pc, result)
          /\ \/ pc = "over" /\ result = "conflict" /\ "modified" \in ToSet(asked[c].seen)
             \/ /\ pc = "next" /\ result = asked[c].result
                /\ asked[c].request.force \/ "modified" \notin ToSet(asked[c].seen)
    BY <1>3, MovesKeeps DEF Ends, Moves
  <2>2. /\ \A d \in Commands \ {c} : asked'[d] = asked[d]
        /\ asked' = [d \in Commands |-> asked'[d]]
    BY <1>3, MovesKeeps DEF Ends, Moves
  <2>3. Progress(asked'[c], wrote[c]) /\ Looked(asked'[c], crossed[c], file, handmade)
    BY <1>1, <2>1, JudgedSo
  <2>4. SkillsTyped' /\ \A path \in Paths : LastWritten(file'[path], path, handmade')
    BY <1>1, <2>2 DEF SkillsInv, SkillsTyped
  <2> QED
    BY <1>1, <2>2, <2>3, <2>4, OthersStand
<1> QED
  BY <1>2, <1>3 DEF Check

\* One file is done, written or left: the command goes on to the next.
AdvancesTo(a, b) ==
    /\ b = CommandRecord(b) /\ b.request = a.request /\ b.seen = a.seen
    /\ IF a.at = Len(Locations(a.request))
       THEN b.pc = "over" /\ b.result = "ok" /\ b.at = a.at
       ELSE b.pc = "next" /\ b.result = a.result /\ b.at = a.at + 1

\* What the code assigns as it goes on to the next file is that.
LEMMA AdvancesMoves ==
    ASSUME SkillsInv, NEW c \in Commands, Advances(c)
    PROVE  /\ AdvancesTo(asked[c], asked'[c])
           /\ \A d \in Commands \ {c} : asked'[d] = asked[d]
           /\ asked' = [d \in Commands |-> asked'[d]]
<1>1. asked = [d \in Commands |-> asked[d]] /\ asked[c] = CommandRecord(asked[c])
  BY DEF SkillsInv, SkillsTyped, Progress
<1>2. /\ \A d \in Commands \ {c} : asked'[d] = asked[d]
      /\ asked' = [d \in Commands |-> asked'[d]]
  BY <1>1 DEF Advances
<1>3. PICK a : a = asked[c]
  OBVIOUS
<1>4. PICK b : b = asked'[c]
  OBVIOUS
<1>5. a = CommandRecord(a)
  BY <1>1, <1>3
<1>6. CASE a.at = Len(Locations(a.request))
  <2>1. b = [a EXCEPT !.pc = "over", !.result = "ok"]
    BY <1>1, <1>3, <1>4, <1>6 DEF Advances
  <2>2. AdvancesTo(a, b)
    BY <1>5, <1>6, <2>1 DEF AdvancesTo, CommandRecord
  <2> QED
    BY <1>2, <1>3, <1>4, <2>2
<1>7. CASE a.at # Len(Locations(a.request))
  <2>1. b = [a EXCEPT !.pc = "next", !.at = @ + 1]
    BY <1>1, <1>3, <1>4, <1>7 DEF Advances
  <2>2. AdvancesTo(a, b)
    BY <1>5, <1>7, <2>1 DEF AdvancesTo, CommandRecord
  <2> QED
    BY <1>2, <1>3, <1>4, <2>2
<1> QED
  BY <1>6, <1>7

\* What is known of the files before the next one stays known.
LEMMA AdvancedSo ==
    ASSUME NEW a, NEW written, Progress(a, written), a.pc \in Judged,
           NEW x, NEW f, NEW hands, Looked(a, x, f, hands), NEW b, AdvancesTo(a, b), NEW g,
           NEW place, place = Locations(a.request)[a.at],
           place.path \in x \/ g[place.path] = Wanted(a.request, place),
           \A path \in Paths : path # place.path => g[path] = f[path], NEW now
    PROVE  Progress(b, now) /\ Looked(b, x, g, hands)
<1> DEFINE places == Locations(a.request)
           n == Len(places)
<1>1. /\ n \in 1..6 /\ DOMAIN places = 1..n
      /\ \A k \in 1..n : places[k].path \in Paths
      /\ \A j, k \in 1..n : places[j].path = places[k].path => j = k
  BY PlacesAre DEF Going, Judged
<1>2. /\ AskedFor(a.request) /\ a.at \in 1..n /\ a.result = "none"
      /\ a.seen \in Seq({"missing", "installed", "modified"}) /\ Len(a.seen) = n
      /\ ~a.request.force => \A k \in 1..n : a.seen[k] # "modified"
  BY DEF Progress, Going, Judged
<1>3. \A k \in 1..n : k # a.at => places[k].path # place.path /\ g[places[k].path] = f[places[k].path]
  BY <1>1, <1>2
<1>4. /\ b.request = a.request /\ b.seen = a.seen /\ b = CommandRecord(b)
      /\ a.at = n => b.pc = "over" /\ b.result = "ok"
      /\ a.at # n => b.pc = "next" /\ b.result = "none" /\ b.at = a.at + 1
  BY <1>2 DEF AdvancesTo
<1>5. Progress(b, now)
  BY <1>1, <1>2, <1>4 DEF Progress, Going, Judged
<1>6. ASSUME NEW k \in 1..n
      PROVE  /\ Handled(b, k) <=> k <= a.at
             /\ Handled(a, k) <=> k < a.at
  BY <1>1, <1>2, <1>4 DEF Handled, Judged
<1>7. ASSUME NEW k \in 1..n, Handled(b, k)
      PROVE  places[k].path \in x \/ g[places[k].path] = Wanted(b.request, places[k])
  <2>1. CASE k = a.at
    BY <1>4, <2>1
  <2>2. CASE k # a.at
    BY <1>1, <1>2, <1>3, <1>4, <1>6, <1>7, <2>2 DEF Looked
  <2> QED
    BY <2>1, <2>2
<1>8. ASSUME NEW k \in 1..n, b.pc \in Going, k \in DOMAIN b.seen
      PROVE  /\ b.seen[k] = "modified" => Blamed(places[k], hands)
             /\ ~Handled(b, k) /\ places[k].path \notin x =>
                  b.seen[k] = StateOf(g[places[k].path], places[k].profile)
  <2>1. a.pc \in Going /\ k \in DOMAIN a.seen /\ b.seen[k] = a.seen[k]
    BY <1>4, <1>8 DEF Going, Judged
  <2>2. a.seen[k] = "modified" => Blamed(places[k], hands)
    BY <1>1, <2>1 DEF Looked
  <2>3. ASSUME ~Handled(b, k), places[k].path \notin x
        PROVE  b.seen[k] = StateOf(g[places[k].path], places[k].profile)
    <3>1. k # a.at /\ ~Handled(a, k)
      BY <1>2, <1>6, <2>3
    <3>2. a.seen[k] = StateOf(f[places[k].path], places[k].profile)
      BY <1>1, <2>1, <2>3, <3>1 DEF Looked
    <3> QED
      BY <1>3, <2>1, <3>1, <3>2
  <2> QED
    BY <2>1, <2>2, <2>3
<1>9. Looked(b, x, g, hands)
  <2>1. Locations(b.request) = places /\ DOMAIN places = 1..n /\ b.result # "conflict"
    BY <1>1, <1>2, <1>4
  <2> HIDE DEF places, n
  <2> QED
    BY <1>7, <1>8, <2>1 DEF Looked
<1> QED
  BY <1>5, <1>9

\* A file that is as it should be is left, and the others are to be written.
LEMMA ConsiderKeeps ==
    ASSUME SkillsInv, NEW c \in Commands, Consider(c)
    PROVE  SkillsInv'
<1> DEFINE a == asked[c]
           place == Locations(a.request)[a.at]
           n == Len(Locations(a.request))
<1>1. /\ a.pc = "next" /\ Progress(a, wrote[c]) /\ Looked(a, crossed[c], file, handmade)
      /\ UNCHANGED <<file, wrote, crossed, edits, handmade>> /\ place = PlaceOf(c)
  BY DEF SkillsInv, Consider, Leaves, PlaceOf
<1>2. failures' \in 0..MaxFailures /\ edits' \in 0..MaxEdits
  BY SkillsAssumption DEF Consider, Failure, SkillsInv, SkillsTyped
<1>3. CASE Ends(c, "error")
  BY <1>1, <1>2, <1>3, EndsKeeps DEF Leaves
<1>4. /\ n \in 1..6 /\ DOMAIN Locations(a.request) = 1..n /\ a.request \in Requests
      /\ a.at \in 1..n /\ place.path \in Paths /\ DOMAIN a.seen = 1..n
  <2>1. /\ n \in 1..6 /\ DOMAIN Locations(a.request) = 1..n /\ a.request \in Requests
        /\ \A k \in 1..n : Locations(a.request)[k].path \in Paths
    <3>1. PICK q, places : q = a /\ places = Locations(q.request)
      OBVIOUS
    <3>2. Progress(q, wrote[c]) /\ q.pc \in Going
      BY <1>1, <3>1 DEF Going
    <3>3. /\ q.request \in Requests /\ Len(places) \in 1..6 /\ DOMAIN places = 1..Len(places)
          /\ \A k \in 1..Len(places) : places[k].path \in Paths
      BY <3>1, <3>2, PlacesAre
    <3> QED
      BY <3>1, <3>3
  <2>2. a.at \in 1..n /\ a.seen \in Seq({"missing", "installed", "modified"}) /\ Len(a.seen) = n
    BY <1>1 DEF Progress, Going
  <2> QED
    BY <2>1, <2>2
<1>5. asked' = [d \in Commands |-> asked'[d]] =>
        SkillsTyped' /\ \A path \in Paths : LastWritten(file'[path], path, handmade')
  BY <1>1, <1>2 DEF SkillsInv, SkillsTyped
<1>6. ASSUME Advances(c), file[place.path] = Wanted(a.request, place) \/ place.path \in crossed[c]
      PROVE  SkillsInv'
  <2>1. /\ AdvancesTo(asked[c], asked'[c])
        /\ \A d \in Commands \ {c} : asked'[d] = asked[d]
        /\ asked' = [d \in Commands |-> asked'[d]]
    BY <1>6, AdvancesMoves
  <2>2. PICK q, b, x, f : q = a /\ b = asked'[c] /\ x = crossed[c] /\ f = file
    OBVIOUS
  <2>3. /\ Progress(q, wrote[c]) /\ q.pc \in Judged /\ Looked(q, x, f, handmade) /\ AdvancesTo(q, b)
        /\ place = Locations(q.request)[q.at]
        /\ place.path \in x \/ f[place.path] = Wanted(q.request, place)
    BY <1>1, <1>6, <2>1, <2>2 DEF Judged
  <2>4. Progress(b, wrote[c]) /\ Looked(b, x, f, handmade)
    <3> HIDE DEF place
    <3> QED
      BY <2>3, AdvancedSo
  <2>5. Progress(asked'[c], wrote'[c]) /\ Looked(asked'[c], crossed'[c], file', handmade')
    BY <1>1, <2>2, <2>4
  <2> QED
    BY <1>1, <1>5, <2>1, <2>5, OthersStand
<1>7. CASE Moves(c, "act")
  <2>1. /\ MovesTo(asked[c], asked'[c], "act", asked[c].result)
        /\ \A d \in Commands \ {c} : asked'[d] = asked[d]
        /\ asked' = [d \in Commands |-> asked'[d]]
    BY <1>7, MovesKeeps DEF Moves
  <2>2. Progress(asked'[c], wrote[c]) /\ Looked(asked'[c], crossed[c], file, handmade)
    <3>1. PICK q, b : q = asked[c] /\ b = asked'[c]
      OBVIOUS
    <3>2. Progress(q, wrote[c]) /\ Looked(q, crossed[c], file, handmade) /\ q.pc = "next"
          /\ MovesTo(q, b, "act", q.result)
      BY <1>1, <2>1, <3>1
    <3>3. Progress(b, wrote[c])
      BY <3>2 DEF MovesTo, Progress, Going, Judged
    <3>4. \A k : Handled(b, k) <=> Handled(q, k)
      BY <3>2 DEF MovesTo, Handled, Judged
    <3>5. Looked(b, crossed[c], file, handmade)
      BY <3>2, <3>4 DEF MovesTo, Looked, Going, Judged
    <3> QED
      BY <3>1, <3>3, <3>5
  <2> QED
    BY <1>1, <1>5, <2>1, <2>2, OthersStand
<1>8. ASSUME Advances(c),
             IF asked[c].request.op = "install"
             THEN file[place.path] = Definition(asked[c].request, place.profile)
             ELSE asked[c].seen[asked[c].at] = "missing"
      PROVE  file[place.path] = Wanted(a.request, place) \/ place.path \in crossed[c]
  <2>1. CASE asked[c].request.op = "install"
    BY <1>8, <2>1 DEF Wanted
  <2>2. CASE asked[c].request.op # "install"
    <3>1. ~Handled(a, a.at) /\ a.at \in DOMAIN a.seen
      BY <1>1, <1>4 DEF Handled, Progress, Going
    <3>2. place.path \notin crossed[c] => a.seen[a.at] = StateOf(file[place.path], place.profile)
      BY <1>1, <1>4, <3>1 DEF Looked, Going
    <3>3. StateOf(file[place.path], place.profile) = "missing" => file[place.path] = Missing
      BY <1>4, ModifiedIsBlamed DEF SkillsInv
    <3> QED
      BY <1>8, <2>2, <3>2, <3>3 DEF Wanted
  <2> QED
    BY <2>1, <2>2
<1>9. \/ Ends(c, "error") \/ Moves(c, "act")
      \/ /\ Advances(c)
         /\ IF asked[c].request.op = "install"
            THEN file[place.path] = Definition(asked[c].request, place.profile)
            ELSE asked[c].seen[asked[c].at] = "missing"
  BY <1>1 DEF Consider
<1> QED
  BY <1>3, <1>6, <1>7, <1>8, <1>9

\* A file is written or removed: those who have looked at it are crossed.
LEMMA ActKeeps ==
    ASSUME SkillsInv, NEW c \in Commands, Act(c)
    PROVE  SkillsInv'
<1> DEFINE a == asked[c]
           places == Locations(a.request)
           place == places[a.at]
           n == Len(places)
           text == IF a.request.op = "install" THEN Definition(a.request, place.profile) ELSE Missing
<1>1. /\ a.pc = "act" /\ Progress(a, wrote[c]) /\ Looked(a, crossed[c], file, handmade)
      /\ UNCHANGED <<edits, handmade>> /\ place = PlaceOf(c)
  BY DEF SkillsInv, Act, PlaceOf
<1>2. failures' \in 0..MaxFailures /\ edits' \in 0..MaxEdits
  BY SkillsAssumption DEF Act, Failure, SkillsInv, SkillsTyped
<1>3. CASE Ends(c, "error") /\ Leaves
  BY <1>1, <1>2, <1>3, EndsKeeps
<1>4. /\ n \in 1..6 /\ DOMAIN places = 1..n /\ a.request \in Requests
      /\ a.at \in 1..n /\ place.path \in Paths
  <2>1. PICK q, r : q = a /\ r = Locations(q.request)
    OBVIOUS
  <2>2. Progress(q, wrote[c]) /\ q.pc \in Going
    BY <1>1, <2>1 DEF Going
  <2>3. /\ q.request \in Requests /\ Len(r) \in 1..6 /\ DOMAIN r = 1..Len(r)
        /\ \A k \in 1..Len(r) : r[k].path \in Paths
    BY <2>1, <2>2, PlacesAre
  <2>4. a.at \in 1..n
    BY <1>1 DEF Progress, Going
  <2> QED
    BY <2>1, <2>3, <2>4
<1>5. CASE Writes(c, place.path, text) /\ Advances(c)
  <2>1. /\ AdvancesTo(asked[c], asked'[c])
        /\ \A d \in Commands \ {c} : asked'[d] = asked[d]
        /\ asked' = [d \in Commands |-> asked'[d]]
    BY <1>5, AdvancesMoves
  <2> HIDE DEF text, place
  <2>2. /\ file' = [file EXCEPT ![place.path] = text]
        /\ wrote' = IF file[place.path] = text THEN wrote ELSE [wrote EXCEPT ![c] = @ \cup {place.path}]
        /\ crossed' = [d \in Commands |->
              IF d # c /\ file[place.path] # text THEN crossed[d] \cup {place.path} ELSE crossed[d]]
    BY <1>5 DEF Writes
  <2>3. /\ file = [path \in Paths |-> file[path]]
        /\ crossed \in [Commands -> SUBSET Paths] /\ wrote \in [Commands -> SUBSET Paths]
    BY DEF SkillsInv, SkillsTyped
  <2>4. /\ file' = [path \in Paths |-> file'[path]] /\ file'[place.path] = text
        /\ \A path \in Paths : path # place.path => file'[path] = file[path]
    BY <1>4, <2>2, <2>3
  <2>5. /\ crossed'[c] = crossed[c] /\ crossed' \in [Commands -> SUBSET Paths]
        /\ wrote' \in [Commands -> SUBSET Paths]
        /\ \A d \in Commands \ {c} :
              /\ wrote'[d] = wrote[d] /\ crossed[d] \subseteq crossed'[d]
              /\ \A path \in Paths : file'[path] # file[path] => path \in crossed'[d]
    BY <1>4, <2>2, <2>3, <2>4
  <2>6. LastWritten(text, place.path, handmade)
    <3>1. CASE a.request.op = "install"
      <4>1. text.kind = "managed" /\ text.profile = place.profile
        BY <3>1 DEF text, Definition
      <4>2. Installs(place.path, place.profile)
        BY <1>4 DEF Installs, place
      <4> QED
        BY <4>1, <4>2 DEF LastWritten
    <3>2. CASE a.request.op # "install"
      BY <3>2 DEF LastWritten, text
    <3> QED
      BY <3>1, <3>2
  <2>7. SkillsTyped' /\ \A path \in Paths : LastWritten(file'[path], path, handmade')
    BY <1>1, <1>2, <2>1, <2>4, <2>5, <2>6 DEF SkillsInv, SkillsTyped
  <2>8. Progress(asked'[c], wrote'[c]) /\ Looked(asked'[c], crossed'[c], file', handmade')
    <3>1. PICK q, b, x, f, g : q = a /\ b = asked'[c] /\ x = crossed[c] /\ f = file /\ g = file'
      OBVIOUS
    <3>2. /\ Progress(q, wrote[c]) /\ q.pc \in Judged /\ Looked(q, x, f, handmade) /\ AdvancesTo(q, b)
          /\ place = Locations(q.request)[q.at]
          /\ g[place.path] = Wanted(q.request, place)
          /\ \A path \in Paths : path # place.path => g[path] = f[path]
      BY <1>1, <2>1, <2>4, <3>1 DEF Judged, place, Wanted, text
    <3>3. PICK w : w = wrote'[c]
      OBVIOUS
    <3>4. Progress(b, w) /\ Looked(b, x, g, handmade)
      BY <3>2, AdvancedSo
    <3> QED
      BY <1>1, <2>5, <3>1, <3>3, <3>4
  <2> QED
    BY <1>1, <2>1, <2>5, <2>7, <2>8, OthersStand
<1> QED
  BY <1>1, <1>3, <1>5 DEF Act

\* The process dies.
LEMMA KilledKeeps ==
    ASSUME SkillsInv, NEW c \in Commands, Killed(c)
    PROVE  SkillsInv'
<1>1. failures' \in 0..MaxFailures /\ edits' \in 0..MaxEdits
  BY SkillsAssumption DEF Killed, Failure, SkillsInv, SkillsTyped
<1> QED
  BY <1>1, EndsKeeps DEF Killed

\* Every step keeps the invariant.
LEMMA SkillsStep == SkillsInv /\ [SkillsNext \/ SkillsRest]_skillVars => SkillsInv'
<1> SUFFICES ASSUME SkillsInv, [SkillsNext \/ SkillsRest]_skillVars PROVE SkillsInv'
  OBVIOUS
<1>1. CASE UNCHANGED skillVars
  BY <1>1 DEF skillVars, SkillsInv, SkillsTyped
<1>2. CASE SkillsNext
  BY <1>2, UserEditsKeeps, AskForKeeps, LookKeeps, CheckKeeps, ConsiderKeeps, ActKeeps, KilledKeeps
     DEF SkillsNext
<1> QED
  BY <1>1, <1>2 DEF SkillsRest

\* It holds at all times.
LEMMA SkillsInvHolds == SkillsSpec => []SkillsInv
BY SkillsBegin, SkillsStep, PTL DEF SkillsSpec

\* What the types say.
THEOREM SkillsTypes == SkillsSpec => []SkillsTypeOK
<1>1. SkillsInv => SkillsTypeOK
  <2> SUFFICES ASSUME SkillsInv PROVE SkillsTypeOK
    OBVIOUS
  <2>1. DOMAIN file = Paths /\ edits \in 0..MaxEdits /\ failures \in 0..MaxFailures
        /\ handmade \subseteq Paths
    BY DEF SkillsInv, SkillsTyped
  <2>2. \A path \in Paths : file[path].kind \in {"missing", "edited", "managed"}
    BY DEF SkillsInv, LastWritten, Missing, Edited
  <2>3. \A c \in Commands :
          /\ asked[c].pc \in {"idle", "status", "check", "next", "act", "over"}
          /\ asked[c].result \in {"none", "ok", "invalid", "conflict", "error", "dead"}
          /\ crossed[c] \subseteq Paths /\ wrote[c] \subseteq Paths
    BY DEF SkillsInv, SkillsTyped, Progress, Going
  <2> QED
    BY <2>1, <2>2, <2>3 DEF SkillsTypeOK
<1> QED
  BY <1>1, SkillsInvHolds, PTL

\* Nothing a command leaves behind stands in the way of running it again, and
\* what reports success has done what it was asked.
THEOREM RetryIsFree == SkillsSpec => []RetryGoesThrough
<1>1. SkillsInv => RetryGoesThrough
  <2> SUFFICES ASSUME SkillsInv, NEW c \in Commands, NEW places, places = Locations(asked[c].request)
      PROVE  /\ asked[c].result = "conflict" =>
                  \E k \in DOMAIN places :
                      \/ places[k].path \in handmade
                      \/ \E r \in Requests, j \in 1..6 :
                            /\ j \in DOMAIN Locations(r)
                            /\ Locations(r)[j].path = places[k].path
                            /\ Locations(r)[j].profile # places[k].profile
             /\ asked[c].result = "ok" =>
                  \A k \in DOMAIN places :
                      \/ places[k].path \in crossed[c]
                      \/ file[places[k].path] =
                            IF asked[c].request.op = "install"
                            THEN Definition(asked[c].request, places[k].profile) ELSE Missing
    BY DEF RetryGoesThrough
  <2>1. Looked(asked[c], crossed[c], file, handmade)
    BY DEF SkillsInv
  <2>2. asked[c].result = "conflict" => \E k \in DOMAIN places : Blamed(places[k], handmade)
    BY <2>1 DEF Looked
  <2>3. asked[c].result = "ok" => \A k \in DOMAIN places :
            places[k].path \in crossed[c] \/ file[places[k].path] = Wanted(asked[c].request, places[k])
    BY <2>1 DEF Looked, Handled
  <2> QED
    BY <2>2, <2>3 DEF Blamed, Wanted
<1> QED
  BY <1>1, SkillsInvHolds, PTL

\* What the user wrote is lost to a command that was not forced only if it was
\* written after the command had looked; and who is refused has written nothing.
THEOREM EditsAreKept == SkillsSpec => EditsSurvive
<1> DEFINE Lost == \A path \in Paths :
              file[path] = Edited /\ file'[path] # Edited /\ edits' = edits =>
                \E c \in Commands :
                    asked[c].pc = "act" /\ (asked[c].request.force \/ path \in crossed[c])
           Refused == \A c \in Commands :
              asked'[c].result \in {"conflict", "invalid"} => wrote'[c] = {}
<1>1. SkillsInv' => Refused
  BY DEF SkillsInv, Progress
<1>2. SkillsInv /\ [SkillsNext \/ SkillsRest]_skillVars => Lost
  <2> SUFFICES ASSUME SkillsInv, [SkillsNext \/ SkillsRest]_skillVars, NEW path \in Paths,
                      file[path] = Edited, file'[path] # Edited, edits' = edits
               PROVE  \E c \in Commands :
                         asked[c].pc = "act" /\ (asked[c].request.force \/ path \in crossed[c])
    OBVIOUS
  <2>1. file' # file /\ edits \in Nat
    BY SkillsAssumption DEF SkillsInv, SkillsTyped
  <2>2. PICK c \in Commands : Act(c) /\ ~Leaves
    <3>1. ~UserEdits /\ ~SkillsRest /\ ~UNCHANGED skillVars
      BY <2>1 DEF UserEdits, SkillsRest, skillVars
    <3>2. PICK c \in Commands :
              AskFor(c) \/ Look(c) \/ Check(c) \/ Consider(c) \/ Act(c) \/ Killed(c)
      BY <3>1 DEF SkillsNext
    <3>3. ~Leaves
      BY <2>1 DEF Leaves
    <3>4. ~AskFor(c) /\ ~Check(c) /\ ~Consider(c) /\ ~Killed(c)
      BY <3>3 DEF AskFor, Check, Consider, Killed
    <3>5. ~Look(c)
      BY <2>1 DEF Look
    <3> QED
      BY <3>2, <3>3, <3>4, <3>5
  <2> DEFINE place == PlaceOf(c)
  <2>3. path = place.path /\ asked[c].pc = "act"
    BY <2>2 DEF Act, Writes, Leaves, SkillsInv, SkillsTyped
  <2>4. ASSUME ~asked[c].request.force, path \notin crossed[c] PROVE FALSE
    <3> DEFINE a == asked[c]
    <3>1. Progress(a, wrote[c]) /\ Looked(a, crossed[c], file, handmade)
      BY DEF SkillsInv
    <3>2. /\ a.at \in 1..Len(Locations(a.request)) /\ Len(a.seen) = Len(Locations(a.request))
          /\ a.seen \in Seq({"missing", "installed", "modified"}) /\ AskedFor(a.request)
          /\ a.seen[a.at] # "modified" /\ a.result = "none"
      BY <2>3, <2>4, <3>1 DEF Progress, Going, Judged
    <3>3. a.at \in DOMAIN a.seen /\ a.at \in DOMAIN Locations(a.request) /\ ~Handled(a, a.at)
      BY <3>2, LocationsAre DEF Handled, AskedFor
    <3>4. a.seen[a.at] = StateOf(file[path], place.profile)
      BY <2>3, <2>4, <3>1, <3>3 DEF Looked, Going, PlaceOf
    <3>5. StateOf(Edited, place.profile) = "modified"
      BY DEF StateOf, Edited
    <3> QED
      BY <3>2, <3>4, <3>5
  <2> QED
    BY <2>3, <2>4
<1>3. SkillsSpec => [][Lost /\ Refused]_skillVars
  <2>1. SkillsInv /\ SkillsInv' /\ [SkillsNext \/ SkillsRest]_skillVars => [Lost /\ Refused]_skillVars
    <3> HIDE DEF Lost, Refused
    <3> QED
      BY <1>1, <1>2
  <2> HIDE DEF Lost, Refused
  <2> QED
    BY <2>1, SkillsInvHolds, PTL DEF SkillsSpec
<1>4. (Lost /\ Refused) <=>
        /\ \A path \in Paths :
            file[path] = Edited /\ file'[path] # Edited /\ edits' = edits =>
                \E c \in Commands :
                    asked[c].pc = "act" /\ (asked[c].request.force \/ path \in crossed[c])
        /\ \A c \in Commands :
            asked'[c].result \in {"conflict", "invalid"} => wrote'[c] = {}
  OBVIOUS
<1> QED
  <2> HIDE DEF Lost, Refused
  <2> QED
    BY <1>3, <1>4, PTL DEF EditsSurvive

-----------------------------------------------------------------------------
(***************************************************************************)
(* The live tree of a scan: who is above whom                              *)
(***************************************************************************)

\* Every directory has its parent among the directories, or has none.
Parented(nd) == \A d \in Dirs : nd[d].parent \in Dirs \cup {NoDir}

\* From every directory the parents lead to one that has none: what is passed
\* on from parents to children reaches them all.
Grounded(nd) ==
    \A F \in SUBSET Dirs :
        (\A d \in Dirs : nd[d].parent \in F \cup {NoDir} => d \in F) => F = Dirs

IsAbove(nd, g) ==
    g = [d \in Dirs |-> IF nd[d].parent = NoDir THEN {}
                        ELSE {nd[d].parent} \cup g[nd[d].parent]]

\* Those above are the least set that holds the parents of all it holds.
LEMMA AboveExists ==
    ASSUME NEW nd, Parented(nd)
    PROVE  \E g : IsAbove(nd, g)
<1> DEFINE Closed(d, S) == nd[d].parent \in S \cup {NoDir}
                           /\ \A x \in S : nd[x].parent \in S \cup {NoDir}
           least(d) == {x \in Dirs : \A S \in SUBSET Dirs : Closed(d, S) => x \in S}
           g == [d \in Dirs |-> least(d)]
<1>1. ASSUME NEW d \in Dirs, nd[d].parent = NoDir
      PROVE  least(d) = {}
  <2>1. Closed(d, {})
    BY <1>1
  <2> QED
    BY <2>1
<1>2. ASSUME NEW d \in Dirs, nd[d].parent # NoDir
      PROVE  least(d) = {nd[d].parent} \cup least(nd[d].parent)
  <2> DEFINE p == nd[d].parent
  <2>1. p \in Dirs
    BY <1>2 DEF Parented
  <2>2. ASSUME NEW S \in SUBSET Dirs, Closed(d, S)
        PROVE  p \in S /\ Closed(p, S)
    BY <1>2, <2>2
  <2>3. ASSUME NEW x \in least(d)
        PROVE  x \in {p} \cup least(p)
    <3>1. \A z \in least(p) : nd[z].parent \in least(p) \cup {NoDir}
      BY DEF Parented
    <3>2. nd[p].parent \in least(p) \cup {NoDir}
      BY <2>1 DEF Parented
    <3>3. Closed(d, {p} \cup least(p))
      BY <3>1, <3>2
    <3>4. {p} \cup least(p) \in SUBSET Dirs
      BY <2>1
    <3> HIDE DEF Closed
    <3> QED
      BY <2>3, <3>3, <3>4
  <2>4. least(p) \subseteq least(d) /\ p \in least(d)
    <3> HIDE DEF Closed
    <3> QED
      BY <2>1, <2>2
  <2> QED
    BY <2>3, <2>4
<1>3. \A d \in Dirs : nd[d].parent # NoDir => nd[d].parent \in Dirs
  BY DEF Parented
<1>4. IsAbove(nd, g)
  <2> HIDE DEF least
  <2> QED
    BY <1>1, <1>2, <1>3 DEF IsAbove
<1> QED
  BY <1>4

\* Above is what its definition says.
LEMMA AboveIs ==
    ASSUME NEW nd, Parented(nd), NEW d \in Dirs
    PROVE  Above(nd, d) = IF nd[d].parent = NoDir THEN {}
                          ELSE {nd[d].parent} \cup Above(nd, nd[d].parent)
<1> DEFINE it == CHOOSE g : IsAbove(nd, g)
<1>1. IsAbove(nd, it)
  BY AboveExists
<1>2. \A x : Above(nd, x) = it[x]
  BY DEF Above, IsAbove
<1> HIDE DEF it
<1> QED
  BY <1>1, <1>2 DEF IsAbove, Parented

\* What one directory needs, and passes on to its children, all have.
LEMMA Descent ==
    ASSUME NEW nd, Grounded(nd), NEW F,
           \A d \in Dirs : nd[d].parent \in F \cup {NoDir} => d \in F
    PROVE  Dirs \subseteq F
<1> DEFINE G == F \cap Dirs
<1>1. ASSUME NEW d \in Dirs, nd[d].parent \in G \cup {NoDir}
      PROVE  d \in G
  BY <1>1
<1>2. G \in SUBSET Dirs
  OBVIOUS
<1>3. G = Dirs
  <2> HIDE DEF G
  <2> QED
    BY <1>1, <1>2 DEF Grounded
<1> QED
  BY <1>3

\* Those above are directories, and have those above them above it too.
LEMMA AboveAre ==
    ASSUME NEW nd, Parented(nd), Grounded(nd), NEW d \in Dirs
    PROVE  /\ Above(nd, d) \subseteq Dirs
           /\ \A x \in Above(nd, d) : Above(nd, x) \subseteq Above(nd, d)
<1> DEFINE F == {x \in Dirs : /\ Above(nd, x) \subseteq Dirs
                              /\ \A y \in Above(nd, x) : Above(nd, y) \subseteq Above(nd, x)}
<1>1. ASSUME NEW x \in Dirs, nd[x].parent \in F \cup {NoDir}
      PROVE  x \in F
  <2>1. CASE nd[x].parent = NoDir
    BY <2>1, AboveIs
  <2>2. CASE nd[x].parent # NoDir
    <3>1. Above(nd, x) = {nd[x].parent} \cup Above(nd, nd[x].parent)
      BY <2>2, AboveIs
    <3> QED
      BY <1>1, <2>2, <3>1
  <2> QED
    BY <2>1, <2>2
<1>2. Dirs \subseteq F
  <2> HIDE DEF F
  <2> QED
    BY <1>1, Descent
<1> QED
  BY <1>2

\* Where the parents are the same, those above are.
LEMMA AboveSame ==
    ASSUME NEW nd, Parented(nd), Grounded(nd), NEW to, Parented(to), NEW U \in SUBSET Dirs,
           \A d \in U : to[d].parent = nd[d].parent /\ nd[d].parent \in U \cup {NoDir}
    PROVE  \A d \in U : Above(to, d) = Above(nd, d)
<1> DEFINE F == {x \in Dirs : x \in U => Above(to, x) = Above(nd, x)}
<1>1. ASSUME NEW x \in Dirs, nd[x].parent \in F \cup {NoDir}
      PROVE  x \in F
  <2>1. CASE x \in U
    <3>1. Above(to, x) = IF nd[x].parent = NoDir THEN {}
                         ELSE {nd[x].parent} \cup Above(to, nd[x].parent)
      BY <2>1, AboveIs
    <3>2. Above(nd, x) = IF nd[x].parent = NoDir THEN {}
                         ELSE {nd[x].parent} \cup Above(nd, nd[x].parent)
      BY <2>1, AboveIs
    <3>3. nd[x].parent # NoDir => Above(to, nd[x].parent) = Above(nd, nd[x].parent)
      BY <1>1, <2>1
    <3> QED
      BY <3>1, <3>2, <3>3
  <2> QED
    BY <2>1
<1>2. Dirs \subseteq F
  <2> HIDE DEF F
  <2> QED
    BY <1>1, Descent
<1> QED
  BY <1>2

\* What only changes elsewhere leaves everything where it is.
LEMMA SamePlaces ==
    ASSUME NEW nd, Parented(nd), Grounded(nd), NEW to,
           \A d \in Dirs : to[d].parent = nd[d].parent /\ to[d].live = nd[d].live
    PROVE  /\ Parented(to) /\ Grounded(to)
           /\ \A d \in Dirs : Above(to, d) = Above(nd, d) /\ Upwards(to, d) = Upwards(nd, d)
           /\ \A d \in Dirs : Below(to, d) = Below(nd, d)
<1>1. Parented(to)
  BY DEF Parented
<1>2. Grounded(to)
  BY DEF Grounded
<1>3. \A d \in Dirs : Above(to, d) = Above(nd, d)
  <2>1. \A d \in Dirs : to[d].parent = nd[d].parent /\ nd[d].parent \in Dirs \cup {NoDir}
    BY DEF Parented
  <2> QED
    BY <1>1, <2>1, AboveSame
<1> QED
  BY <1>1, <1>2, <1>3 DEF Upwards, Below

-----------------------------------------------------------------------------
(***************************************************************************)
(* The live tree of a scan: what is measured                               *)
(***************************************************************************)

BytesIn(ls) == [l \in ls |-> l.bytes]
SelvesIn(nd) == [d \in Dirs |-> nd[d].self]

\* The leaves below a directory.
LeavesBelow(nd, ls, d) == {l \in ls : l.dir \in Below(nd, d)}

\* The bytes of some leaves are their sum.
LEMMA BytesSum ==
    ASSUME NEW ls, IsFiniteSet(ls), \A l \in ls : l.bytes \in Int, NEW S \in SUBSET ls
    PROVE  BytesOf(S) = SumOver(BytesIn(ls), S)
<1> DEFINE w == BytesIn(ls)
           Is(g) == g = [s \in SUBSET S |-> IF s = {} THEN 0
                                            ELSE Pick(s).bytes + g[s \ {Pick(s)}]]
           it == CHOOSE g : Is(g)
<1>1. IsFiniteSet(S) /\ \A x \in S : w[x] \in Int
  BY FS_Subset DEF BytesIn
<1>2. \A s \in SUBSET S : s # {} => w[Pick(s)] = Pick(s).bytes
  BY DEF Pick, BytesIn
<1>3. PICK g : IsSum(g, w, S)
  <2> HIDE DEF w
  <2> QED
    BY <1>1, SumExists
<1>4. Is(g)
  BY <1>2, <1>3 DEF IsSum
<1>5. Is(it)
  <2> HIDE DEF Is
  <2> QED
    BY <1>4
<1>6. IsSum(it, w, S)
  <2> HIDE DEF w, it
  <2> QED
    BY <1>2, <1>5 DEF IsSum
<1>7. BytesOf(S) = it[S]
  BY DEF BytesOf, MapThenSumSet, MapThenFoldSet, Pick
<1> HIDE DEF it, w, Is
<1> QED
  BY <1>1, <1>6, <1>7, SumIs DEF w

SelvesOf(nd, S) == MapThenSumSet(LAMBDA x : nd[x].self, S)

\* So are the directories' own sizes.
LEMMA SelvesSum ==
    ASSUME NEW nd, \A d \in Dirs : nd[d].self \in Int, NEW S \in SUBSET Dirs
    PROVE  SelvesOf(nd, S) = SumOver(SelvesIn(nd), S)
<1> DEFINE w == SelvesIn(nd)
           Is(g) == g = [s \in SUBSET S |-> IF s = {} THEN 0
                                            ELSE nd[Pick(s)].self + g[s \ {Pick(s)}]]
           it == CHOOSE g : Is(g)
<1>1. IsFiniteSet(S) /\ \A x \in S : w[x] \in Int
  BY ScanAssumption, FS_Subset DEF SelvesIn
<1>2. \A s \in SUBSET S : s # {} => w[Pick(s)] = nd[Pick(s)].self
  BY DEF Pick, SelvesIn
<1>3. PICK g : IsSum(g, w, S)
  <2> HIDE DEF w
  <2> QED
    BY <1>1, SumExists
<1>4. Is(g)
  BY <1>2, <1>3 DEF IsSum
<1>5. Is(it)
  <2> HIDE DEF Is
  <2> QED
    BY <1>4
<1>6. IsSum(it, w, S)
  <2> HIDE DEF w, it
  <2> QED
    BY <1>2, <1>5 DEF IsSum
<1>7. SelvesOf(nd, S) = it[S]
  BY DEF SelvesOf, MapThenSumSet, MapThenFoldSet, Pick
<1> HIDE DEF it, w, Is
<1> QED
  BY <1>1, <1>6, <1>7, SumIs DEF w

\* What is measured below a directory, in sums.
LEMMA MeasuredIs ==
    ASSUME NEW nd, \A d \in Dirs : nd[d].self \in Nat,
           NEW ls, IsFiniteSet(ls), \A l \in ls : l.bytes \in Nat, NEW d \in Dirs
    PROVE  LET m == Measured(nd, ls, d)
               below == Below(nd, d)
               here == LeavesBelow(nd, ls, d) IN
           /\ m = [bytes |-> m.bytes, files |-> m.files, dirs |-> m.dirs]
           /\ m.bytes = BytesOf(here) + SumOver(SelvesIn(nd), below)
           /\ m.files = Cardinality({l \in here : ~l.err})
           /\ m.dirs = Cardinality(below) - 1
           /\ BytesOf(here) \in Nat /\ SumOver(SelvesIn(nd), below) \in Nat
           /\ Cardinality({l \in here : ~l.err}) \in Nat /\ Cardinality(below) \in Nat
           /\ here \subseteq ls /\ below \subseteq Dirs /\ IsFiniteSet(here) /\ IsFiniteSet(below)
<1> DEFINE below == Below(nd, d)
           here == LeavesBelow(nd, ls, d)
           m == Measured(nd, ls, d)
<1>1. below \subseteq Dirs /\ here \subseteq ls
  BY DEF Below, LeavesBelow
<1>2. IsFiniteSet(below) /\ IsFiniteSet(here) /\ IsFiniteSet({l \in here : ~l.err})
  <2>1. IsFiniteSet(Dirs) /\ {l \in here : ~l.err} \subseteq ls
    BY <1>1, ScanAssumption
  <2> QED
    BY <1>1, <2>1, FS_Subset
<1>3. BytesOf(here) = SumOver(BytesIn(ls), here)
  <2>1. \A l \in ls : l.bytes \in Int
    OBVIOUS
  <2> QED
    BY <1>1, <2>1, BytesSum
<1>4. SelvesOf(nd, below) = SumOver(SelvesIn(nd), below)
  <2>1. \A x \in Dirs : nd[x].self \in Int
    OBVIOUS
  <2> QED
    BY <1>1, <2>1, SelvesSum
<1>5. m = [bytes |-> BytesOf(here) + SelvesOf(nd, below),
           files |-> Cardinality({l \in here : ~l.err}), dirs |-> Cardinality(below) - 1]
  BY DEF Measured, SelvesOf, LeavesBelow
<1>6. SumOver(BytesIn(ls), here) \in Nat
  <2>1. \A l \in here : BytesIn(ls)[l] \in Nat
    BY <1>1 DEF BytesIn
  <2>2. SumOver(BytesIn(ls), here) \in Int
    <3>1. \A l \in here : BytesIn(ls)[l] \in Int
      BY <2>1
    <3> QED
      BY <1>2, <3>1, SumStep
  <2>3. 0 <= SumOver(BytesIn(ls), here)
    BY <1>2, <2>1, SumPart
  <2> QED
    BY <2>2, <2>3
<1>7. SumOver(SelvesIn(nd), below) \in Nat
  <2>1. \A l \in below : SelvesIn(nd)[l] \in Nat
    BY <1>1 DEF SelvesIn
  <2>2. SumOver(SelvesIn(nd), below) \in Int
    <3>1. \A l \in below : SelvesIn(nd)[l] \in Int
      BY <2>1
    <3> QED
      BY <1>2, <3>1, SumStep
  <2>3. 0 <= SumOver(SelvesIn(nd), below)
    BY <1>2, <2>1, SumPart
  <2> QED
    BY <2>2, <2>3
<1>8. Cardinality({l \in here : ~l.err}) \in Nat /\ Cardinality(below) \in Nat
  BY <1>2, FS_CardinalityType
<1> HIDE DEF below, here
<1>9. /\ m = [bytes |-> m.bytes, files |-> m.files, dirs |-> m.dirs]
      /\ m.bytes = BytesOf(here) + SumOver(SelvesIn(nd), below)
      /\ m.files = Cardinality({l \in here : ~l.err})
      /\ m.dirs = Cardinality(below) - 1
  BY <1>3, <1>4, <1>5
<1> HIDE DEF m
<1> QED
  BY <1>1, <1>2, <1>3, <1>6, <1>7, <1>8, <1>9 DEF below, here, m

\* What is measured is made of numbers.
LEMMA CountsAre ==
    ASSUME NEW nd, \A d \in Dirs : nd[d].self \in Nat,
           NEW ls, IsFiniteSet(ls), \A l \in ls : l.bytes \in Nat, NEW d \in Dirs
    PROVE  LET below == Below(nd, d)
               here == LeavesBelow(nd, ls, d) IN
           /\ BytesOf(here) \in Nat /\ SumOver(SelvesIn(nd), below) \in Nat
           /\ Cardinality({l \in here : ~l.err}) \in Nat /\ Cardinality(below) \in Nat
           /\ here \subseteq ls /\ below \subseteq Dirs /\ IsFiniteSet(here) /\ IsFiniteSet(below)
BY MeasuredIs

\* A change of one weight changes the sum by as much.
LEMMA SumChange ==
    ASSUME NEW S, IsFiniteSet(S), NEW f, NEW g, NEW a,
           \A x \in S : f[x] \in Int /\ g[x] \in Int /\ (x # a => g[x] = f[x])
    PROVE  /\ SumOver(f, S) \in Int /\ SumOver(g, S) \in Int
           /\ a \in S => SumOver(g, S) = SumOver(f, S) + (g[a] - f[a])
           /\ a \notin S => SumOver(g, S) = SumOver(f, S)
<1>1. ASSUME NEW h, \A x \in S : h[x] \in Int
      PROVE  SumOver(h, S) \in Int
  BY <1>1, SumStep
<1>2. SumOver(f, S) \in Int /\ SumOver(g, S) \in Int
  BY <1>1
<1>3. CASE a \notin S
  <2>1. SumOver(g, S) = SumOver(f, S)
    BY <1>3, SumEqual
  <2> QED
    BY <1>2, <1>3, <2>1
<1>4. CASE a \in S
  <2> DEFINE T == S \ {a}
  <2>1. IsFiniteSet(T) /\ T \cup {a} = S /\ a \notin T
    BY <1>4, FS_RemoveElement
  <2>2. \A x \in T : f[x] \in Int /\ g[x] = f[x]
    OBVIOUS
  <2>3. \A x \in T : g[x] \in Int
    OBVIOUS
  <2>4. f[a] \in Int /\ g[a] \in Int
    BY <1>4
  <2> HIDE DEF T
  <2>5. SumOver(f, T) = SumOver(g, T)
    BY <2>1, <2>2, SumEqual
  <2>6. SumOver(f, T \cup {a}) = SumOver(f, T) + f[a]
    BY <2>1, <2>2, <2>4, SumAdd
  <2>7. SumOver(g, T \cup {a}) = SumOver(g, T) + g[a]
    BY <2>1, <2>3, <2>4, SumAdd
  <2>8. SumOver(f, T) \in Int
    BY <2>1, <2>2, SumStep
  <2>9. SumOver(f, S) = SumOver(f, T) + f[a] /\ SumOver(g, S) = SumOver(f, T) + g[a]
    BY ONLY <2>1, <2>5, <2>6, <2>7
  <2>10. SumOver(g, S) = SumOver(f, S) + (g[a] - f[a])
    BY ONLY <2>4, <2>8, <2>9
  <2> QED
    BY ONLY <1>2, <1>4, <2>10
<1> QED
  BY <1>3, <1>4

\* The totals of every directory in the tree are those of what is below it.
TotalsStand(nd, ls) ==
    \A d \in Dirs : nd[d].live =>
        /\ nd[d].bytes = BytesOf(LeavesBelow(nd, ls, d))
                            + SumOver(SelvesIn(nd), Below(nd, d))
        /\ nd[d].files = Cardinality({l \in LeavesBelow(nd, ls, d) : ~l.err})
        /\ nd[d].dirs = Cardinality(Below(nd, d)) - 1

\* A tree has its parents in it.
Tree(nd) ==
    /\ Parented(nd) /\ Grounded(nd)
    /\ \A d \in Dirs : /\ nd[d].self \in Nat
                       /\ IF nd[d].live THEN nd[d].parent # NoDir => nd[nd[d].parent].live
                          ELSE nd[d].parent = NoDir

\* A directory's own size becomes known: it and all above grow by that.
Opened(nd, to, d, size) ==
    \A x \in Dirs :
        /\ to[x].parent = nd[x].parent /\ to[x].live = nd[x].live
        /\ to[x].self = IF x = d THEN size ELSE nd[x].self
        /\ to[x].bytes = IF x \in Upwards(nd, d) THEN nd[x].bytes + size ELSE nd[x].bytes
        /\ to[x].files = nd[x].files /\ to[x].dirs = nd[x].dirs

\* The totals are right again once the size of a directory has been added to all
\* that is above it.
LEMMA OpenedTotals ==
    ASSUME NEW nd, Tree(nd), NEW ls, IsFiniteSet(ls), \A l \in ls : l.bytes \in Nat,
           TotalsStand(nd, ls), NEW d \in Dirs, nd[d].live, nd[d].self = 0,
           NEW size \in Nat, NEW to, Opened(nd, to, d, size)
    PROVE  Tree(to) /\ TotalsStand(to, ls)
<1>1. /\ Parented(to) /\ Grounded(to)
      /\ \A x \in Dirs : Below(to, x) = Below(nd, x)
  BY SamePlaces DEF Tree, Opened
<1>2. Tree(to)
  BY <1>1 DEF Tree, Opened, Parented
<1>3. ASSUME NEW x \in Dirs, to[x].live
      PROVE  /\ to[x].bytes = BytesOf(LeavesBelow(to, ls, x))
                                + SumOver(SelvesIn(to), Below(to, x))
             /\ to[x].files = Cardinality({l \in LeavesBelow(to, ls, x) : ~l.err})
             /\ to[x].dirs = Cardinality(Below(to, x)) - 1
  <2> DEFINE below == Below(nd, x)
             sum == BytesOf(LeavesBelow(nd, ls, x))
  <2>1. Below(to, x) = below /\ LeavesBelow(to, ls, x) = LeavesBelow(nd, ls, x)
    BY <1>1 DEF LeavesBelow
  <2>2. /\ nd[x].bytes = sum + SumOver(SelvesIn(nd), below)
        /\ nd[x].files = Cardinality({l \in LeavesBelow(nd, ls, x) : ~l.err})
        /\ nd[x].dirs = Cardinality(below) - 1
    BY <1>3 DEF TotalsStand, Opened
  <2>3. /\ sum \in Nat /\ SumOver(SelvesIn(nd), below) \in Nat
        /\ IsFiniteSet(below) /\ below \subseteq Dirs
    BY CountsAre DEF Tree
  <2>4. d \in below <=> x \in Upwards(nd, d)
    BY DEF Below
  <2>5. \A y \in below : /\ SelvesIn(nd)[y] \in Int /\ SelvesIn(to)[y] \in Int
                         /\ (y # d => SelvesIn(to)[y] = SelvesIn(nd)[y])
    BY <2>3 DEF SelvesIn, Opened, Tree
  <2>6. d \in below => SelvesIn(to)[d] - SelvesIn(nd)[d] = size
    BY <2>3 DEF SelvesIn, Opened
  <2> HIDE DEF below, sum
  <2>7. SumOver(SelvesIn(to), below) =
            IF d \in below THEN SumOver(SelvesIn(nd), below) + size
            ELSE SumOver(SelvesIn(nd), below)
    <3> DEFINE f == SelvesIn(nd)
               g == SelvesIn(to)
    <3>1. /\ IsFiniteSet(below)
          /\ \A y \in below : f[y] \in Int /\ g[y] \in Int /\ (y # d => g[y] = f[y])
          /\ d \in below => g[d] - f[d] = size
      BY <2>3, <2>5, <2>6
    <3> HIDE DEF f, g
    <3>2. /\ d \in below => SumOver(g, below) = SumOver(f, below) + (g[d] - f[d])
          /\ d \notin below => SumOver(g, below) = SumOver(f, below)
      BY ONLY <3>1, SumChange
    <3>3. SumOver(g, below) = IF d \in below THEN SumOver(f, below) + size
                              ELSE SumOver(f, below)
      BY ONLY <3>1, <3>2
    <3> QED
      BY <3>3 DEF f, g
  <2>8. to[x].bytes = sum + SumOver(SelvesIn(to), below)
    BY <2>2, <2>3, <2>4, <2>7 DEF Opened
  <2>9. to[x].files = nd[x].files /\ to[x].dirs = nd[x].dirs
    BY DEF Opened
  <2> QED
    BY <2>1, <2>2, <2>8, <2>9 DEF sum
<1> QED
  BY <1>2, <1>3 DEF TotalsStand

\* A batch enters the tree below d: the directories in K, and leaves of b
\* bytes and f files; it and all above grow by that.
Grown(nd, to, d, K, b, f) ==
    \A x \in Dirs :
        IF x \in K
        THEN /\ to[x].live /\ to[x].parent = d /\ to[x].self = 0
             /\ to[x].bytes = 0 /\ to[x].files = 0 /\ to[x].dirs = 0
        ELSE /\ to[x].parent = nd[x].parent /\ to[x].live = nd[x].live
             /\ to[x].self = nd[x].self
             /\ IF x \in Upwards(nd, d)
                THEN /\ to[x].bytes = nd[x].bytes + b /\ to[x].files = nd[x].files + f
                     /\ to[x].dirs = nd[x].dirs + Cardinality(K)
                ELSE /\ to[x].bytes = nd[x].bytes /\ to[x].files = nd[x].files
                     /\ to[x].dirs = nd[x].dirs

\* The new directories are below d and all above it, and nothing else moves.
LEMMA GrownPlaces ==
    ASSUME NEW nd, Tree(nd), NEW d \in Dirs, nd[d].live,
           NEW K \in SUBSET Dirs, \A x \in K : ~nd[x].live,
           NEW to, NEW b, NEW f, Grown(nd, to, d, K, b, f)
    PROVE  /\ Tree(to)
           /\ \A x \in Dirs \ K :
                nd[x].live => Below(to, x) = Below(nd, x) \cup
                                  (IF x \in Upwards(nd, d) THEN K ELSE {})
           /\ \A x \in K : Below(to, x) = {x}
<1> DEFINE U == Dirs \ K
<1>1. Parented(nd) /\ Grounded(nd) /\ Parented(to) /\ d \in U
  BY DEF Tree, Parented, Grown
<1>2. \A x \in U : to[x].parent = nd[x].parent /\ nd[x].parent \in U \cup {NoDir}
  BY DEF Tree, Parented, Grown
<1>3. Grounded(to)
  <2> SUFFICES ASSUME NEW F \in SUBSET Dirs,
                      \A x \in Dirs : to[x].parent \in F \cup {NoDir} => x \in F
               PROVE  F = Dirs
    BY DEF Grounded
  <2> DEFINE G == F \cup K
  <2>1. ASSUME NEW x \in Dirs, nd[x].parent \in G \cup {NoDir}
        PROVE  x \in G
    BY <1>2, <2>1
  <2>2. Dirs \subseteq G
    <3> HIDE DEF G
    <3> QED
      BY <1>1, <2>1, Descent
  <2>3. d \in F
    BY <1>1, <2>2
  <2>4. \A x \in K : to[x].parent = d
    BY DEF Grown
  <2> QED
    BY <2>2, <2>3, <2>4
<1>4. \A x \in U : Above(to, x) = Above(nd, x)
  BY <1>1, <1>2, AboveSame
<1>5. \A x \in K : Above(to, x) = {d} \cup Above(nd, d)
  <2>1. \A x \in K : Above(to, x) = {d} \cup Above(to, d)
    BY <1>1, AboveIs, ScanAssumption DEF Grown
  <2> QED
    BY <1>1, <1>4, <2>1
<1>6. \A x \in U : nd[x].live => Above(nd, x) \cap K = {}
  <2> DEFINE F == {x \in Dirs : nd[x].live => \A y \in Above(nd, x) : nd[y].live}
  <2>1. ASSUME NEW x \in Dirs, nd[x].parent \in F \cup {NoDir}
        PROVE  x \in F
    <3>1. Above(nd, x) = IF nd[x].parent = NoDir THEN {}
                         ELSE {nd[x].parent} \cup Above(nd, nd[x].parent)
      BY <1>1, AboveIs
    <3> QED
      BY <2>1, <3>1 DEF Tree
  <2>2. Dirs \subseteq F
    <3> HIDE DEF F
    <3> QED
      BY <1>1, <2>1, Descent
  <2> QED
    BY <2>2
<1>7. Tree(to)
  BY <1>1, <1>3 DEF Tree, Grown, Parented
<1>8. ASSUME NEW x \in U, nd[x].live
      PROVE  Below(to, x) = Below(nd, x) \cup (IF x \in Upwards(nd, d) THEN K ELSE {})
  <2>1. \A y \in U : y \in Below(to, x) <=> y \in Below(nd, x)
    BY <1>4 DEF Below, Upwards, Grown
  <2>2. \A y \in K : y \in Below(to, x) <=> x \in Upwards(nd, d)
    BY <1>5 DEF Below, Upwards, Grown
  <2>3. \A y \in K : y \notin Below(nd, x)
    BY DEF Below
  <2>4. Below(to, x) \subseteq Dirs /\ Below(nd, x) \subseteq Dirs
    BY DEF Below
  <2> QED
    BY <2>1, <2>2, <2>3, <2>4
<1>9. ASSUME NEW x \in K
      PROVE  Below(to, x) = {x}
  <2>1. \A y \in K : y \in Below(to, x) <=> y = x
    <3>1. x \notin {d} \cup Above(nd, d)
      BY <1>1, <1>6
    <3> QED
      BY <1>5, <3>1 DEF Below, Upwards, Grown
  <2>2. \A y \in U : y \notin Below(to, x)
    BY <1>4, <1>6 DEF Below, Upwards, Grown
  <2> QED
    BY <2>1, <2>2 DEF Below
<1> QED
  BY <1>7, <1>8, <1>9

\* Leaves apart are counted apart.
LEMMA BytesUnion ==
    ASSUME NEW S, IsFiniteSet(S), NEW T, IsFiniteSet(T), S \cap T = {},
           \A l \in S \cup T : l.bytes \in Nat
    PROVE  /\ BytesOf(S) \in Nat /\ BytesOf(T) \in Nat
           /\ BytesOf(S \cup T) = BytesOf(S) + BytesOf(T)
           /\ BytesOf({}) = 0
<1> DEFINE L == S \cup T
           w == BytesIn(L)
<1>1. IsFiniteSet(L) /\ \A l \in L : l.bytes \in Int
  <2>1. \A l \in L : l.bytes \in Int
    OBVIOUS
  <2> QED
    BY <2>1, FS_Union
<1>2. \A l \in L : w[l] \in Nat /\ w[l] \in Int
  BY DEF BytesIn
<1>3. \A R \in SUBSET L : BytesOf(R) = SumOver(w, R)
  <2> HIDE DEF L
  <2> QED
    BY <1>1, BytesSum
<1>4. S \in SUBSET L /\ T \in SUBSET L /\ L \in SUBSET L /\ {} \in SUBSET L
  OBVIOUS
<1>5. SumOver(w, S \cup T) = SumOver(w, S) + SumOver(w, T)
  <2>1. \A l \in S \cup T : w[l] \in Int
    BY <1>2
  <2> HIDE DEF w, L
  <2> QED
    BY <2>1, SumUnion
<1>6. ASSUME NEW R \in SUBSET L
      PROVE  SumOver(w, R) \in Nat
  <2>1. SumOver(w, R) \in Int
    <3>1. IsFiniteSet(R) /\ \A l \in R : w[l] \in Int
      BY <1>1, <1>2, FS_Subset
    <3> HIDE DEF w
    <3> QED
      BY <3>1, SumStep
  <2>2. 0 <= SumOver(w, R)
    <3> HIDE DEF w, L
    <3> QED
      BY <1>1, <1>2, SumPart
  <2> QED
    BY <2>1, <2>2
<1>7. SumOver(w, {}) = 0
  <2>1. \A l \in {} : w[l] \in Int
    OBVIOUS
  <2> HIDE DEF w
  <2> QED
    BY <2>1, FS_EmptySet, SumStep
<1> HIDE DEF w
<1>8. BytesOf(S) = SumOver(w, S) /\ BytesOf(T) = SumOver(w, T)
      /\ BytesOf(S \cup T) = SumOver(w, S \cup T) /\ BytesOf({}) = SumOver(w, {})
  BY <1>3, <1>4
<1>9. SumOver(w, S) \in Nat /\ SumOver(w, T) \in Nat
  BY <1>4, <1>6
<1> QED
  BY <1>5, <1>7, <1>8, <1>9

\* The totals follow.
LEMMA GrownTotals ==
    ASSUME NEW nd, Tree(nd), NEW ls, IsFiniteSet(ls),
           \A l \in ls : l.bytes \in Nat /\ l.dir \in Dirs /\ nd[l.dir].live,
           TotalsStand(nd, ls), NEW d \in Dirs, nd[d].live,
           NEW K \in SUBSET Dirs, \A x \in K : ~nd[x].live,
           NEW new, IsFiniteSet(new), new \cap ls = {},
           \A l \in new : l.bytes \in Nat /\ l.dir = d,
           NEW to, Grown(nd, to, d, K, BytesOf(new), Cardinality({l \in new : ~l.err}))
    PROVE  TotalsStand(to, ls \cup new)
<1> DEFINE all == ls \cup new
           b == BytesOf(new)
           f == Cardinality({l \in new : ~l.err})
<1>1. /\ Tree(to)
      /\ \A x \in Dirs \ K :
            nd[x].live => Below(to, x) = Below(nd, x) \cup
                              (IF x \in Upwards(nd, d) THEN K ELSE {})
      /\ \A x \in K : Below(to, x) = {x}
  <2> HIDE DEF b, f
  <2>1. Grown(nd, to, d, K, b, f)
    BY DEF b, f
  <2> QED
    BY <2>1, GrownPlaces
<1>2. IsFiniteSet(all) /\ IsFiniteSet(K) /\ \A l \in all : l.bytes \in Nat
  BY ScanAssumption, FS_Subset, FS_Union
<1>3. BytesOf({}) = 0 /\ Cardinality({}) = 0
  BY BytesUnion, FS_EmptySet
<1>7. /\ \A y \in Dirs : nd[y].self \in Nat /\ nd[y].self \in Int
      /\ \A y \in Dirs \ K : to[y].self = nd[y].self
      /\ \A y \in K : to[y].self = 0
  <2>1. \A y \in Dirs : nd[y].self \in Nat /\ nd[y].self \in Int
    BY DEF Tree
  <2>2. \A y \in Dirs \ K : to[y].self = nd[y].self
    BY DEF Grown
  <2>3. \A y \in K : to[y].self = 0
    BY DEF Grown
  <2> QED
    BY <2>1, <2>2, <2>3
<1>8. \A y \in Dirs : /\ SelvesIn(to)[y] \in Int /\ SelvesIn(nd)[y] \in Int
                     /\ (y \in K => SelvesIn(to)[y] = 0)
                     /\ (y \notin K => SelvesIn(to)[y] = SelvesIn(nd)[y])
  BY <1>7 DEF SelvesIn
<1>9. \A l \in ls : l.bytes \in Nat
  OBVIOUS
<1>4. ASSUME NEW x \in K
      PROVE  /\ to[x].bytes = BytesOf(LeavesBelow(to, all, x)) + SumOver(SelvesIn(to), Below(to, x))
             /\ to[x].files = Cardinality({l \in LeavesBelow(to, all, x) : ~l.err})
             /\ to[x].dirs = Cardinality(Below(to, x)) - 1
  <2>1. Below(to, x) = {x}
    BY <1>1
  <2>2. LeavesBelow(to, all, x) = {} /\ {l \in LeavesBelow(to, all, x) : ~l.err} = {}
    BY <2>1 DEF LeavesBelow
  <2>3. Cardinality({x}) = 1 /\ IsFiniteSet({x})
    BY FS_Singleton
  <2>4. SumOver(SelvesIn(to), {x}) = 0
    <3>1. \A y \in {x} : SelvesIn(to)[y] \in Int
      BY <1>8
    <3>2. Pick({x}) = x /\ {x} \ {x} = {} /\ SelvesIn(to)[x] = 0
      BY <1>8 DEF Pick
    <3>3. SumOver(SelvesIn(to), {x}) = SelvesIn(to)[x] + SumOver(SelvesIn(to), {})
      BY <2>3, <3>1, <3>2, SumStep
    <3>4. SumOver(SelvesIn(to), {}) = 0
      BY FS_EmptySet, SumStep
    <3> QED
      BY <3>2, <3>3, <3>4
  <2>5. to[x].bytes = 0 /\ to[x].files = 0 /\ to[x].dirs = 0
    BY DEF Grown
  <2>6. /\ BytesOf(LeavesBelow(to, all, x)) = 0 /\ SumOver(SelvesIn(to), Below(to, x)) = 0
        /\ Cardinality({l \in LeavesBelow(to, all, x) : ~l.err}) = 0
        /\ Cardinality(Below(to, x)) = 1
    <3> HIDE DEF all
    <3> QED
      BY <1>3, <2>1, <2>2, <2>3, <2>4
  <2> HIDE DEF all
  <2> QED
    BY ONLY <2>5, <2>6
<1>5. ASSUME NEW x \in Dirs \ K, nd[x].live
      PROVE  /\ to[x].bytes = BytesOf(LeavesBelow(to, all, x)) + SumOver(SelvesIn(to), Below(to, x))
             /\ to[x].files = Cardinality({l \in LeavesBelow(to, all, x) : ~l.err})
             /\ to[x].dirs = Cardinality(Below(to, x)) - 1
  <2> DEFINE up == x \in Upwards(nd, d)
             below == Below(nd, x)
             here == LeavesBelow(nd, ls, x)
             sum == SumOver(SelvesIn(nd), below)
  <2>1. /\ nd[x].bytes = BytesOf(here) + sum
        /\ nd[x].files = Cardinality({l \in here : ~l.err})
        /\ nd[x].dirs = Cardinality(below) - 1
    BY <1>5 DEF TotalsStand
  <2>2. /\ BytesOf(here) \in Nat /\ sum \in Nat
        /\ Cardinality({l \in here : ~l.err}) \in Nat /\ Cardinality(below) \in Nat
        /\ here \subseteq ls /\ below \subseteq Dirs /\ IsFiniteSet(here) /\ IsFiniteSet(below)
    <3>1. \A y \in Dirs : nd[y].self \in Nat
      BY <1>7
    <3> QED
      BY ONLY <1>9, <3>1, IsFiniteSet(ls), x \in Dirs, CountsAre
  <2>3. Below(to, x) = below \cup (IF up THEN K ELSE {})
    BY <1>1, <1>5
  <2>4. below \cap K = {} /\ (d \in below <=> up) /\ d \notin K
    BY DEF Below
  <2>5. LeavesBelow(to, all, x) = here \cup (IF up THEN new ELSE {})
    BY <2>3, <2>4 DEF LeavesBelow
  <2>6. SumOver(SelvesIn(to), Below(to, x)) = sum
    <3> DEFINE k == IF up THEN K ELSE {}
    <3>1. IsFiniteSet(k) /\ below \cap k = {} /\ k \subseteq K /\ Below(to, x) = below \cup k
      BY <1>2, <2>3, <2>4, FS_EmptySet
    <3>2. \A y \in below \cup k : SelvesIn(to)[y] \in Int
      BY <1>8, <2>2, <3>1
    <3>3. SumOver(SelvesIn(to), below \cup k) = SumOver(SelvesIn(to), below) + SumOver(SelvesIn(to), k)
      <4> HIDE DEF below, k
      <4> QED
        BY <2>2, <3>1, <3>2, SumUnion
    <3>4. SumOver(SelvesIn(to), below) = sum
      <4>1. \A y \in below : SelvesIn(nd)[y] \in Int /\ SelvesIn(to)[y] = SelvesIn(nd)[y]
        BY <1>8, <2>2, <2>4
      <4> HIDE DEF below
      <4> QED
        BY <2>2, <4>1, SumEqual
    <3>5. SumOver(SelvesIn(to), k) = 0
      <4> DEFINE F == {S \in SUBSET k : SumOver(SelvesIn(to), S) = 0}
      <4>1. {} \in F
        <5>1. SumOver(SelvesIn(to), {}) = 0
          BY FS_EmptySet, SumStep
        <5> QED
          BY <5>1
      <4>2. ASSUME NEW S \in SUBSET k, NEW y \in k \ S, S \in F
            PROVE  S \cup {y} \in F
        <5>1. IsFiniteSet(S) /\ (\A z \in S : SelvesIn(to)[z] \in Int) /\ y \notin S
              /\ SelvesIn(to)[y] = 0
          <6>1. IsFiniteSet(S)
            BY <3>1, FS_Subset
          <6> QED
            BY <1>8, <3>1, <6>1
        <5>2. SumOver(SelvesIn(to), S \cup {y}) = SumOver(SelvesIn(to), S) + SelvesIn(to)[y]
          <6> HIDE DEF k, F
          <6>1. SelvesIn(to)[y] \in Int
            BY <5>1
          <6> QED
            BY <5>1, <6>1, SumAdd
        <5>3. SumOver(SelvesIn(to), S) = 0
          BY <4>2
        <5> QED
          BY <5>1, <5>2, <5>3
      <4>3. SUBSET k \subseteq F
        <5>1. \A S \in SUBSET k : \A y \in k \ S : S \in F => S \cup {y} \in F
          BY <4>2
        <5>2. IsFiniteSet(k)
          BY <3>1
        <5> HIDE DEF F, k
        <5> QED
          BY ONLY <4>1, <5>1, <5>2, SetInduction
      <4> QED
        BY <4>3
    <3> HIDE DEF k, below, sum
    <3>6. sum \in Int
      BY <2>2
    <3> QED
      BY <3>1, <3>3, <3>4, <3>5, <3>6
  <2>7. /\ BytesOf(LeavesBelow(to, all, x)) = IF up THEN BytesOf(here) + b ELSE BytesOf(here)
        /\ b \in Nat
    <3>1. here \cap new = {}
      BY <2>2
    <3>2. \A l \in here \cup new : l.bytes \in Nat
      BY <2>2
    <3>3. BytesOf(here \cup new) = BytesOf(here) + BytesOf(new) /\ BytesOf(new) \in Nat
      <4> HIDE DEF here
      <4> QED
        BY <2>2, <3>1, <3>2, BytesUnion
    <3> HIDE DEF here
    <3> QED
      BY <2>5, <3>3
  <2>8. /\ Cardinality({l \in LeavesBelow(to, all, x) : ~l.err}) =
              IF up THEN Cardinality({l \in here : ~l.err}) + f
              ELSE Cardinality({l \in here : ~l.err})
    <3> DEFINE A == {l \in here : ~l.err}
               B == {l \in new : ~l.err}
    <3>1. IsFiniteSet(A) /\ IsFiniteSet(B) /\ A \cap B = {}
      BY <2>2, FS_Subset
    <3>2. Cardinality(A \cup B) = Cardinality(A) + Cardinality(B)
      <4>1. Cardinality(A \cup B) = Cardinality(A) + Cardinality(B) - Cardinality(A \cap B)
        <5> HIDE DEF A, B
        <5> QED
          BY <3>1, FS_Union
      <4>2. Cardinality(A) \in Nat /\ Cardinality(B) \in Nat
        <5> HIDE DEF A, B
        <5> QED
          BY <3>1, FS_CardinalityType
      <4>3. Cardinality(A \cap B) = 0
        BY <1>3, <3>1
      <4> HIDE DEF A, B
      <4> QED
        BY ONLY <4>1, <4>2, <4>3
    <3>3. {l \in LeavesBelow(to, all, x) : ~l.err} = IF up THEN A \cup B ELSE A
      BY <2>5
    <3> HIDE DEF A
    <3> QED
      BY <3>2, <3>3 DEF A
  <2>9. Cardinality(Below(to, x)) = IF up THEN Cardinality(below) + Cardinality(K)
                                    ELSE Cardinality(below)
    <3>1. Cardinality(below \cup K) = Cardinality(below) + Cardinality(K) - Cardinality(below \cap K)
      <4> HIDE DEF below
      <4> QED
        BY <1>2, <2>2, FS_Union
    <3>2. Cardinality(K) \in Nat /\ Cardinality(below \cap K) = 0
      BY <1>2, <1>3, <2>4, FS_CardinalityType
    <3>3. Cardinality(below \cup K) = Cardinality(below) + Cardinality(K)
      <4> HIDE DEF below
      <4> QED
        BY ONLY <2>2, <3>1, <3>2
    <3>4. IF up THEN Below(to, x) = below \cup K ELSE Below(to, x) = below
      BY <2>3
    <3> HIDE DEF below, up
    <3> QED
      BY ONLY <3>3, <3>4
  <2>10. IF up THEN to[x].bytes = nd[x].bytes + b /\ to[x].files = nd[x].files + f
                    /\ to[x].dirs = nd[x].dirs + Cardinality(K)
         ELSE to[x].bytes = nd[x].bytes /\ to[x].files = nd[x].files
              /\ to[x].dirs = nd[x].dirs
    BY DEF Grown
  <2>11. Cardinality(K) \in Nat /\ f \in Nat
    <3>1. IsFiniteSet({l \in new : ~l.err})
      BY FS_Subset
    <3> QED
      BY <1>2, <3>1, FS_CardinalityType
  <2>12. to[x].bytes = BytesOf(LeavesBelow(to, all, x)) + SumOver(SelvesIn(to), Below(to, x))
    <3> HIDE DEF up, below, here, sum, b, all, f
    <3> QED
      BY ONLY <2>1, <2>2, <2>6, <2>7, <2>10
  <2>13. to[x].files = Cardinality({l \in LeavesBelow(to, all, x) : ~l.err})
    <3> HIDE DEF up, below, here, sum, b, all, f
    <3> QED
      BY ONLY <2>1, <2>8, <2>10
  <2>14. to[x].dirs = Cardinality(Below(to, x)) - 1
    <3> HIDE DEF up, below, here, sum, b, all, f
    <3> QED
      BY ONLY <2>1, <2>2, <2>9, <2>10, <2>11
  <2> QED
    BY <2>12, <2>13, <2>14
<1>6. \A x \in Dirs \ K : to[x].live => nd[x].live
  BY DEF Grown
<1> QED
  BY <1>4, <1>5, <1>6 DEF TotalsStand

-----------------------------------------------------------------------------
(***************************************************************************)
(* A walk: the invariant                                                   *)
(***************************************************************************)

\* What the entries of a file system w are to a scan of it.
Names(w, d) == DOMAIN w.entries[d]
Goal(w, d, n) == w.entries[d][n].to
Enters(w, d, n) == Goal(w, d, n) \in Dirs /\ (w.follow \/ ~w.entries[d][n].alias)
IdOf(w, d, n) == IF w.entries[d][n].alias /\ ~w.follow THEN ALink ELSE Goal(w, d, n)
Multiple(w, d, n) ==
    IF w.follow THEN TRUE ELSE ~w.entries[d][n].alias /\ w.links[Goal(w, d, n)] > 1

FrameRecord(f) == [pc |-> f.pc, path |-> f.path, fstype |-> f.fstype, unread |-> f.unread,
                   batch |-> f.batch, plans |-> f.plans, todo |-> f.todo,
                   caller |-> f.caller, spawned |-> f.spawned]
NodeRecord(a) == [live |-> a.live, parent |-> a.parent, name |-> a.name, self |-> a.self,
                  bytes |-> a.bytes, files |-> a.files, dirs |-> a.dirs, err |-> a.err]
LeafRecord(l) == [dir |-> l.dir, name |-> l.name, id |-> l.id, bytes |-> l.bytes,
                  link |-> l.link, err |-> l.err]
EdgeRecord(e) == [from |-> e.from, name |-> e.name, to |-> e.to]

\* One plan for one name, of a kind the entry can have.
PlansStand(w, d, plans) ==
    /\ IsFiniteSet(plans)
    /\ \A p \in plans :
        /\ p.name \in Names(w, d) /\ p.bytes \in Nat
        /\ p.kind \in {"file", "error", "dir", "seen"}
        /\ p.kind \in {"dir", "seen"} => Enters(w, d, p.name)
        /\ p.kind = "file" => ~Enters(w, d, p.name)
        /\ p.kind = "error" => p.bytes = 0
    /\ \A p, q \in plans : p.name = q.name => p = q

\* The names of a directory are read, classified and recorded in turn.
FrameStands(w, d, f) ==
    /\ f = FrameRecord(f)
    /\ f.pc \in {"idle", "begin", "open", "read", "classify", "children", "call", "done"}
    /\ f.caller \in Dirs \cup {NoDir}
    /\ f.unread \subseteq Names(w, d) /\ f.batch \subseteq Names(w, d)
    /\ f.todo \subseteq Names(w, d) /\ f.batch \cap f.unread = {}
    /\ PlansStand(w, d, f.plans)
    /\ \A p \in f.plans : p.name \notin f.unread /\ p.name \notin f.batch
    /\ f.pc # "classify" => f.batch = {} /\ f.plans = {}
    /\ f.pc \notin {"children", "call"} => f.todo = {}
FramesStand(w, fr) ==
    /\ fr = [d \in Dirs |-> fr[d]]
    /\ \A d \in Dirs : FrameStands(w, d, fr[d])

\* Every directory of the tree but the root is there for an entry that leads
\* to it.
TreeStands(w, nd) ==
    /\ nd = [d \in Dirs |-> nd[d]] /\ Tree(nd)
    /\ \A d \in Dirs : /\ nd[d] = NodeRecord(nd[d]) /\ nd[d].live \in BOOLEAN
                       /\ ~nd[d].live => nd[d] = NoNode
    /\ nd[w.root].live /\ nd[w.root].parent = NoDir
    /\ \A d \in Dirs : nd[d].live /\ d # w.root =>
          /\ nd[d].parent \in Dirs /\ nd[d].name \in Names(w, nd[d].parent)
          /\ Goal(w, nd[d].parent, nd[d].name) = d /\ Enters(w, nd[d].parent, nd[d].name)

\* The other entries of the tree, one for a name.
LeavesStand(w, nd, ls) ==
    /\ IsFiniteSet(ls)
    /\ \A l \in ls :
        /\ l = LeafRecord(l) /\ l.dir \in Dirs /\ nd[l.dir].live
        /\ l.name \in Names(w, l.dir) /\ l.id = IdOf(w, l.dir, l.name)
        /\ l.bytes \in Nat /\ l.err \in BOOLEAN
        /\ IF l.err THEN l.bytes = 0 ELSE ~Enters(w, l.dir, l.name)
    /\ \A l, o \in ls : l.dir = o.dir /\ l.name = o.name => l = o

\* A name that is in the tree is neither to be read nor planned.
Behind(f, n) ==
    /\ f.pc \notin {"idle", "begin", "open"}
    /\ n \notin f.unread /\ n \notin f.batch
    /\ \A p \in f.plans : p.name # n
RecordedOnce(w, fr, nd, ls) ==
    /\ \A l \in ls : Behind(fr[l.dir], l.name)
    /\ \A d \in Dirs : nd[d].live /\ d # w.root => Behind(fr[nd[d].parent], nd[d].name)

\* Who is scanned was recorded, and its own size is counted as it begins.
Started(w, fr, nd) ==
    /\ fr[w.root].pc # "idle"
    /\ \A d \in Dirs : /\ ~nd[d].live => fr[d].pc = "idle"
                       /\ fr[d].pc \in {"idle", "begin"} => nd[d].self = 0

\* Whose scan is under way is waited for by its parent's.
Active(f) == f.pc \notin {"idle", "done"}
Called(w, fr, nd) ==
    \A d \in Dirs : Active(fr[d]) /\ d # w.root =>
        fr[d].caller = nd[d].parent /\ fr[nd[d].parent].pc \in {"children", "call"}

\* Whom a scan is still to enter is there and not begun.
Waited(w, fr, nd) ==
    \A d \in Dirs : \A n \in fr[d].todo :
        /\ Goal(w, d, n) \in Dirs /\ nd[Goal(w, d, n)].live
        /\ nd[Goal(w, d, n)].parent = d /\ nd[Goal(w, d, n)].name = n
        /\ fr[Goal(w, d, n)].pc = "idle"

\* What is planned to be entered is entered for that plan alone: the claims say
\* so where aliases are followed, and where they are not the one path of a
\* directory.
Claimed(w, fr, nd, cl) ==
    /\ cl \subseteq Dirs
    /\ \A d \in Dirs : nd[d].live =>
          IF w.follow THEN d \in cl ELSE Len(w.home[w.root]) <= Len(w.home[d])
    /\ \A d \in Dirs : \A p \in fr[d].plans : p.kind = "dir" =>
        /\ ~nd[Goal(w, d, p.name)].live
        /\ w.follow => Goal(w, d, p.name) \in cl
    /\ \A d, e \in Dirs : \A p \in fr[d].plans, q \in fr[e].plans :
        p.kind = "dir" /\ q.kind = "dir" /\ Goal(w, d, p.name) = Goal(w, e, q.name)
            => d = e /\ p = q

\* An edge is an entry of the tree that leads to a directory.
EdgesStand(w, nd, ed) ==
    /\ IsFiniteSet(ed)
    /\ \A e \in ed :
        /\ e = EdgeRecord(e) /\ e.from \in Dirs /\ nd[e.from].live
        /\ e.name \in Names(w, e.from) /\ e.to = Goal(w, e.from, e.name)
        /\ Enters(w, e.from, e.name)

\* The bytes of a file that may be met again are planned or recorded once, and
\* that they are is known.
Weighs(w, fr, ls, d, n) ==
    /\ Multiple(w, d, n)
    /\ \/ \E l \in ls : l.dir = d /\ l.name = n /\ l.bytes > 0
       \/ \E p \in fr[d].plans : p.name = n /\ p.bytes > 0 /\ p.kind = "file"
Weighed(w, fr, ls, co) ==
    \A d \in Dirs : \A n \in Names(w, d) : Weighs(w, fr, ls, d, n) =>
        /\ IdOf(w, d, n) \in co
        /\ \A e \in Dirs : \A m \in Names(w, e) :
              Weighs(w, fr, ls, e, m) /\ IdOf(w, e, m) = IdOf(w, d, n) => d = e /\ n = m

\* The files that are planned or recorded have been counted.
Met(fr, ls) ==
    {<<l.dir, l.name>> : l \in {o \in ls : ~o.err}}
    \cup UNION {{<<d, p.name>> : p \in {q \in fr[d].plans : q.kind = "file"}} : d \in Dirs}
MetCounted(fr, ls, t) == IsFiniteSet(Met(fr, ls)) /\ Cardinality(Met(fr, ls)) <= t.files

WalkStands(w, fr, nd, ls, cl, ed, co) ==
    /\ FramesStand(w, fr) /\ TreeStands(w, nd) /\ LeavesStand(w, nd, ls)
    /\ RecordedOnce(w, fr, nd, ls) /\ Started(w, fr, nd) /\ Called(w, fr, nd)
    /\ Waited(w, fr, nd) /\ Claimed(w, fr, nd, cl) /\ EdgesStand(w, nd, ed)
    /\ Weighed(w, fr, ls, co) /\ TotalsStand(nd, ls)

-----------------------------------------------------------------------------
(***************************************************************************)
(* A walk: steps of one scan that record nothing                           *)
(***************************************************************************)

\* The scan of d goes on, with nothing planned; what it still has to read has
\* not been recorded.
GoesOn(w, fr, to, nd, d) ==
    /\ to = [x \in Dirs |-> to[x]] /\ \A x \in Dirs \ {d} : to[x] = fr[x]
    /\ FrameStands(w, d, to[d]) /\ fr[d].plans = {} /\ to[d].plans = {}
    /\ Active(fr[d]) /\ to[d].pc \notin {"idle", "begin"}
    /\ to[d].caller = fr[d].caller /\ to[d].todo \subseteq fr[d].todo
    /\ to[d].pc = "open" => fr[d].pc = "begin"
    /\ \/ fr[d].pc \in {"begin", "open"}
       \/ to[d].unread \subseteq fr[d].unread /\ to[d].batch \subseteq fr[d].unread
    /\ \/ to[d].pc \in {"children", "call"}
       \/ \A x \in Dirs : x # w.root /\ nd[x].parent = d => ~Active(fr[x])

\* Nothing in the tree moves, and only the size of d becomes known.
StaysIn(nd, now, d) ==
    \A x \in Dirs : /\ now[x].live = nd[x].live /\ now[x].parent = nd[x].parent
                    /\ now[x].name = nd[x].name /\ (x # d => now[x].self = nd[x].self)

\* A step of one directory that enters nothing and adds no leaf keeps the walk.
LEMMA GoesOnKeeps ==
    ASSUME NEW w, NEW fr, NEW nd, NEW ls, NEW cl, NEW ed, NEW co,
           WalkStands(w, fr, nd, ls, cl, ed, co), w.root \in Dirs,
           NEW d \in Dirs, NEW to, GoesOn(w, fr, to, nd, d),
           NEW now, StaysIn(nd, now, d), TreeStands(w, now), TotalsStand(now, ls)
    PROVE  WalkStands(w, to, now, ls, cl, ed, co)
<1>1. FramesStand(w, to)
  BY DEF FramesStand, GoesOn, WalkStands
<1>2. LeavesStand(w, now, ls)
  BY DEF LeavesStand, WalkStands, StaysIn
<1>3. EdgesStand(w, now, ed)
  BY DEF EdgesStand, WalkStands, StaysIn
<1>4. nd[d].live /\ fr[d].pc # "idle"
  BY DEF GoesOn, Active, WalkStands, Started
<1>5. ASSUME NEW n, Behind(fr[d], n)
      PROVE  Behind(to[d], n)
  BY <1>5 DEF Behind, GoesOn
<1>6. RecordedOnce(w, to, now, ls)
  <2>1. \A l \in ls : Behind(to[l.dir], l.name)
    BY <1>5 DEF WalkStands, RecordedOnce, GoesOn, LeavesStand
  <2>2. ASSUME NEW x \in Dirs, now[x].live, x # w.root
        PROVE  Behind(to[now[x].parent], now[x].name)
    <3>1. Behind(fr[nd[x].parent], nd[x].name) /\ nd[x].parent \in Dirs
      BY <2>2 DEF WalkStands, RecordedOnce, StaysIn, TreeStands
    <3>2. now[x].parent = nd[x].parent /\ now[x].name = nd[x].name
      BY DEF StaysIn
    <3> QED
      BY <1>5, <3>1, <3>2 DEF GoesOn
  <2> QED
    BY <2>1, <2>2 DEF RecordedOnce
<1>7. Started(w, to, now)
  BY <1>4 DEF WalkStands, Started, GoesOn, StaysIn
<1>8. Called(w, to, now)
  <2> SUFFICES ASSUME NEW x \in Dirs, Active(to[x]), x # w.root
               PROVE  to[x].caller = now[x].parent /\ to[now[x].parent].pc \in {"children", "call"}
    BY DEF Called
  <2>1. Active(fr[x]) /\ to[x].caller = fr[x].caller /\ now[x].parent = nd[x].parent
    BY DEF GoesOn, StaysIn
  <2>2. fr[x].caller = nd[x].parent /\ fr[nd[x].parent].pc \in {"children", "call"}
    BY <2>1 DEF WalkStands, Called
  <2>3. nd[x].parent \in Dirs
    BY <2>1 DEF Active, WalkStands, Started, TreeStands
  <2>4. CASE nd[x].parent = d
    BY <2>1, <2>2, <2>4 DEF GoesOn
  <2>5. CASE nd[x].parent # d
    BY <2>1, <2>2, <2>3, <2>5 DEF GoesOn
  <2> QED
    BY <2>4, <2>5
<1>9. Waited(w, to, now)
  <2> SUFFICES ASSUME NEW x \in Dirs, NEW n \in to[x].todo
               PROVE  /\ Goal(w, x, n) \in Dirs /\ now[Goal(w, x, n)].live
                      /\ now[Goal(w, x, n)].parent = x /\ now[Goal(w, x, n)].name = n
                      /\ to[Goal(w, x, n)].pc = "idle"
    BY DEF Waited
  <2>1. n \in fr[x].todo
    BY DEF GoesOn
  <2>2. /\ Goal(w, x, n) \in Dirs /\ nd[Goal(w, x, n)].live
        /\ nd[Goal(w, x, n)].parent = x /\ nd[Goal(w, x, n)].name = n
        /\ fr[Goal(w, x, n)].pc = "idle"
    BY <2>1 DEF WalkStands, Waited
  <2>3. Goal(w, x, n) # d
    BY <1>4, <2>2
  <2> QED
    BY <2>2, <2>3 DEF GoesOn, StaysIn
<1>10. \A x \in Dirs : to[x].plans = fr[x].plans
  BY DEF GoesOn
<1>11. Claimed(w, to, now, cl)
  <2>1. \A x \in Dirs : \A p \in fr[x].plans : p.kind = "dir" => Goal(w, x, p.name) \in Dirs
    BY DEF WalkStands, FramesStand, FrameStands, PlansStand, Enters
  <2>2. \A x \in Dirs : now[x].live <=> nd[x].live
    BY DEF StaysIn
  <2>3. \A x \in Dirs : \A p \in fr[x].plans : p.kind = "dir" =>
            ~now[Goal(w, x, p.name)].live /\ (w.follow => Goal(w, x, p.name) \in cl)
    BY <2>1, <2>2 DEF WalkStands, Claimed
  <2>4. \A x \in Dirs : now[x].live =>
            IF w.follow THEN x \in cl ELSE Len(w.home[w.root]) <= Len(w.home[x])
    BY <2>2 DEF WalkStands, Claimed
  <2> QED
    BY <1>10, <2>3, <2>4 DEF WalkStands, Claimed
<1>12. Weighed(w, to, ls, co)
  <2>1. \A x \in Dirs : \A n : Weighs(w, to, ls, x, n) <=> Weighs(w, fr, ls, x, n)
    BY <1>10 DEF Weighs
  <2> QED
    BY <2>1 DEF WalkStands, Weighed
<1> QED
  BY <1>1, <1>2, <1>3, <1>6, <1>7, <1>8, <1>9, <1>11, <1>12 DEF WalkStands

-----------------------------------------------------------------------------
(***************************************************************************)
(* A walk: an entry is classified                                          *)
(***************************************************************************)

\* A path and a name below it.
Appended(s, a) == Append(s, a)

\* What was appended can be told from what it was appended to.
LEMMA AppendedIs ==
    ASSUME NEW s \in Seq(Int), NEW t \in Seq(Int), NEW a, NEW b, Appended(s, a) = Appended(t, b)
    PROVE  s = t /\ a = b
<1>0. ASSUME NEW r \in Seq(Int), NEW c
      PROVE  /\ Len(Appended(r, c)) = Len(r) + 1 /\ Appended(r, c)[Len(r) + 1] = c
             /\ \A i \in 1..Len(r) : Appended(r, c)[i] = r[i]
  BY DEF Appended
<1>1. /\ Len(Appended(s, a)) = Len(s) + 1 /\ Appended(s, a)[Len(s) + 1] = a
      /\ Len(Appended(t, b)) = Len(t) + 1 /\ Appended(t, b)[Len(t) + 1] = b
      /\ \A i \in 1..Len(s) : Appended(s, a)[i] = s[i]
      /\ \A i \in 1..Len(t) : Appended(t, b)[i] = t[i]
  BY ONLY <1>0, s \in Seq(Int), t \in Seq(Int)
<1>2. Len(s) = Len(t) /\ Len(s) \in Nat
  BY <1>1
<1>3. a = b /\ \A i \in 1..Len(s) : s[i] = t[i]
  BY <1>1, <1>2
<1> QED
  BY <1>2, <1>3

\* The one path of a directory tells where it is, unless aliases are followed.
LEMMA OneWayIn ==
    ASSUME NEW w \in Worlds, ~w.follow, NEW d \in Dirs, NEW e \in Dirs,
           NEW n \in Names(w, d), NEW m \in Names(w, e),
           Enters(w, d, n), Enters(w, e, m), Goal(w, d, n) = Goal(w, e, m)
    PROVE  /\ d = e /\ n = m
           /\ Len(w.home[Goal(w, d, n)]) = Len(w.home[d]) + 1 /\ Len(w.home[d]) \in Nat
<1>1. /\ w.home[d] \in Seq(Int) /\ w.home[e] \in Seq(Int)
      /\ d # e => w.home[d] # w.home[e]
  BY ScanAssumption
<1>2. w.home[Goal(w, d, n)] = Appended(w.home[d], n)
  BY ScanAssumption DEF Enters, Names, Goal, Appended
<1>3. w.home[Goal(w, e, m)] = Appended(w.home[e], m)
  BY ScanAssumption DEF Enters, Names, Goal, Appended
<1>4. Appended(w.home[d], n) = Appended(w.home[e], m)
  BY <1>2, <1>3
<1>5. w.home[d] = w.home[e] /\ n = m
  BY ONLY <1>1, <1>4, AppendedIs
<1>6. Len(w.home[Goal(w, d, n)]) = Len(w.home[d]) + 1 /\ Len(w.home[d]) \in Nat
  BY <1>1, <1>2 DEF Appended
<1> QED
  BY <1>1, <1>5, <1>6

\* One name of the batch of d gets a plan, or is left out.
Classifies(w, fr, to, nd, cl, now, co, known, d, n, P) ==
    /\ to = [x \in Dirs |-> to[x]] /\ \A x \in Dirs \ {d} : to[x] = fr[x]
    /\ fr[d].pc = "classify" /\ n \in fr[d].batch
    /\ to[d] = [fr[d] EXCEPT !.batch = @ \ {n}, !.plans = @ \cup P]
    /\ cl \subseteq now /\ now \subseteq Dirs /\ co \subseteq known
    /\ IsFiniteSet(P) /\ (\A p, q \in P : p = q)
    /\ \A p \in P :
        /\ p.name = n /\ p.bytes \in Nat
        /\ p.kind \in {"file", "error", "dir", "seen"}
        /\ (p.kind \in {"dir", "seen"} => Enters(w, d, n))
        /\ (p.kind = "dir" /\ w.follow => Goal(w, d, n) \in now /\ Goal(w, d, n) \notin cl)
        /\ (p.kind = "error" => p.bytes = 0)
        /\ (p.kind = "file" => ~Enters(w, d, n))
        /\ (p.kind = "file" /\ p.bytes > 0 /\ Multiple(w, d, n) =>
                IdOf(w, d, n) \in known /\ IdOf(w, d, n) \notin co)

\* So does the classification of one entry.
LEMMA ClassifiesKeeps ==
    ASSUME NEW w \in Worlds, NEW fr, NEW nd, NEW ls, NEW cl, NEW ed, NEW co,
           WalkStands(w, fr, nd, ls, cl, ed, co),
           NEW d \in Dirs, NEW to, NEW now, NEW known, NEW n, NEW P,
           Classifies(w, fr, to, nd, cl, now, co, known, d, n, P)
    PROVE  WalkStands(w, to, nd, ls, now, ed, known)
<1> PICK f : f = fr[d]
  OBVIOUS
<1> PICK g : g = to[d]
  OBVIOUS
<1>1. /\ FrameStands(w, d, f) /\ f.pc = "classify" /\ n \in f.batch /\ f.todo = {}
      /\ g = [f EXCEPT !.batch = @ \ {n}, !.plans = @ \cup P]
      /\ \A x \in Dirs : to[x] = IF x = d THEN g ELSE fr[x]
  BY DEF Classifies, WalkStands, FramesStand, FrameStands
<1>2. /\ g = FrameRecord(g) /\ g.pc = "classify" /\ g.caller = f.caller
      /\ g.unread = f.unread /\ g.batch = f.batch \ {n} /\ g.todo = {}
      /\ g.plans = f.plans \cup P
  BY <1>1 DEF FrameStands, FrameRecord
<1>3. n \in Names(w, d) /\ n \notin f.unread /\ \A p \in f.plans : p.name # n
  BY <1>1 DEF FrameStands
<1>4. \A p \in P : /\ p.name = n /\ p.bytes \in Nat
                   /\ p.kind \in {"file", "error", "dir", "seen"}
                   /\ p.kind \in {"dir", "seen"} => Enters(w, d, n)
                   /\ p.kind = "file" => ~Enters(w, d, n)
                   /\ p.kind = "error" => p.bytes = 0
  BY DEF Classifies
<1>5. \A p, q \in P : p = q
  BY DEF Classifies
<1>6. PlansStand(w, d, g.plans)
  <2>1. IsFiniteSet(f.plans \cup P)
    <3>1. IsFiniteSet(f.plans)
      BY <1>1 DEF FrameStands, PlansStand
    <3>2. IsFiniteSet(P)
      BY FS_EmptySet, FS_Singleton DEF Classifies
    <3> QED
      BY <3>1, <3>2, FS_Union
  <2>2. \A p, q \in f.plans \cup P : p.name = q.name => p = q
    BY <1>1, <1>3, <1>4, <1>5 DEF FrameStands, PlansStand
  <2>3. ASSUME NEW p \in f.plans \cup P
        PROVE  /\ p.name \in Names(w, d) /\ p.bytes \in Nat
               /\ p.kind \in {"file", "error", "dir", "seen"}
               /\ p.kind \in {"dir", "seen"} => Enters(w, d, p.name)
               /\ p.kind = "file" => ~Enters(w, d, p.name)
               /\ p.kind = "error" => p.bytes = 0
    <3>1. CASE p \in P
      BY <1>3, <1>4, <3>1
    <3>2. CASE p \in f.plans
      BY <1>1, <3>2 DEF FrameStands, PlansStand
    <3> QED
      BY <3>1, <3>2
  <2> QED
    BY <1>2, <2>1, <2>2, <2>3 DEF PlansStand
<1>7. FrameStands(w, d, g)
  BY <1>1, <1>2, <1>3, <1>4, <1>6 DEF FrameStands
<1>8. FramesStand(w, to)
  BY <1>1, <1>7 DEF FramesStand, Classifies, WalkStands
<1>9. ASSUME NEW m, Behind(f, m)
      PROVE  Behind(g, m)
  BY <1>1, <1>2, <1>4, <1>9 DEF Behind
<1>10. RecordedOnce(w, to, nd, ls)
  <2>1. \A x \in Dirs : \A m : Behind(fr[x], m) => Behind(to[x], m)
    BY <1>1, <1>9
  <2>2. \A l \in ls : l.dir \in Dirs
    BY DEF WalkStands, LeavesStand
  <2>3. \A x \in Dirs : nd[x].live /\ x # w.root => nd[x].parent \in Dirs
    BY DEF WalkStands, TreeStands
  <2> QED
    BY <2>1, <2>2, <2>3 DEF WalkStands, RecordedOnce
<1>11. \A x \in Dirs : to[x].pc = fr[x].pc /\ to[x].caller = fr[x].caller /\ to[x].todo = fr[x].todo
  BY <1>1, <1>2
<1>12. w.root \in Dirs
  BY ScanAssumption
<1>13. Started(w, to, nd)
  BY <1>11, <1>12 DEF WalkStands, Started
<1>14. Called(w, to, nd)
  <2>1. \A x \in Dirs : Active(fr[x]) => nd[x].live
    BY DEF WalkStands, Started, Active
  <2>2. \A x \in Dirs : nd[x].live /\ x # w.root => nd[x].parent \in Dirs
    BY DEF WalkStands, TreeStands
  <2> QED
    BY <1>11, <2>1, <2>2 DEF WalkStands, Called, Active
<1>15. Waited(w, to, nd)
  BY <1>11 DEF WalkStands, Waited
<1>16. nd[d].live
  BY <1>1 DEF WalkStands, Started
<1>17. ASSUME NEW p \in P, p.kind = "dir"
       PROVE  /\ Enters(w, d, n) /\ ~nd[Goal(w, d, n)].live
              /\ w.follow => Goal(w, d, n) \in now
              /\ \A e \in Dirs : \A q \in fr[e].plans :
                    q.kind = "dir" => Goal(w, e, q.name) # Goal(w, d, n)
  <2>1. Enters(w, d, n) /\ (w.follow => Goal(w, d, n) \in now \ cl) /\ Goal(w, d, n) \in Dirs
    <3>1. Enters(w, d, n) /\ (w.follow => Goal(w, d, n) \in now /\ Goal(w, d, n) \notin cl)
      BY <1>17 DEF Classifies
    <3> QED
      BY <3>1 DEF Enters
  <2>2. CASE w.follow
    BY <2>1, <2>2 DEF WalkStands, Claimed
  <2>3. CASE ~w.follow
    <3>1. ASSUME nd[Goal(w, d, n)].live
          PROVE  FALSE
      <4> DEFINE c == Goal(w, d, n)
      <4>1. Len(w.home[c]) = Len(w.home[d]) + 1 /\ Len(w.home[d]) \in Nat
        BY <1>3, <2>1, <2>3, OneWayIn
      <4>2. Len(w.home[w.root]) <= Len(w.home[d])
        BY <1>16, <2>3 DEF WalkStands, Claimed
      <4>3. c # w.root
        <5>1. Len(w.home[w.root]) \in Nat
          BY <1>12, ScanAssumption
        <5> QED
          BY <4>1, <4>2, <5>1
      <4>4. /\ nd[c].parent \in Dirs /\ nd[c].name \in Names(w, nd[c].parent)
            /\ Goal(w, nd[c].parent, nd[c].name) = c /\ Enters(w, nd[c].parent, nd[c].name)
            /\ Behind(fr[nd[c].parent], nd[c].name)
        BY <2>1, <3>1, <4>3 DEF WalkStands, TreeStands, RecordedOnce
      <4>5. nd[c].parent = d /\ nd[c].name = n
        BY <1>3, <2>1, <2>3, <4>4, OneWayIn
      <4> QED
        BY <1>1, <4>4, <4>5 DEF Behind
    <3>2. ASSUME NEW e \in Dirs, NEW q \in fr[e].plans, q.kind = "dir",
                 Goal(w, e, q.name) = Goal(w, d, n)
          PROVE  FALSE
      <4>1. q.name \in Names(w, e) /\ Enters(w, e, q.name)
        BY <3>2 DEF WalkStands, FramesStand, FrameStands, PlansStand
      <4>2. e = d /\ q.name = n
        BY <1>3, <2>1, <2>3, <3>2, <4>1, OneWayIn
      <4> QED
        BY <1>3, <3>2, <4>2
    <3> QED
      BY <2>1, <2>3, <3>1, <3>2
  <2> QED
    BY <2>2, <2>3
<1>18. Claimed(w, to, nd, now)
  <2>1. now \subseteq Dirs /\ cl \subseteq now
    BY DEF Classifies
  <2>2. \A x \in Dirs : nd[x].live =>
            IF w.follow THEN x \in now ELSE Len(w.home[w.root]) <= Len(w.home[x])
    BY <2>1 DEF WalkStands, Claimed
  <2>3. \A x \in Dirs : \A p \in to[x].plans :
            p \in fr[x].plans \/ (x = d /\ p \in P /\ p.name = n)
    BY <1>1, <1>2, <1>4
  <2>4. \A x \in Dirs : \A p \in to[x].plans : p.kind = "dir" =>
            ~nd[Goal(w, x, p.name)].live /\ (w.follow => Goal(w, x, p.name) \in now)
    BY <1>17, <2>1, <2>3 DEF WalkStands, Claimed
  <2>5. ASSUME NEW x \in Dirs, NEW e \in Dirs, NEW p \in to[x].plans, NEW q \in to[e].plans,
               p.kind = "dir", q.kind = "dir", Goal(w, x, p.name) = Goal(w, e, q.name)
        PROVE  x = e /\ p = q
    <3>1. CASE p \in fr[x].plans /\ q \in fr[e].plans
      BY <2>5, <3>1 DEF WalkStands, Claimed
    <3>2. CASE p \in fr[x].plans /\ ~(q \in fr[e].plans)
      BY <1>17, <2>3, <2>5, <3>2
    <3>3. CASE ~(p \in fr[x].plans) /\ q \in fr[e].plans
      BY <1>17, <2>3, <2>5, <3>3
    <3>4. CASE ~(p \in fr[x].plans) /\ ~(q \in fr[e].plans)
      BY <1>5, <2>3, <3>4
    <3> QED
      BY <3>1, <3>2, <3>3, <3>4
  <2> QED
    BY <2>1, <2>2, <2>4, <2>5 DEF Claimed
<1>19. Weighed(w, to, ls, known)
  <2>1. co \subseteq known
    BY DEF Classifies
  <2>2. ASSUME NEW x \in Dirs, NEW m, Weighs(w, to, ls, x, m), ~Weighs(w, fr, ls, x, m)
        PROVE  x = d /\ m = n /\ IdOf(w, d, n) \in known \ co
    <3>1. PICK p \in to[x].plans : p.name = m /\ p.bytes > 0 /\ p.kind = "file"
      BY <2>2 DEF Weighs
    <3>2. p \notin fr[x].plans
      BY <2>2, <3>1 DEF Weighs
    <3>3. x = d /\ p \in P /\ m = n
      BY <1>1, <1>2, <1>4, <3>1, <3>2
    <3>4. Multiple(w, d, n)
      BY <2>2, <3>3 DEF Weighs
    <3> QED
      BY <3>1, <3>3, <3>4 DEF Classifies
  <2>3. \A x \in Dirs : \A m \in Names(w, x) : Weighs(w, fr, ls, x, m) => IdOf(w, x, m) \in co
    BY DEF WalkStands, Weighed
  <2> SUFFICES ASSUME NEW x \in Dirs, NEW m \in Names(w, x), Weighs(w, to, ls, x, m)
               PROVE  /\ IdOf(w, x, m) \in known
                      /\ \A e \in Dirs : \A k \in Names(w, e) :
                          Weighs(w, to, ls, e, k) /\ IdOf(w, e, k) = IdOf(w, x, m) => x = e /\ m = k
    BY DEF Weighed
  <2>4. IdOf(w, x, m) \in known
    BY <2>1, <2>2, <2>3
  <2>5. ASSUME NEW e \in Dirs, NEW k \in Names(w, e),
               Weighs(w, to, ls, e, k), IdOf(w, e, k) = IdOf(w, x, m)
        PROVE  x = e /\ m = k
    <3>1. CASE Weighs(w, fr, ls, x, m) /\ Weighs(w, fr, ls, e, k)
      BY <2>5, <3>1 DEF WalkStands, Weighed
    <3>2. CASE ~Weighs(w, fr, ls, x, m) \/ ~Weighs(w, fr, ls, e, k)
      <4>1. CASE Weighs(w, fr, ls, x, m)
        BY <2>2, <2>3, <2>5, <3>2, <4>1
      <4>2. CASE Weighs(w, fr, ls, e, k)
        BY <2>2, <2>3, <2>5, <3>2, <4>2
      <4>3. CASE ~Weighs(w, fr, ls, x, m) /\ ~Weighs(w, fr, ls, e, k)
        BY <2>2, <2>5, <4>3
      <4> QED
        BY <4>1, <4>2, <4>3
    <3> QED
      BY <3>1, <3>2
  <2> QED
    BY <2>4, <2>5
<1> QED
  BY <1>8, <1>10, <1>13, <1>14, <1>15, <1>18, <1>19 DEF WalkStands

-----------------------------------------------------------------------------
(***************************************************************************)
(* A walk: the steps of one scan                                           *)
(***************************************************************************)

\* Same places and same counts: the totals stand as they stood.
LEMMA TotalsSame ==
    ASSUME NEW nd, Tree(nd), NEW now, NEW ls, TotalsStand(nd, ls),
           \A x \in Dirs : /\ now[x].live = nd[x].live /\ now[x].parent = nd[x].parent
                           /\ now[x].self = nd[x].self /\ now[x].bytes = nd[x].bytes
                           /\ now[x].files = nd[x].files /\ now[x].dirs = nd[x].dirs
    PROVE  TotalsStand(now, ls)
<1>1. \A x \in Dirs : Below(now, x) = Below(nd, x)
  BY SamePlaces DEF Tree
<1>2. \A x \in Dirs : LeavesBelow(now, ls, x) = LeavesBelow(nd, ls, x)
  BY <1>1 DEF LeavesBelow
<1>3. SelvesIn(now) = SelvesIn(nd)
  BY DEF SelvesIn
<1> QED
  BY <1>1, <1>2, <1>3 DEF TotalsStand

\* An error only marks the directory it is met in.
LEMMA FailedStands ==
    ASSUME NEW w, w.root \in Dirs, NEW nd, TreeStands(w, nd), NEW d \in Dirs, nd[d].live,
           NEW ls, TotalsStand(nd, ls), NEW x \in Dirs
    PROVE  /\ StaysIn(nd, MarkFailed(nd, d), x) /\ TreeStands(w, MarkFailed(nd, d))
           /\ TotalsStand(MarkFailed(nd, d), ls)
           /\ \A y \in Dirs : /\ MarkFailed(nd, d)[y].bytes = nd[y].bytes
                              /\ MarkFailed(nd, d)[y].files = nd[y].files
                              /\ MarkFailed(nd, d)[y].dirs = nd[y].dirs
<1> PICK now : now = MarkFailed(nd, d)
  OBVIOUS
<1> PICK a : a = nd[d]
  OBVIOUS
<1>1. /\ a = NodeRecord(a) /\ now = [y \in Dirs |-> now[y]]
      /\ now[d] = [a EXCEPT !.err = TRUE]
      /\ \A y \in Dirs \ {d} : now[y] = nd[y]
  BY DEF TreeStands, MarkFailed
<1> PICK b : b = now[d]
  OBVIOUS
<1>2. /\ b.live = a.live /\ b.parent = a.parent /\ b.name = a.name /\ b.self = a.self
      /\ b.bytes = a.bytes /\ b.files = a.files /\ b.dirs = a.dirs /\ b = NodeRecord(b)
  BY <1>1 DEF NodeRecord
<1>3. \A y \in Dirs :
        /\ now[y].live = nd[y].live /\ now[y].parent = nd[y].parent
        /\ now[y].name = nd[y].name /\ now[y].self = nd[y].self
        /\ now[y].bytes = nd[y].bytes /\ now[y].files = nd[y].files
        /\ now[y].dirs = nd[y].dirs /\ now[y] = NodeRecord(now[y])
  BY <1>1, <1>2 DEF TreeStands
<1>4. Parented(now) /\ Grounded(now)
  BY <1>3, SamePlaces DEF TreeStands, Tree
<1>5. Tree(now)
  <2>1. Tree(nd)
    BY DEF TreeStands
  <2>2. \A y \in Dirs : /\ now[y].self \in Nat
                        /\ ~now[y].live => now[y].parent = NoDir
    BY <1>3, <2>1 DEF Tree
  <2>3. ASSUME NEW y \in Dirs, now[y].live, now[y].parent # NoDir
        PROVE  now[now[y].parent].live
    <3>1. nd[y].live /\ now[y].parent = nd[y].parent /\ nd[y].parent \in Dirs
      BY <1>3, <2>1, <2>3 DEF Tree, Parented
    <3>2. nd[nd[y].parent].live
      BY <2>1, <2>3, <3>1 DEF Tree
    <3> QED
      BY <1>3, <3>1, <3>2
  <2> QED
    BY <1>4, <2>2, <2>3 DEF Tree
<1>6. TreeStands(w, now)
  <2>1. \A y \in Dirs : ~now[y].live => now[y] = NoNode
    BY <1>1, <1>3 DEF TreeStands
  <2>2. now[w.root].live /\ now[w.root].parent = NoDir
    BY <1>3 DEF TreeStands
  <2> QED
    BY <1>1, <1>3, <1>5, <2>1, <2>2 DEF TreeStands
<1>7. TotalsStand(now, ls)
  BY <1>3, TotalsSame DEF TreeStands
<1>8. StaysIn(nd, now, x)
  BY <1>3 DEF StaysIn
<1> QED
  BY <1>3, <1>6, <1>7, <1>8

\* Only where the scan of d stands changes.
LEMMA GotoStands ==
    ASSUME NEW w, NEW d, NEW f, FrameStands(w, d, f), NEW pc, NEW g, g = [f EXCEPT !.pc = pc],
           f.batch = {}, f.plans = {},
           pc \in {"open", "read", "children", "call", "done"},
           pc \in {"children", "call"} \/ f.todo = {}
    PROVE  /\ FrameStands(w, d, g) /\ g.pc = pc /\ g.plans = {} /\ g.caller = f.caller
           /\ g.todo = f.todo /\ g.unread = f.unread /\ g.batch = {}
<1>1. /\ g = FrameRecord(g) /\ g.pc = pc /\ g.caller = f.caller /\ g.unread = f.unread
      /\ g.batch = {} /\ g.plans = {} /\ g.todo = f.todo
  BY DEF FrameStands, FrameRecord
<1> QED
  BY <1>1 DEF FrameStands

\* Who waits for nobody.
Alone(w, fr, nd, d) == \A x \in Dirs : x # w.root /\ nd[x].parent = d => ~Active(fr[x])

\* What is below a directory runs only while that directory enters or waits.
LEMMA BusyAlone ==
    ASSUME NEW w, NEW fr, NEW nd, Called(w, fr, nd), NEW d, fr[d].pc \notin {"children", "call"}
    PROVE  Alone(w, fr, nd, d)
BY DEF Alone, Called

GoesTo(fr, to, d, pc) == to = [fr EXCEPT ![d].pc = pc]

\* Where a directory moves on in its code and nothing else happens, the walk stands.
LEMMA GotoKeeps ==
    ASSUME NEW w, NEW fr, NEW nd, NEW ls, NEW cl, NEW ed, NEW co,
           WalkStands(w, fr, nd, ls, cl, ed, co), w.root \in Dirs, NEW d \in Dirs,
           Active(fr[d]), fr[d].pc # "classify",
           NEW pc \in {"open", "read", "children", "call", "done"},
           pc = "open" => fr[d].pc = "begin",
           pc \in {"children", "call"} \/ (fr[d].todo = {} /\ Alone(w, fr, nd, d)),
           NEW now, StaysIn(nd, now, d), TreeStands(w, now), TotalsStand(now, ls),
           NEW to, GoesTo(fr, to, d, pc)
    PROVE  /\ WalkStands(w, to, now, ls, cl, ed, co)
           /\ \A x \in Dirs : to[x].plans = fr[x].plans
<1> PICK f : f = fr[d]
  OBVIOUS
<1> PICK g : g = to[d]
  OBVIOUS
<1>1. /\ g = [f EXCEPT !.pc = pc] /\ to = [x \in Dirs |-> to[x]]
      /\ \A x \in Dirs \ {d} : to[x] = fr[x]
  BY DEF WalkStands, FramesStand, GoesTo
<1>2. FrameStands(w, d, f)
  BY DEF WalkStands, FramesStand
<1>3. f.batch = {} /\ f.plans = {}
  BY <1>2 DEF FrameStands
<1>4. pc \in {"children", "call"} \/ f.todo = {}
  OBVIOUS
<1>5. /\ FrameStands(w, d, g) /\ g.pc = pc /\ g.plans = {} /\ g.caller = f.caller
      /\ g.todo = f.todo /\ g.unread = f.unread /\ g.batch = {}
  BY ONLY <1>1, <1>2, <1>3, <1>4, GotoStands, pc \in {"open", "read", "children", "call", "done"}
<1>6. GoesOn(w, fr, to, nd, d)
  BY <1>1, <1>3, <1>5 DEF GoesOn, Alone
<1>7. WalkStands(w, to, now, ls, cl, ed, co)
  BY <1>6, GoesOnKeeps
<1> QED
  BY <1>1, <1>3, <1>5, <1>7

\* Who is above a directory of the tree is in it.
LEMMA AboveLive ==
    ASSUME NEW nd, Tree(nd), NEW d \in Dirs, nd[d].live
    PROVE  \A y \in Upwards(nd, d) : y \in Dirs /\ nd[y].live
<1> DEFINE F == {x \in Dirs : nd[x].live => \A y \in Above(nd, x) : nd[y].live}
<1>1. ASSUME NEW x \in Dirs, nd[x].parent \in F \cup {NoDir}
      PROVE  x \in F
  <2>1. Above(nd, x) = IF nd[x].parent = NoDir THEN {}
                       ELSE {nd[x].parent} \cup Above(nd, nd[x].parent)
    BY AboveIs DEF Tree
  <2> QED
    BY <1>1, <2>1 DEF Tree
<1>2. Dirs \subseteq F
  <2> HIDE DEF F
  <2> QED
    BY <1>1, Descent DEF Tree
<1> QED
  BY <1>2, AboveAre DEF Tree, Upwards

\* What the tree counts are natural numbers.
LEMMA CountsStand ==
    ASSUME NEW w, NEW nd, TreeStands(w, nd), NEW ls, LeavesStand(w, nd, ls), TotalsStand(nd, ls),
           NEW x \in Dirs
    PROVE  nd[x].bytes \in Nat /\ nd[x].files \in Nat /\ nd[x].dirs \in Nat
<1>1. CASE ~nd[x].live
  <2>1. nd[x] = NoNode
    BY <1>1 DEF TreeStands
  <2> QED
    BY <2>1 DEF NoNode
<1>2. CASE nd[x].live
  <2> DEFINE below == Below(nd, x)
             here == LeavesBelow(nd, ls, x)
  <2>1. /\ BytesOf(here) \in Nat /\ SumOver(SelvesIn(nd), below) \in Nat
        /\ Cardinality({l \in here : ~l.err}) \in Nat /\ Cardinality(below) \in Nat
        /\ IsFiniteSet(below)
    <3>1. (\A y \in Dirs : nd[y].self \in Nat) /\ IsFiniteSet(ls) /\ \A l \in ls : l.bytes \in Nat
      BY DEF TreeStands, Tree, LeavesStand
    <3> QED
      BY ONLY <3>1, CountsAre, x \in Dirs
  <2>2. x \in below
    BY <1>2 DEF Below, Upwards
  <2>3. Cardinality(below) # 0
    <3> HIDE DEF below
    <3> QED
      BY <2>1, <2>2, FS_EmptySet
  <2>4. /\ nd[x].bytes = BytesOf(here) + SumOver(SelvesIn(nd), below)
        /\ nd[x].files = Cardinality({l \in here : ~l.err})
        /\ nd[x].dirs = Cardinality(below) - 1
    BY <1>2 DEF TotalsStand
  <2> HIDE DEF below, here
  <2> QED
    BY ONLY <2>1, <2>3, <2>4
<1> QED
  BY <1>1, <1>2

\* A scan that begins adds the size of its directory to the tree.
JustBegun(nd, now, d, size) == now = Propagate([nd EXCEPT ![d].self = size], d, size, 0, 0)

\* The tree stands with it, and no total falls.
LEMMA BegunStands ==
    ASSUME NEW w, w.root \in Dirs, NEW nd, TreeStands(w, nd), NEW ls, LeavesStand(w, nd, ls),
           TotalsStand(nd, ls), NEW d \in Dirs, nd[d].live, nd[d].self = 0, NEW size \in Nat,
           NEW now, JustBegun(nd, now, d, size)
    PROVE  /\ StaysIn(nd, now, d) /\ TreeStands(w, now) /\ TotalsStand(now, ls)
           /\ \A x \in Dirs : now[x].bytes >= nd[x].bytes /\ now[x].files = nd[x].files
<1> PICK md : md = [nd EXCEPT ![d].self = size]
  OBVIOUS
<1>1. now = Propagate(md, d, size, 0, 0)
  BY DEF JustBegun
<1>2. ASSUME NEW x \in Dirs
      PROVE  /\ md[x] = NodeRecord(md[x]) /\ md[x].live = nd[x].live
             /\ md[x].parent = nd[x].parent /\ md[x].name = nd[x].name
             /\ md[x].self = (IF x = d THEN size ELSE nd[x].self)
             /\ md[x].bytes = nd[x].bytes /\ md[x].files = nd[x].files /\ md[x].dirs = nd[x].dirs
             /\ md[x].err = nd[x].err
  <2> PICK a : a = nd[x]
    OBVIOUS
  <2> PICK b : b = md[x]
    OBVIOUS
  <2>1. a = NodeRecord(a)
    BY DEF TreeStands
  <2>2. b = IF x = d THEN [a EXCEPT !.self = size] ELSE a
    BY DEF TreeStands
  <2>3. /\ b = NodeRecord(b) /\ b.live = a.live /\ b.parent = a.parent /\ b.name = a.name
        /\ b.self = (IF x = d THEN size ELSE a.self) /\ b.bytes = a.bytes /\ b.files = a.files
        /\ b.dirs = a.dirs /\ b.err = a.err
    BY ONLY <2>1, <2>2 DEF NodeRecord
  <2> QED
    BY <2>3
<1>3. Upwards(md, d) = Upwards(nd, d)
  <2>1. \A x \in Dirs : md[x].parent = nd[x].parent /\ md[x].live = nd[x].live
    BY <1>2
  <2>2. Parented(nd) /\ Grounded(nd)
    BY DEF TreeStands, Tree
  <2> QED
    BY ONLY <2>1, <2>2, d \in Dirs, SamePlaces
<1>4. ASSUME NEW x \in Dirs
      PROVE  /\ now[x] = NodeRecord(now[x]) /\ now[x].live = nd[x].live
             /\ now[x].parent = nd[x].parent /\ now[x].name = nd[x].name
             /\ now[x].self = (IF x = d THEN size ELSE nd[x].self)
             /\ now[x].bytes = (IF x \in Upwards(nd, d) THEN nd[x].bytes + size ELSE nd[x].bytes)
             /\ now[x].files = nd[x].files /\ now[x].dirs = nd[x].dirs
             /\ (x \notin Upwards(nd, d) => now[x] = md[x])
  <2> PICK a : a = md[x]
    OBVIOUS
  <2> PICK b : b = now[x]
    OBVIOUS
  <2>1. a = NodeRecord(a) /\ a.bytes \in Nat /\ a.files \in Nat /\ a.dirs \in Nat
    <3>1. nd[x].bytes \in Nat /\ nd[x].files \in Nat /\ nd[x].dirs \in Nat
      BY CountsStand
    <3> QED
      BY <1>2, <3>1
  <2>2. b = IF x \in Upwards(nd, d)
            THEN [a EXCEPT !.bytes = @ + size, !.files = @ + 0, !.dirs = @ + 0] ELSE a
    <3>1. now[x] = IF x \in Upwards(md, d)
                   THEN [md[x] EXCEPT !.bytes = @ + size, !.files = @ + 0, !.dirs = @ + 0] ELSE md[x]
      BY ONLY <1>1, x \in Dirs DEF Propagate
    <3> HIDE DEF JustBegun
    <3> QED
      BY ONLY <1>3, <3>1, a = md[x], b = now[x]
  <2>3. /\ b = NodeRecord(b) /\ b.live = a.live /\ b.parent = a.parent /\ b.name = a.name
        /\ b.self = a.self
        /\ b.bytes = (IF x \in Upwards(nd, d) THEN a.bytes + size ELSE a.bytes)
        /\ b.files = a.files /\ b.dirs = a.dirs
        /\ (x \notin Upwards(nd, d) => b = a)
    <3>1. CASE x \notin Upwards(nd, d)
      BY ONLY <2>1, <2>2, <3>1
    <3>2. CASE x \in Upwards(nd, d)
      <4>1. b = [a EXCEPT !.bytes = @ + size, !.files = @ + 0, !.dirs = @ + 0]
        BY ONLY <2>2, <3>2
      <4>2. /\ b = NodeRecord(b) /\ b.live = a.live /\ b.parent = a.parent /\ b.name = a.name
            /\ b.self = a.self /\ b.bytes = a.bytes + size
            /\ b.files = a.files + 0 /\ b.dirs = a.dirs + 0
        BY ONLY <2>1, <4>1 DEF NodeRecord
      <4>3. a.files + 0 = a.files /\ a.dirs + 0 = a.dirs
        BY ONLY <2>1
      <4> QED
        BY ONLY <3>2, <4>2, <4>3
    <3> QED
      BY ONLY <3>1, <3>2
  <2> QED
    BY <1>2, <2>3
<1>5. Opened(nd, now, d, size)
  BY <1>4 DEF Opened
<1>6. Tree(now) /\ TotalsStand(now, ls)
  BY <1>5, OpenedTotals DEF TreeStands, LeavesStand
<1>7. StaysIn(nd, now, d)
  BY <1>4 DEF StaysIn
<1>8. TreeStands(w, now)
  <2>1. ASSUME NEW x \in Dirs, ~now[x].live
        PROVE  now[x] = NoNode
    <3>2. ~nd[x].live /\ Tree(nd)
      BY <1>4, <2>1 DEF TreeStands
    <3>3. \A y \in Upwards(nd, d) : nd[y].live
      BY <3>2, AboveLive
    <3>1. x \notin Upwards(nd, d) /\ x # d /\ nd[x] = NoNode
      BY <3>2, <3>3 DEF TreeStands
    <3> QED
      BY <1>4, <3>1 DEF TreeStands
  <2>2. now = [x \in Dirs |-> now[x]]
    BY ONLY <1>1 DEF Propagate
  <2>3. now[w.root].live /\ now[w.root].parent = NoDir
    BY <1>4 DEF TreeStands
  <2>4. \A x \in Dirs : nd[x].live /\ x # w.root =>
            /\ nd[x].parent \in Dirs /\ nd[x].name \in Names(w, nd[x].parent)
            /\ Goal(w, nd[x].parent, nd[x].name) = x /\ Enters(w, nd[x].parent, nd[x].name)
    BY DEF TreeStands
  <2>5. \A x \in Dirs : now[x].live \in BOOLEAN
    BY <1>4 DEF TreeStands
  <2> QED
    BY <1>4, <1>6, <2>1, <2>2, <2>3, <2>4, <2>5 DEF TreeStands
<1>9. \A x \in Dirs : now[x].bytes >= nd[x].bytes /\ now[x].files = nd[x].files
  <2> TAKE x \in Dirs
  <2>1. nd[x].bytes \in Nat
    BY CountsStand
  <2>2. /\ now[x].bytes = (IF x \in Upwards(nd, d) THEN nd[x].bytes + size ELSE nd[x].bytes)
        /\ now[x].files = nd[x].files
    BY <1>4
  <2> QED
    BY ONLY <2>1, <2>2, size \in Nat
<1> QED
  BY <1>6, <1>7, <1>8, <1>9

-----------------------------------------------------------------------------
(***************************************************************************)
(* A walk: the steps                                                       *)
(***************************************************************************)

TallyStands(t) ==
    /\ t = [files |-> t.files, dirs |-> t.dirs, errors |-> t.errors]
    /\ t.files \in Nat /\ t.dirs \in Nat /\ t.errors \in Nat

\* What the tree and the counters t have come to, as a snapshot shows it.
Sight(w, nd, t, complete) ==
    [bytes |-> nd[w.root].bytes, inTree |-> nd[w.root].files, files |-> t.files,
     dirs |-> t.dirs, errors |-> t.errors, complete |-> complete]

\* Nothing that was counted is taken back.
NoneLost(w, nd, t, now, s) ==
    /\ now[w.root].bytes >= nd[w.root].bytes /\ now[w.root].files >= nd[w.root].files
    /\ s.files >= t.files /\ s.dirs >= t.dirs /\ s.errors >= t.errors

Walking ==
    /\ WalkStands(world, frame, node, leaves, claimed, edges, counted)
    /\ MetCounted(frame, leaves, tally) /\ TallyStands(tally) /\ world \in Worlds
WalksOn ==
    /\ WalkStands(world, frame', node', leaves', claimed', edges', counted')
    /\ MetCounted(frame', leaves', tally') /\ TallyStands(tally')
    /\ NoneLost(world, node, tally, node', tally')
    /\ out' = out \/ (out = <<>> /\ out' = <<Sight(world, node', tally', FALSE)>>)

\* Nothing is planned or recorded: what was met remains what it was.
LEMMA MetSame ==
    ASSUME NEW fr, NEW to, NEW ls, \A d \in Dirs : to[d].plans = fr[d].plans,
           NEW t, NEW s, MetCounted(fr, ls, t), TallyStands(t), s.files \in Nat, s.files >= t.files
    PROVE  MetCounted(to, ls, s)
<1>1. Met(to, ls) = Met(fr, ls)
  BY DEF Met
<1>2. Cardinality(Met(fr, ls)) \in Nat
  BY FS_CardinalityType DEF MetCounted
<1> QED
  BY <1>1, <1>2 DEF MetCounted, TallyStands

\* A change to the tree is shown at once, or when the channel has room.
LEMMA RecordIs ==
    ASSUME NEW nd, NEW t, Record(nd, t)
    PROVE  /\ node' = nd /\ tally' = t
           /\ out' = out \/ (out = <<>> /\ out' = <<Sight(world, node', tally', FALSE)>>)
BY DEF Record, Snapshot, Sight, Root

\* A step that marks an error at most, and counts it.
LEMMA ErrorsAdd ==
    ASSUME TallyStands(tally), NEW s, s = tally \/ s = OneMoreError
    PROVE  /\ TallyStands(s)
           /\ s.files >= tally.files /\ s.dirs >= tally.dirs /\ s.errors >= tally.errors
<1>1. CASE s = tally
  BY <1>1 DEF TallyStands
<1>2. CASE s = OneMoreError
  <2>1. s = [files |-> tally.files, dirs |-> tally.dirs, errors |-> tally.errors + 1]
    BY <1>2 DEF OneMoreError, TallyStands
  <2> QED
    BY <2>1 DEF TallyStands
<1> QED
  BY <1>1, <1>2

\* What holds whenever the scan of d is under way.
LEMMA WalkingIs ==
    ASSUME Walking, NEW d \in Dirs, frame[d].pc # "idle"
    PROVE  /\ world.root \in Dirs /\ node[d].live /\ TreeStands(world, node)
           /\ LeavesStand(world, node, leaves) /\ TotalsStand(node, leaves)
           /\ FramesStand(world, frame) /\ FrameStands(world, d, frame[d])
           /\ Called(world, frame, node)
           /\ \A x \in Dirs : node[x].bytes \in Nat /\ node[x].files \in Nat
<1>1. /\ world.root \in Dirs /\ node[d].live /\ TreeStands(world, node)
      /\ LeavesStand(world, node, leaves) /\ TotalsStand(node, leaves)
      /\ FramesStand(world, frame) /\ FrameStands(world, d, frame[d])
      /\ Called(world, frame, node)
  BY ScanAssumption DEF Walking, WalkStands, Started, FramesStand
<1> QED
  BY <1>1, CountsStand

\* The scan of d goes somewhere else, and the tree is as it was but for a mark.
LEMMA GotoWalksOn ==
    ASSUME Walking, NEW d \in Dirs, Active(frame[d]), frame[d].pc # "classify",
           NEW pc \in {"read", "children", "call", "done"},
           pc \in {"children", "call"} \/ (frame[d].todo = {} /\ Alone(world, frame, node, d)),
           Goto(d, pc), NEW s, s = tally \/ s = OneMoreError,
           Record(node, s) \/ Record(MarkFailed(node, d), s)
               \/ (node' = node /\ tally' = s /\ out' = out),
           UNCHANGED <<leaves, claimed, edges, counted>>
    PROVE  WalksOn
<1>1. /\ node' = node \/ node' = MarkFailed(node, d)
      /\ tally' = s /\ (out' = out \/ (out = <<>> /\ out' = <<Sight(world, node', tally', FALSE)>>))
  <2>1. CASE Record(node, s)
    BY <2>1, RecordIs
  <2>2. CASE Record(MarkFailed(node, d), s)
    <3> DEFINE now == MarkFailed(node, d)
    <3>1. Record(now, s)
      BY <2>2
    <3> HIDE DEF now
    <3>2. node' = now /\ tally' = s
           /\ (out' = out \/ (out = <<>> /\ out' = <<Sight(world, node', tally', FALSE)>>))
      BY <3>1, RecordIs
    <3> QED
      BY <3>2 DEF now
  <2> QED
    BY <2>1, <2>2
<1>2. /\ world.root \in Dirs /\ node[d].live /\ TreeStands(world, node)
      /\ LeavesStand(world, node, leaves) /\ TotalsStand(node, leaves)
      /\ \A x \in Dirs : node[x].bytes \in Nat /\ node[x].files \in Nat
  BY WalkingIs DEF Active
<1>3. /\ StaysIn(node, node', d) /\ TreeStands(world, node') /\ TotalsStand(node', leaves)
      /\ \A y \in Dirs : node'[y].bytes = node[y].bytes /\ node'[y].files = node[y].files
  <2>1. CASE node' = node
    BY <1>2, <2>1 DEF StaysIn
  <2>2. CASE node' = MarkFailed(node, d)
    BY <1>2, <2>2, FailedStands
  <2> QED
    BY <1>1, <2>1, <2>2
<1>4. frame' = [frame EXCEPT ![d].pc = pc]
  BY DEF Goto
<1>5. WalkStands(world, frame, node, leaves, claimed, edges, counted)
  BY DEF Walking
<1>6. /\ WalkStands(world, frame', node', leaves, claimed, edges, counted)
      /\ \A x \in Dirs : frame'[x].plans = frame[x].plans
  <2> PICK now : now = node'
    OBVIOUS
  <2> PICK to : to = frame'
    OBVIOUS
  <2>1. StaysIn(node, now, d) /\ TreeStands(world, now) /\ TotalsStand(now, leaves)
    BY <1>3
  <2>2. GoesTo(frame, to, d, pc)
    BY <1>4 DEF GoesTo
  <2>3. pc \in {"open", "read", "children", "call", "done"} /\ (pc = "open" => frame[d].pc = "begin")
    OBVIOUS
  <2>4. /\ Active(frame[d]) /\ frame[d].pc # "classify" /\ d \in Dirs
        /\ (pc \in {"children", "call"} \/ (frame[d].todo = {} /\ Alone(world, frame, node, d)))
    OBVIOUS
  <2>5. /\ WalkStands(world, to, now, leaves, claimed, edges, counted)
        /\ \A x \in Dirs : to[x].plans = frame[x].plans
    BY ONLY <1>2, <1>5, <2>1, <2>2, <2>3, <2>4, GotoKeeps
  <2> QED
    BY <2>5
<1>7. TallyStands(s) /\ s.files >= tally.files /\ s.dirs >= tally.dirs /\ s.errors >= tally.errors
  BY ErrorsAdd DEF Walking
<1>8. MetCounted(frame', leaves, tally')
  BY <1>1, <1>6, <1>7, MetSame DEF Walking, TallyStands
<1>9. NoneLost(world, node, tally, node', tally')
  BY <1>1, <1>2, <1>3, <1>7 DEF NoneLost
<1> QED
  BY <1>1, <1>6, <1>7, <1>8, <1>9 DEF WalksOn

\* The scan of d goes on and the tree is as it was.
LEMMA GoesOnWalksOn ==
    ASSUME Walking, NEW d \in Dirs, NEW to, frame' = to, GoesOn(world, frame, to, node, d),
           UNCHANGED <<node, tally, out, leaves, claimed, edges, counted>>
    PROVE  WalksOn
<1>1. /\ world.root \in Dirs /\ TreeStands(world, node) /\ TotalsStand(node, leaves)
      /\ \A x \in Dirs : node[x].bytes \in Nat /\ node[x].files \in Nat
  BY WalkingIs DEF GoesOn, Active
<1>2. StaysIn(node, node, d)
  BY DEF StaysIn
<1>3. WalkStands(world, frame, node, leaves, claimed, edges, counted)
  BY DEF Walking
<1>4. WalkStands(world, to, node, leaves, claimed, edges, counted)
  BY ONLY <1>1, <1>2, <1>3, GoesOnKeeps, GoesOn(world, frame, to, node, d), d \in Dirs
<1>5. \A x \in Dirs : to[x].plans = frame[x].plans
  BY DEF GoesOn
<1>6. MetCounted(to, leaves, tally) /\ TallyStands(tally)
  BY <1>5, MetSame DEF Walking, TallyStands
<1>7. NoneLost(world, node, tally, node, tally)
  BY <1>1 DEF NoneLost, Walking, TallyStands
<1> QED
  BY <1>4, <1>6, <1>7 DEF WalksOn

\* beginDirScan keeps the walk.
LEMMA BeginWalksOn ==
    ASSUME Walking, NEW d \in Dirs, BeginDir(d)
    PROVE  WalksOn
<1> DEFINE self == world.size[d]
           md == [node EXCEPT ![d].self = self]
           up == Propagate(md, d, self, 0, 0)
           s == [tally EXCEPT !.dirs = @ + 1]
<1>1. frame[d].pc = "begin" /\ frame' = [frame EXCEPT ![d].pc = "open"]
      /\ leaves' = leaves /\ claimed' = claimed /\ edges' = edges /\ counted' = counted
  BY DEF BeginDir, Goto
<1>2. Record(up, s)
  BY DEF BeginDir
<1>3. /\ world.root \in Dirs /\ node[d].live /\ TreeStands(world, node)
      /\ LeavesStand(world, node, leaves) /\ TotalsStand(node, leaves)
      /\ FrameStands(world, d, frame[d]) /\ Called(world, frame, node)
      /\ \A x \in Dirs : node[x].bytes \in Nat /\ node[x].files \in Nat
  BY <1>1, WalkingIs
<1>4. self \in Nat
  BY ScanAssumption DEF Walking
<1>5. node[d].self = 0
  BY <1>1 DEF Walking, WalkStands, Started
<1>6. PICK now : now = up
  OBVIOUS
<1> HIDE DEF s, self, md
<1>7. /\ node' = now /\ tally' = s
      /\ (out' = out \/ (out = <<>> /\ out' = <<Sight(world, node', tally', FALSE)>>))
  <2> HIDE DEF up
  <2> QED
    BY <1>2, <1>6, RecordIs
<1>8. /\ StaysIn(node, now, d) /\ TreeStands(world, now) /\ TotalsStand(now, leaves)
      /\ \A x \in Dirs : now[x].bytes >= node[x].bytes /\ now[x].files = node[x].files
  <2>1. JustBegun(node, now, d, self)
    BY <1>6 DEF md, JustBegun
  <2> QED
    BY ONLY <1>3, <1>4, <1>5, <2>1, BegunStands, d \in Dirs
<1>9. WalkStands(world, frame, node, leaves, claimed, edges, counted)
  BY DEF Walking
<1>10. PICK to : to = frame'
  OBVIOUS
<1>11. /\ WalkStands(world, to, now, leaves, claimed, edges, counted)
       /\ \A x \in Dirs : to[x].plans = frame[x].plans
  <2>1. GoesTo(frame, to, d, "open")
    BY <1>1, <1>10 DEF GoesTo
  <2>2. frame[d].todo = {} /\ Active(frame[d]) /\ frame[d].pc # "classify"
    BY <1>1, <1>3 DEF FrameStands, Active
  <2>3. Alone(world, frame, node, d)
    BY <1>1, <1>3, BusyAlone
  <2> QED
    BY ONLY <1>1, <1>3, <1>8, <1>9, <2>1, <2>2, <2>3, GotoKeeps, d \in Dirs
<1>12. s = [files |-> tally.files, dirs |-> tally.dirs + 1, errors |-> tally.errors]
       /\ tally.files \in Nat /\ tally.dirs \in Nat /\ tally.errors \in Nat
  BY DEF s, Walking, TallyStands
<1>13. TallyStands(s) /\ s.files = tally.files /\ s.dirs >= tally.dirs /\ s.errors = tally.errors
  BY ONLY <1>12 DEF TallyStands
<1>14. MetCounted(to, leaves, s)
  BY <1>11, <1>12, <1>13, MetSame DEF Walking
<1>15. NoneLost(world, node, tally, now, s)
  BY <1>3, <1>8, <1>12, <1>13 DEF NoneLost
<1> QED
  BY <1>1, <1>7, <1>10, <1>11, <1>13, <1>14, <1>15 DEF WalksOn

\* The directory is opened, or is marked with an error.
LEMMA OpenWalksOn ==
    ASSUME Walking, NEW d \in Dirs, OpenDir(d)
    PROVE  WalksOn
<1>1. frame[d].pc = "open" /\ UNCHANGED <<leaves, claimed, edges, counted>>
  BY DEF OpenDir
<1>2. /\ FrameStands(world, d, frame[d]) /\ Called(world, frame, node)
      /\ FramesStand(world, frame)
  BY <1>1, WalkingIs
<1>3. frame[d].todo = {} /\ Active(frame[d]) /\ Alone(world, frame, node, d)
      /\ frame[d].plans = {} /\ frame[d].batch = {}
  BY <1>1, <1>2, BusyAlone DEF FrameStands, Active
<1>4. ASSUME NEW s, s = tally \/ s = OneMoreError, Abandon(d, s)
      PROVE  WalksOn
  <2>1. Goto(d, "done") /\ Record(MarkFailed(node, d), s)
    BY <1>4 DEF Abandon
  <2> QED
    BY <1>1, <1>3, <1>4, <2>1, GotoWalksOn
<1>5. CASE /\ frame' = [frame EXCEPT ![d].pc = "read", ![d].unread = DOMAIN world.entries[d]]
           /\ UNCHANGED <<node, tally, out>>
  <2> PICK f : f = frame[d]
    OBVIOUS
  <2> PICK to : to = frame'
    OBVIOUS
  <2> PICK g : g = to[d]
    OBVIOUS
  <2>1. /\ f = FrameRecord(f) /\ to = [x \in Dirs |-> to[x]] /\ \A x \in Dirs \ {d} : to[x] = frame[x]
        /\ g = [f EXCEPT !.pc = "read", !.unread = Names(world, d)]
    BY <1>2, <1>5 DEF FrameStands, FramesStand, Names
  <2>2. /\ g = FrameRecord(g) /\ g.pc = "read" /\ g.unread = Names(world, d)
        /\ g.batch = f.batch /\ g.plans = f.plans /\ g.todo = f.todo /\ g.caller = f.caller
    BY ONLY <2>1 DEF FrameRecord
  <2>3. FrameStands(world, d, g)
    BY <1>2, <1>3, <2>2 DEF FrameStands
  <2>4. GoesOn(world, frame, to, node, d)
    BY <1>1, <1>3, <2>1, <2>2, <2>3 DEF GoesOn, Alone
  <2> QED
    BY <1>1, <1>5, <2>4, GoesOnWalksOn
<1>6. \/ Abandon(d, tally) \/ Abandon(d, OneMoreError)
      \/ /\ frame' = [frame EXCEPT ![d].pc = "read", ![d].unread = DOMAIN world.entries[d]]
         /\ UNCHANGED <<node, tally, out>>
  BY DEF OpenDir
<1> QED
  BY <1>4, <1>5, <1>6

\* A batch of its entries is read, or its end, or an error.
LEMMA ReadWalksOn ==
    ASSUME Walking, NEW d \in Dirs, ReadBatch(d)
    PROVE  WalksOn
<1>1. frame[d].pc = "read" /\ UNCHANGED <<leaves, claimed, edges, counted>>
  BY DEF ReadBatch
<1>2. /\ FrameStands(world, d, frame[d]) /\ Called(world, frame, node)
      /\ FramesStand(world, frame)
  BY <1>1, WalkingIs
<1>3. frame[d].todo = {} /\ Active(frame[d]) /\ Alone(world, frame, node, d)
      /\ frame[d].plans = {} /\ frame[d].batch = {}
  BY <1>1, <1>2, BusyAlone DEF FrameStands, Active
<1>4. ASSUME NEW s, s = tally \/ s = OneMoreError, Abandon(d, s)
      PROVE  WalksOn
  <2>1. Goto(d, "done") /\ Record(MarkFailed(node, d), s)
    BY <1>4 DEF Abandon
  <2> QED
    BY <1>1, <1>3, <1>4, <2>1, GotoWalksOn
<1>5. CASE Goto(d, "done") /\ Record(node, tally)
  BY <1>1, <1>3, <1>5, GotoWalksOn
<1>6. ASSUME NEW batch \in SUBSET frame[d].unread, NEW kept \in SUBSET batch,
             frame' = [frame EXCEPT ![d].pc = "classify", ![d].unread = @ \ batch,
                                    ![d].plans = {}, ![d].batch = kept],
             UNCHANGED <<node, tally, out>>
      PROVE  WalksOn
  <2> PICK f : f = frame[d]
    OBVIOUS
  <2> PICK to : to = frame'
    OBVIOUS
  <2> PICK g : g = to[d]
    OBVIOUS
  <2>1. /\ f = FrameRecord(f) /\ to = [x \in Dirs |-> to[x]] /\ \A x \in Dirs \ {d} : to[x] = frame[x]
        /\ g = [f EXCEPT !.pc = "classify", !.unread = @ \ batch, !.plans = {}, !.batch = kept]
    BY <1>2, <1>6 DEF FrameStands, FramesStand
  <2>2. /\ g = FrameRecord(g) /\ g.pc = "classify" /\ g.unread = f.unread \ batch
        /\ g.batch = kept /\ g.plans = {} /\ g.todo = f.todo /\ g.caller = f.caller
    BY ONLY <2>1 DEF FrameRecord
  <2>3. FrameStands(world, d, g)
    <3>1. /\ f.unread \subseteq Names(world, d) /\ f.caller \in Dirs \cup {NoDir} /\ f.todo = {}
          /\ PlansStand(world, d, f.plans) /\ f.plans = {}
      BY <1>2, <1>3 DEF FrameStands
    <3>2. kept \subseteq f.unread /\ kept \cap (f.unread \ batch) = {}
      OBVIOUS
    <3> QED
      BY ONLY <2>2, <3>1, <3>2 DEF FrameStands
  <2>4. GoesOn(world, frame, to, node, d)
    BY <1>1, <1>3, <2>1, <2>2, <2>3 DEF GoesOn, Alone
  <2> QED
    BY <1>1, <1>6, <2>4, GoesOnWalksOn
<1>7. \/ Abandon(d, tally) \/ Abandon(d, OneMoreError)
      \/ Goto(d, "done") /\ Record(node, tally)
      \/ \E batch \in SUBSET frame[d].unread : \E kept \in SUBSET batch :
            /\ frame' = [frame EXCEPT ![d].pc = "classify", ![d].unread = @ \ batch,
                                      ![d].plans = {}, ![d].batch = kept]
            /\ UNCHANGED <<node, tally, out>>
  <2> DEFINE f == frame[d]
             size == Min({Cardinality(f.unread), world.batch})
  <2>1. ASSUME NEW batch \in kSubset(size, f.unread) \ {{}},
               frame' = [frame EXCEPT
                    ![d].pc = "classify", ![d].unread = @ \ batch, ![d].plans = {},
                    ![d].batch = {n \in batch :
                        AllowsEntry(world.policy, Append(f.path, n), Physical(d, n))}]
        PROVE  \E b \in SUBSET frame[d].unread : \E kept \in SUBSET b :
                frame' = [frame EXCEPT ![d].pc = "classify", ![d].unread = @ \ b,
                                      ![d].plans = {}, ![d].batch = kept]
    <3> DEFINE kept == {n \in batch : AllowsEntry(world.policy, Append(f.path, n), Physical(d, n))}
    <3>1. batch \in SUBSET frame[d].unread
      BY DEF kSubset
    <3>2. kept \in SUBSET batch
      OBVIOUS
    <3>3. frame' = [frame EXCEPT ![d].pc = "classify", ![d].unread = @ \ batch,
                                 ![d].plans = {}, ![d].batch = kept]
      BY <2>1
    <3> HIDE DEF kept
    <3> QED
      BY <3>1, <3>2, <3>3
  <2> QED
    BY <2>1 DEF ReadBatch
<1> QED
  BY <1>4, <1>5, <1>6, <1>7

\* A child that had no slot of its own returns.
LEMMA ReturnsWalksOn ==
    ASSUME Walking, NEW d \in Dirs, ChildReturns(d)
    PROVE  WalksOn
<1>1. frame[d].pc = "call" /\ Goto(d, "children")
      /\ UNCHANGED <<leaves, claimed, edges, counted, node, tally, out>>
  BY DEF ChildReturns
<1>2. Active(frame[d])
  BY <1>1 DEF Active
<1> QED
  BY <1>1, <1>2, GotoWalksOn

\* The children of a batch have been waited for.
LEMMA AwaitWalksOn ==
    ASSUME Walking, NEW d \in Dirs, AwaitChildren(d)
    PROVE  WalksOn
<1>1. /\ frame[d].pc = "children" /\ frame[d].todo = {}
      /\ \A c \in Dirs : frame[c].caller = d => frame[c].pc = "done"
      /\ UNCHANGED <<leaves, claimed, edges, counted>>
      /\ \/ Abandon(d, tally)
         \/ Goto(d, "read") /\ UNCHANGED <<node, tally, out>>
  BY DEF AwaitChildren
<1>2. Active(frame[d])
  BY <1>1 DEF Active
<1>3. Alone(world, frame, node, d)
  <2>1. Called(world, frame, node)
    BY <1>1, WalkingIs
  <2> QED
    BY <1>1, <2>1 DEF Alone, Called, Active
<1>4. CASE Abandon(d, tally)
  <2>1. Goto(d, "done") /\ Record(MarkFailed(node, d), tally)
    BY <1>4 DEF Abandon
  <2> QED
    BY <1>1, <1>2, <1>3, <2>1, GotoWalksOn
<1>5. CASE Goto(d, "read") /\ UNCHANGED <<node, tally, out>>
  BY <1>1, <1>2, <1>3, <1>5, GotoWalksOn
<1> QED
  BY <1>1, <1>4, <1>5

\* Fewer are met, or one more.
LEMMA MetWithin ==
    ASSUME NEW fr, NEW to, NEW ls, NEW now, NEW t, NEW s, MetCounted(fr, ls, t),
           TallyStands(t), TallyStands(s), NEW k,
           \/ Met(to, now) \subseteq Met(fr, ls) /\ s.files >= t.files
           \/ Met(to, now) \subseteq Met(fr, ls) \cup {k} /\ s.files = t.files + 1
    PROVE  MetCounted(to, now, s)
<1> PICK M : M = Met(fr, ls)
  OBVIOUS
<1> PICK N : N = Met(to, now)
  OBVIOUS
<1>1. IsFiniteSet(M) /\ Cardinality(M) <= t.files /\ Cardinality(M) \in Nat
  BY FS_CardinalityType DEF MetCounted
<1>2. t.files \in Nat /\ s.files \in Nat
  BY DEF TallyStands
<1>3. CASE N \subseteq M /\ s.files >= t.files
  <2>1. IsFiniteSet(N) /\ Cardinality(N) <= Cardinality(M) /\ Cardinality(N) \in Nat
    BY <1>1, <1>3, FS_Subset, FS_CardinalityType
  <2>2. IsFiniteSet(N) /\ Cardinality(N) <= s.files
    BY ONLY <1>1, <1>2, <1>3, <2>1
  <2> QED
    BY <2>2 DEF MetCounted
<1>4. CASE N \subseteq M \cup {k} /\ s.files = t.files + 1
  <2>1. IsFiniteSet(M \cup {k}) /\ Cardinality(M \cup {k}) \in Nat
        /\ Cardinality(M \cup {k}) <= Cardinality(M) + 1
    <3>1. IsFiniteSet(M \cup {k}) /\ (Cardinality(M \cup {k}) = Cardinality(M)
                                      \/ Cardinality(M \cup {k}) = Cardinality(M) + 1)
      BY <1>1, FS_AddElement
    <3> QED
      BY <1>1, <3>1, FS_CardinalityType
  <2>2. IsFiniteSet(N) /\ Cardinality(N) <= Cardinality(M \cup {k}) /\ Cardinality(N) \in Nat
    BY <1>4, <2>1, FS_Subset, FS_CardinalityType
  <2>3. IsFiniteSet(N) /\ Cardinality(N) <= s.files
    BY ONLY <1>1, <1>2, <1>4, <2>1, <2>2
  <2> QED
    BY <2>3 DEF MetCounted
<1> QED
  BY <1>3, <1>4

\* What an entry is to the scan is what it is in its world.
LEMMA EntryIs ==
    ASSUME Walking, NEW d \in Dirs, NEW n \in Names(world, d)
    PROVE  /\ Target(d, n) = Goal(world, d, n) /\ (ReachesDir(d, n) <=> Enters(world, d, n))
           /\ Identity(d, n) = IdOf(world, d, n) /\ SizeOf(d, n) \in Nat
           /\ (Deduplicated(d, n) <=> Multiple(world, d, n))
<1>1. /\ Target(d, n) = Goal(world, d, n) /\ (ReachesDir(d, n) <=> Enters(world, d, n))
      /\ Identity(d, n) = IdOf(world, d, n)
      /\ (Deduplicated(d, n) <=> Multiple(world, d, n))
  BY DEF Target, Goal, ReachesDir, Enters, IsAlias, Follow, Identity, IdOf, Deduplicated, Multiple
<1>2. Goal(world, d, n) \in Dirs \cup Files
  BY ScanAssumption DEF Walking, Goal, Names
<1>3. SizeOf(d, n) \in Nat
  BY <1>1, <1>2, ScanAssumption DEF SizeOf, Walking
<1> QED
  BY <1>1, <1>3

\* One entry of the batch was classified: P is its plan.
LEMMA PlannedWalksOn ==
    ASSUME Walking, NEW d \in Dirs, NEW n \in frame[d].batch, frame[d].pc = "classify", NEW P,
           Planned(d, n, P), IsFiniteSet(P), \A p, q \in P : p = q,
           UNCHANGED <<node, leaves, edges, out>>,
           claimed \subseteq claimed', claimed' \subseteq Dirs, counted \subseteq counted',
           \A p \in P :
                /\ p.name = n /\ p.bytes \in Nat
                /\ p.kind \in {"file", "error", "dir", "seen"}
                /\ (p.kind \in {"dir", "seen"} => Enters(world, d, n))
                /\ (p.kind = "dir" /\ world.follow =>
                        Goal(world, d, n) \in claimed' /\ Goal(world, d, n) \notin claimed)
                /\ (p.kind = "error" => p.bytes = 0)
                /\ (p.kind = "file" => ~Enters(world, d, n))
                /\ (p.kind = "file" /\ p.bytes > 0 /\ Multiple(world, d, n) =>
                        IdOf(world, d, n) \in counted' /\ IdOf(world, d, n) \notin counted),
           TallyStands(tally'), tally'.dirs >= tally.dirs, tally'.errors >= tally.errors,
           \/ tally'.files >= tally.files /\ \A p \in P : p.kind # "file"
           \/ tally'.files = tally.files + 1
    PROVE  WalksOn
<1>1. /\ world.root \in Dirs /\ TreeStands(world, node) /\ FramesStand(world, frame)
      /\ FrameStands(world, d, frame[d])
      /\ \A x \in Dirs : node[x].bytes \in Nat /\ node[x].files \in Nat
  BY WalkingIs
<1>2. WalkStands(world, frame, node, leaves, claimed, edges, counted) /\ world \in Worlds
  BY DEF Walking
<1> PICK to : to = frame'
  OBVIOUS
<1> PICK now : now = claimed'
  OBVIOUS
<1> PICK known : known = counted'
  OBVIOUS
<1>3. /\ to = [x \in Dirs |-> to[x]] /\ \A x \in Dirs \ {d} : to[x] = frame[x]
      /\ to[d] = [frame[d] EXCEPT !.batch = @ \ {n}, !.plans = @ \cup P]
  BY <1>1 DEF Planned, FramesStand
<1>4. Classifies(world, frame, to, node, claimed, now, counted, known, d, n, P)
  BY <1>3 DEF Classifies
<1>5. WalkStands(world, to, node, leaves, now, edges, known)
  BY ONLY <1>2, <1>4, ClassifiesKeeps, d \in Dirs
<1>6. /\ to[d].plans = frame[d].plans \cup P
  <2> PICK f : f = frame[d]
    OBVIOUS
  <2> PICK g : g = to[d]
    OBVIOUS
  <2>1. f = FrameRecord(f) /\ g = [f EXCEPT !.batch = @ \ {n}, !.plans = @ \cup P]
    BY <1>1, <1>3 DEF FrameStands
  <2>2. g.plans = f.plans \cup P
    BY ONLY <2>1 DEF FrameRecord
  <2> QED
    BY <2>2
<1>7. /\ Met(to, leaves) \subseteq Met(frame, leaves) \cup {<<d, n>>}
      /\ (\A p \in P : p.kind # "file") => Met(to, leaves) \subseteq Met(frame, leaves)
  BY <1>3, <1>6 DEF Met
<1>8. MetCounted(to, leaves, tally')
  <2>1. MetCounted(frame, leaves, tally) /\ TallyStands(tally)
    BY DEF Walking
  <2> QED
    BY <1>7, <2>1, MetWithin
<1>9. NoneLost(world, node, tally, node', tally')
  BY <1>1 DEF NoneLost, Walking, TallyStands
<1> QED
  BY <1>5, <1>8, <1>9 DEF WalksOn

\* An entry is classified: it is skipped, fails, or is planned.
LEMMA ClassifyWalksOn ==
    ASSUME Walking, NEW d \in Dirs, Classify(d)
    PROVE  WalksOn
<1>1. /\ frame[d].pc = "classify" /\ UNCHANGED <<node, leaves, edges, out>>
      /\ \E n \in frame[d].batch :
          \/ ClassifyFails(d, n) \/ ClassifyDir(d, n)
          \/ ClassifyFile(d, n) \/ ClassifyFiltered(d, n)
  BY DEF Classify
<1> PICK n \in frame[d].batch :
          \/ ClassifyFails(d, n) \/ ClassifyDir(d, n)
          \/ ClassifyFile(d, n) \/ ClassifyFiltered(d, n)
  BY <1>1
<1>2. n \in Names(world, d)
  <2>1. FrameStands(world, d, frame[d])
    BY <1>1, WalkingIs
  <2> QED
    BY <2>1 DEF FrameStands
<1>3. /\ Target(d, n) = Goal(world, d, n) /\ (ReachesDir(d, n) <=> Enters(world, d, n))
      /\ Identity(d, n) = IdOf(world, d, n) /\ SizeOf(d, n) \in Nat
      /\ (Deduplicated(d, n) <=> Multiple(world, d, n))
  BY <1>2, EntryIs
<1>4. claimed \subseteq Dirs /\ TallyStands(tally)
  BY DEF Walking, WalkStands, Claimed
<1>5. tally.files \in Nat /\ tally.dirs \in Nat /\ tally.errors \in Nat
  BY <1>4 DEF TallyStands
<1>6. CASE ClassifyFails(d, n)
  <2> DEFINE p == Plan(d, n, "error", 0, FALSE)
  <2>1. p.name = n /\ p.bytes = 0 /\ p.kind = "error"
    BY DEF Plan
  <2>2. Planned(d, n, {p}) /\ tally' = OneMoreError /\ UNCHANGED <<claimed, counted>>
    BY <1>6 DEF ClassifyFails
  <2>3. IsFiniteSet({p})
    BY FS_Singleton
  <2>4. /\ TallyStands(tally') /\ tally'.files >= tally.files /\ tally'.dirs >= tally.dirs
        /\ tally'.errors >= tally.errors
    BY <1>4, <2>2, ErrorsAdd
  <2> HIDE DEF p
  <2> QED
    BY <1>1, <1>4, <2>1, <2>2, <2>3, <2>4, PlannedWalksOn
<1>7. CASE ClassifyDir(d, n)
  <2> DEFINE first == ~Follow \/ Target(d, n) \notin claimed
             p == Plan(d, n, IF first THEN "dir" ELSE "seen", 0, FALSE)
  <2>1. p.name = n /\ p.bytes = 0 /\ p.kind = (IF first THEN "dir" ELSE "seen")
    BY DEF Plan
  <2>2. /\ ReachesDir(d, n) /\ Planned(d, n, {p}) /\ UNCHANGED <<tally, counted>>
        /\ claimed' = IF Follow THEN claimed \cup {Target(d, n)} ELSE claimed
    BY <1>7 DEF ClassifyDir
  <2>3. IsFiniteSet({p})
    BY FS_Singleton
  <2>4. Enters(world, d, n) /\ Goal(world, d, n) \in Dirs
    BY <1>3, <2>2 DEF Enters
  <2>5. claimed \subseteq claimed' /\ claimed' \subseteq Dirs
    BY <1>3, <1>4, <2>2, <2>4
  <2>6. p.kind = "dir" /\ world.follow =>
            Goal(world, d, n) \in claimed' /\ Goal(world, d, n) \notin claimed
    BY <1>3, <2>1, <2>2 DEF Follow
  <2>7. p.kind \in {"dir", "seen"}
    BY <2>1
  <2> HIDE DEF p, first
  <2> QED
    BY <1>1, <1>4, <1>5, <2>1, <2>2, <2>3, <2>4, <2>5, <2>6, <2>7, PlannedWalksOn
<1>8. CASE ClassifyFile(d, n)
  <2> DEFINE again == Deduplicated(d, n) /\ Identity(d, n) \in counted
             p == Plan(d, n, "file", IF again THEN 0 ELSE SizeOf(d, n), again)
  <2>1. p.name = n /\ p.bytes = (IF again THEN 0 ELSE SizeOf(d, n)) /\ p.kind = "file"
    BY DEF Plan
  <2>2. /\ ~ReachesDir(d, n) /\ Planned(d, n, {p}) /\ UNCHANGED claimed
        /\ counted' = (IF Deduplicated(d, n) THEN counted \cup {Identity(d, n)} ELSE counted)
        /\ tally' = [tally EXCEPT !.files = @ + 1]
    BY <1>8 DEF ClassifyFile
  <2>3. IsFiniteSet({p})
    BY FS_Singleton
  <2>4. ~Enters(world, d, n) /\ counted \subseteq counted' /\ p.bytes \in Nat
    BY <1>3, <2>1, <2>2
  <2>5. p.bytes > 0 /\ Multiple(world, d, n) =>
            IdOf(world, d, n) \in counted' /\ IdOf(world, d, n) \notin counted
    BY <1>3, <2>1, <2>2
  <2>6. tally' = [files |-> tally.files + 1, dirs |-> tally.dirs, errors |-> tally.errors]
    BY <1>4, <2>2 DEF TallyStands
  <2>7. /\ TallyStands(tally') /\ tally'.files = tally.files + 1 /\ tally'.dirs >= tally.dirs
        /\ tally'.errors >= tally.errors
    BY <1>5, <2>6 DEF TallyStands
  <2> HIDE DEF p, again
  <2> QED
    BY <1>1, <1>4, <2>1, <2>2, <2>3, <2>4, <2>5, <2>7, PlannedWalksOn
<1>9. CASE ClassifyFiltered(d, n)
  <2>1. Planned(d, n, {}) /\ UNCHANGED <<tally, claimed, counted>>
    BY <1>9 DEF ClassifyFiltered
  <2>2. IsFiniteSet({})
    BY FS_EmptySet
  <2> QED
    BY <1>1, <1>4, <1>5, <2>1, <2>2, PlannedWalksOn
<1> QED
  BY <1>6, <1>7, <1>8, <1>9

-----------------------------------------------------------------------------
(***************************************************************************)
(* A walk: a directory is entered                                          *)
(***************************************************************************)

\* The scan of d begins the one of its child c.
EntersChild(w, fr, to, d, n, c) ==
    /\ to = [x \in Dirs |-> to[x]] /\ \A x \in Dirs \ {c, d} : to[x] = fr[x]
    /\ fr[d].pc = "children" /\ n \in fr[d].todo /\ c = Goal(w, d, n)
    /\ FrameStands(w, d, to[d]) /\ to[d].pc \in {"children", "call"}
    /\ to[d].todo = fr[d].todo \ {n} /\ to[d].plans = {} /\ to[d].caller = fr[d].caller
    /\ to[d].unread = fr[d].unread /\ to[d].batch = {}
    /\ FrameStands(w, c, to[c]) /\ to[c].pc = "begin" /\ to[c].caller = d
    /\ to[c].plans = {} /\ to[c].todo = {}

\* A child that is entered has its scan begun, and is entered by its parent alone.
LEMMA EntersKeeps ==
    ASSUME NEW w, NEW fr, NEW nd, NEW ls, NEW cl, NEW ed, NEW co,
           WalkStands(w, fr, nd, ls, cl, ed, co), w.root \in Dirs,
           NEW d \in Dirs, NEW to, NEW n, NEW c, EntersChild(w, fr, to, d, n, c)
    PROVE  /\ WalkStands(w, to, nd, ls, cl, ed, co)
           /\ \A x \in Dirs : to[x].plans = fr[x].plans
<1>1. /\ c \in Dirs /\ nd[c].live /\ nd[c].parent = d /\ nd[c].name = n /\ fr[c].pc = "idle"
      /\ c # d
  BY DEF EntersChild, WalkStands, Waited
<1>2. /\ FrameStands(w, d, fr[d]) /\ FrameStands(w, c, fr[c])
  BY <1>1 DEF WalkStands, FramesStand
<1>3. fr[d].plans = {} /\ fr[c].plans = {}
  BY <1>1, <1>2 DEF FrameStands, EntersChild
<1>4. FramesStand(w, to)
  BY <1>1 DEF FramesStand, EntersChild, WalkStands
<1>5. \A x \in Dirs : to[x].plans = fr[x].plans
  BY <1>1, <1>3 DEF EntersChild
<1>6. ASSUME NEW x \in Dirs, NEW m, Behind(fr[x], m)
      PROVE  Behind(to[x], m)
  <2>1. x # c
    BY <1>1, <1>6 DEF Behind
  <2>2. CASE x = d
    BY <1>6, <2>2 DEF Behind, EntersChild
  <2>3. CASE x # d
    BY <1>6, <2>1, <2>3 DEF EntersChild
  <2> QED
    BY <2>2, <2>3
<1>7. RecordedOnce(w, to, nd, ls)
  <2>1. \A l \in ls : l.dir \in Dirs
    BY DEF WalkStands, LeavesStand
  <2>2. \A x \in Dirs : nd[x].live /\ x # w.root => nd[x].parent \in Dirs
    BY DEF WalkStands, TreeStands
  <2> QED
    BY <1>6, <2>1, <2>2 DEF WalkStands, RecordedOnce
<1>8. Started(w, to, nd)
  <2>1. to[w.root].pc # "idle"
    BY <1>1 DEF WalkStands, Started, EntersChild
  <2>2. ASSUME NEW x \in Dirs
        PROVE  (~nd[x].live => to[x].pc = "idle") /\ (to[x].pc \in {"idle", "begin"} => nd[x].self = 0)
    <3>1. /\ (~nd[x].live => fr[x].pc = "idle")
          /\ (fr[x].pc \in {"idle", "begin"} => nd[x].self = 0)
      BY DEF WalkStands, Started
    <3>2. CASE x = c
      BY <1>1, <3>1, <3>2
    <3>3. CASE x = d
      BY <3>1, <3>3 DEF EntersChild
    <3>4. CASE x # c /\ x # d
      BY <3>1, <3>4 DEF EntersChild
    <3> QED
      BY <3>2, <3>3, <3>4
  <2> QED
    BY <2>1, <2>2 DEF Started
<1>9. Called(w, to, nd)
  <2> SUFFICES ASSUME NEW x \in Dirs, Active(to[x]), x # w.root
               PROVE  to[x].caller = nd[x].parent /\ to[nd[x].parent].pc \in {"children", "call"}
    BY DEF Called
  <2>1. CASE x = c
    BY <1>1, <2>1 DEF EntersChild
  <2>2. CASE x # c
    <3>1. Active(fr[x]) /\ to[x].caller = fr[x].caller
      BY <2>2 DEF EntersChild, Active
    <3>2. fr[x].caller = nd[x].parent /\ fr[nd[x].parent].pc \in {"children", "call"}
      BY <3>1 DEF WalkStands, Called
    <3>3. nd[x].parent \in Dirs
      BY <3>1 DEF WalkStands, Started, TreeStands, Active
    <3>4. nd[x].parent # c
      BY <1>1, <3>2
    <3>5. to[nd[x].parent].pc \in {"children", "call"}
      BY <3>2, <3>3, <3>4 DEF EntersChild
    <3> QED
      BY <3>1, <3>2, <3>5
  <2> QED
    BY <2>1, <2>2
<1>10. Waited(w, to, nd)
  <2> SUFFICES ASSUME NEW x \in Dirs, NEW m \in to[x].todo
               PROVE  /\ Goal(w, x, m) \in Dirs /\ nd[Goal(w, x, m)].live
                      /\ nd[Goal(w, x, m)].parent = x /\ nd[Goal(w, x, m)].name = m
                      /\ to[Goal(w, x, m)].pc = "idle"
    BY DEF Waited
  <2>1. m \in fr[x].todo /\ (x = d => m # n)
    BY <1>1 DEF EntersChild
  <2>2. /\ Goal(w, x, m) \in Dirs /\ nd[Goal(w, x, m)].live
        /\ nd[Goal(w, x, m)].parent = x /\ nd[Goal(w, x, m)].name = m
        /\ fr[Goal(w, x, m)].pc = "idle"
    BY <2>1 DEF WalkStands, Waited
  <2>3. Goal(w, x, m) # c /\ Goal(w, x, m) # d
    BY <1>1, <2>1, <2>2 DEF EntersChild
  <2> QED
    BY <2>2, <2>3 DEF EntersChild
<1>11. Claimed(w, to, nd, cl)
  BY <1>5 DEF WalkStands, Claimed
<1>12. Weighed(w, to, ls, co)
  <2>1. \A x \in Dirs : \A m : Weighs(w, to, ls, x, m) <=> Weighs(w, fr, ls, x, m)
    BY <1>5 DEF Weighs
  <2> QED
    BY <2>1 DEF WalkStands, Weighed
<1> QED
  BY <1>4, <1>5, <1>7, <1>8, <1>9, <1>10, <1>11, <1>12 DEF WalkStands

\* A child is entered, in a slot of its own or by its parent.
LEMMA ChildWalksOn ==
    ASSUME Walking, NEW d \in Dirs, ScanChild(d)
    PROVE  WalksOn
<1>1. frame[d].pc = "children" /\ UNCHANGED <<leaves, claimed, edges, counted>>
  BY DEF ScanChild
<1>2. PICK n \in frame[d].todo :
          LET c == Target(d, n)
              free == Cardinality(Running) < world.slots
              rest == [frame EXCEPT ![d].todo = @ \ {n}]
          IN
          \/ /\ cancelled
             /\ frame' = rest
             /\ Record(MarkFailed(node, c), tally)
          \/ /\ ~cancelled
             /\ frame' = [rest EXCEPT
                    ![d].pc = IF free THEN "children" ELSE "call",
                    ![c] = [NoFrame EXCEPT !.pc = "begin", !.caller = d,
                              !.spawned = free,
                              !.path = Append(frame[d].path, n),
                              !.fstype = IF world.device[c] # world.device[d] \/ IsAlias(d, n)
                                         THEN FSOf(world.mounts, Physical(d, n))
                                         ELSE frame[d].fstype]]
             /\ UNCHANGED <<node, tally, out>>
  BY DEF ScanChild
<1> PICK c : c = Goal(world, d, n)
  OBVIOUS
<1> PICK rest : rest = [frame EXCEPT ![d].todo = @ \ {n}]
  OBVIOUS
<1>3. Target(d, n) = c
  BY DEF Target, Goal
<1>4. /\ world.root \in Dirs /\ TreeStands(world, node) /\ TotalsStand(node, leaves)
      /\ FrameStands(world, d, frame[d]) /\ Called(world, frame, node)
      /\ FramesStand(world, frame)
      /\ \A x \in Dirs : node[x].bytes \in Nat /\ node[x].files \in Nat
  BY <1>1, WalkingIs
<1>5. /\ c \in Dirs /\ node[c].live /\ frame[c].pc = "idle" /\ c # d
  BY <1>1 DEF Walking, WalkStands, Waited
<1>6. WalkStands(world, frame, node, leaves, claimed, edges, counted) /\ TallyStands(tally)
      /\ MetCounted(frame, leaves, tally)
  BY DEF Walking
<1> PICK f : f = frame[d]
  OBVIOUS
<1>7. f.plans = {} /\ f.batch = {} /\ f = FrameRecord(f) /\ FrameStands(world, d, f)
  BY <1>1, <1>4 DEF FrameStands
<1> PICK r : r = rest[d]
  OBVIOUS
<1>8. /\ rest = [x \in Dirs |-> rest[x]] /\ \A x \in Dirs \ {d} : rest[x] = frame[x]
      /\ r = [f EXCEPT !.todo = @ \ {n}]
  BY <1>4 DEF FramesStand
<1>9. /\ r = FrameRecord(r) /\ r.pc = f.pc /\ r.unread = f.unread /\ r.batch = {} /\ r.plans = {}
      /\ r.todo = f.todo \ {n} /\ r.caller = f.caller
  BY ONLY <1>7, <1>8 DEF FrameRecord
<1>10. ASSUME cancelled, frame' = rest, Record(MarkFailed(node, c), tally)
       PROVE  WalksOn
  <2> PICK now : now = MarkFailed(node, c)
    OBVIOUS
  <2>1. /\ node' = now /\ tally' = tally
        /\ (out' = out \/ (out = <<>> /\ out' = <<Sight(world, node', tally', FALSE)>>))
    BY <1>10, RecordIs
  <2>2. /\ StaysIn(node, now, d) /\ TreeStands(world, now) /\ TotalsStand(now, leaves)
        /\ \A y \in Dirs : now[y].bytes = node[y].bytes /\ now[y].files = node[y].files
    BY <1>4, <1>5, FailedStands
  <2>3. FrameStands(world, d, r)
    BY <1>1, <1>7, <1>9 DEF FrameStands
  <2>4. GoesOn(world, frame, rest, node, d)
    BY <1>1, <1>7, <1>8, <1>9, <2>3 DEF GoesOn, Active
  <2>5. WalkStands(world, rest, now, leaves, claimed, edges, counted)
    BY ONLY <1>4, <1>6, <2>2, <2>4, GoesOnKeeps, d \in Dirs
  <2>6. \A x \in Dirs : rest[x].plans = frame[x].plans
    BY <1>7, <1>8, <1>9
  <2>7. MetCounted(rest, leaves, tally)
    <3>1. tally.files \in Nat /\ tally.files >= tally.files
      BY <1>6 DEF TallyStands
    <3> QED
      BY ONLY <1>6, <2>6, <3>1, MetSame
  <2>8. NoneLost(world, node, tally, now, tally)
    BY <1>4, <1>6, <2>2 DEF NoneLost, TallyStands
  <2> QED
    BY <1>1, <1>6, <1>10, <2>1, <2>5, <2>7, <2>8 DEF WalksOn
<1>11. ASSUME NEW free \in BOOLEAN, NEW path, NEW fstype,
              frame' = [rest EXCEPT
                    ![d].pc = IF free THEN "children" ELSE "call",
                    ![c] = [NoFrame EXCEPT !.pc = "begin", !.caller = d,
                              !.spawned = free, !.path = path, !.fstype = fstype]],
              UNCHANGED <<node, tally, out>>
       PROVE  WalksOn
  <2> PICK pc : pc = IF free THEN "children" ELSE "call"
    OBVIOUS
  <2> PICK to : to = frame'
    OBVIOUS
  <2> PICK h : h = [NoFrame EXCEPT !.pc = "begin", !.caller = d,
                              !.spawned = free, !.path = path, !.fstype = fstype]
    OBVIOUS
  <2>1. to = [rest EXCEPT ![d].pc = pc, ![c] = h]
    BY <1>11
  <2>2. /\ to = [x \in Dirs |-> to[x]] /\ (\A x \in Dirs \ {c, d} : to[x] = frame[x])
        /\ to[c] = h /\ to[d] = [r EXCEPT !.pc = pc]
    BY <1>5, <1>8, <2>1
  <2> PICK g : g = to[d]
    OBVIOUS
  <2>3. /\ g = FrameRecord(g) /\ g.pc = pc /\ g.unread = f.unread /\ g.batch = {} /\ g.plans = {}
        /\ g.todo = f.todo \ {n} /\ g.caller = f.caller
    <3>1. g = [r EXCEPT !.pc = pc]
      BY <2>2
    <3> QED
      BY ONLY <1>9, <3>1 DEF FrameRecord
  <2>4. pc \in {"children", "call"}
    OBVIOUS
  <2>5. FrameStands(world, d, g)
    BY <1>1, <1>7, <2>3, <2>4 DEF FrameStands
  <2>6. /\ h = FrameRecord(h) /\ h.pc = "begin" /\ h.unread = {} /\ h.batch = {} /\ h.plans = {}
        /\ h.todo = {} /\ h.caller = d
    BY DEF NoFrame, FrameRecord
  <2>7. FrameStands(world, c, h)
    <3>1. PlansStand(world, c, {})
      BY FS_EmptySet DEF PlansStand
    <3> QED
      BY <2>6, <3>1 DEF FrameStands
  <2>8. EntersChild(world, frame, to, d, n, c)
    BY <1>1, <2>2, <2>3, <2>4, <2>5, <2>6, <2>7 DEF EntersChild
  <2>9. /\ WalkStands(world, to, node, leaves, claimed, edges, counted)
        /\ \A x \in Dirs : to[x].plans = frame[x].plans
    BY ONLY <1>4, <1>6, <2>8, EntersKeeps, d \in Dirs
  <2>10. MetCounted(to, leaves, tally)
    BY <1>6, <2>9, MetSame DEF TallyStands
  <2>11. NoneLost(world, node, tally, node, tally)
    BY <1>4, <1>6 DEF NoneLost, TallyStands
  <2> QED
    BY <1>1, <1>6, <1>11, <2>9, <2>10, <2>11 DEF WalksOn
<1>12. CASE cancelled /\ frame' = rest /\ Record(MarkFailed(node, c), tally)
  BY <1>10, <1>12
<1>13. CASE ~(cancelled /\ frame' = rest /\ Record(MarkFailed(node, c), tally))
  <2> DEFINE free == Cardinality(Running) < world.slots
             path == Append(frame[d].path, n)
             fstype == IF world.device[c] # world.device[d] \/ IsAlias(d, n)
                       THEN FSOf(world.mounts, Physical(d, n)) ELSE frame[d].fstype
  <2>1. /\ frame' = [rest EXCEPT
                    ![d].pc = IF free THEN "children" ELSE "call",
                    ![c] = [NoFrame EXCEPT !.pc = "begin", !.caller = d,
                              !.spawned = free, !.path = path, !.fstype = fstype]]
        /\ UNCHANGED <<node, tally, out>>
    BY <1>2, <1>3, <1>13
  <2>2. free \in BOOLEAN
    OBVIOUS
  <2> HIDE DEF free, path, fstype
  <2> QED
    BY <1>11, <2>1, <2>2
<1> QED
  BY <1>12, <1>13

-----------------------------------------------------------------------------
(***************************************************************************)
(* A walk: a batch enters the tree                                         *)
(***************************************************************************)

ToEnter(f) == {p \in f.plans : p.kind = "dir"}
ToAdd(f) == {p \in f.plans : p.kind \in {"file", "error"}}
LeafOf(w, d, p) == [dir |-> d, name |-> p.name, id |-> IdOf(w, d, p.name), bytes |-> p.bytes,
                    link |-> p.link, err |-> p.kind = "error"]
NewChildren(w, d, f) == {Goal(w, d, p.name) : p \in ToEnter(f)}
NewLeaves(w, d, f) == {LeafOf(w, d, p) : p \in ToAdd(f)}

Recording(w, fr, to, nd, now, d) ==
    /\ to = [x \in Dirs |-> to[x]] /\ \A x \in Dirs \ {d} : to[x] = fr[x]
    /\ fr[d].pc = "classify" /\ FrameStands(w, d, to[d]) /\ to[d].pc \in {"children", "done"}
    /\ to[d].plans = {} /\ to[d].batch = {} /\ to[d].unread = fr[d].unread
    /\ to[d].caller = fr[d].caller /\ to[d].todo \subseteq {p.name : p \in ToEnter(fr[d])}
    /\ now = [x \in Dirs |-> now[x]]
    /\ \A x \in Dirs : now[x] = NodeRecord(now[x]) /\ now[x].live \in BOOLEAN
    /\ Grown(nd, now, d, NewChildren(w, d, fr[d]), BytesOf(NewLeaves(w, d, fr[d])),
             Cardinality({l \in NewLeaves(w, d, fr[d]) : ~l.err}))
    /\ \A p \in ToEnter(fr[d]) : now[Goal(w, d, p.name)].name = p.name
    /\ \A x \in Dirs \ NewChildren(w, d, fr[d]) :
          now[x].name = nd[x].name /\ (~nd[x].live => now[x] = nd[x])

\* What a leaf's record holds.
LEMMA LeafOfIs ==
    ASSUME NEW w, NEW d, NEW p
    PROVE  /\ LeafOf(w, d, p) = LeafRecord(LeafOf(w, d, p))
           /\ LeafOf(w, d, p).dir = d /\ LeafOf(w, d, p).name = p.name
           /\ LeafOf(w, d, p).id = IdOf(w, d, p.name) /\ LeafOf(w, d, p).bytes = p.bytes
           /\ LeafOf(w, d, p).err = (p.kind = "error")
BY DEF LeafOf, LeafRecord

\* One leaf for a plan: finitely many.
LEMMA NewLeavesFinite ==
    ASSUME NEW w, NEW d, NEW f, IsFiniteSet(f.plans)
    PROVE  IsFiniteSet(NewLeaves(w, d, f))
<1> DEFINE g == [p \in ToAdd(f) |-> LeafOf(w, d, p)]
<1>1. IsFiniteSet(ToAdd(f))
  BY FS_Subset DEF ToAdd
<1>2. g \in Surjection(ToAdd(f), NewLeaves(w, d, f))
  BY DEF Surjection, NewLeaves
<1> HIDE DEF g
<1> QED
  BY <1>1, <1>2, FS_Surjection

\* What is recorded is new, and was not there.
LEMMA NewIs ==
    ASSUME NEW w, NEW fr, NEW nd, NEW ls, NEW cl, NEW ed, NEW co,
           WalkStands(w, fr, nd, ls, cl, ed, co), NEW d \in Dirs, fr[d].pc = "classify"
    PROVE  /\ FrameStands(w, d, fr[d]) /\ nd[d].live /\ Tree(nd)
           /\ IsFiniteSet(NewLeaves(w, d, fr[d])) /\ NewLeaves(w, d, fr[d]) \cap ls = {}
           /\ \A l \in NewLeaves(w, d, fr[d]) :
                /\ l = LeafRecord(l) /\ l.dir = d /\ l.name \in Names(w, d)
                /\ l.id = IdOf(w, d, l.name) /\ l.bytes \in Nat /\ l.err \in BOOLEAN
                /\ (l.err => l.bytes = 0) /\ (~l.err => ~Enters(w, d, l.name))
                /\ \A o \in ls : ~(o.dir = d /\ o.name = l.name)
                /\ \A o \in NewLeaves(w, d, fr[d]) : o.name = l.name => o = l
                /\ \E p \in fr[d].plans : p.name = l.name /\ p.bytes = l.bytes
                                          /\ p.kind = (IF l.err THEN "error" ELSE "file")
           /\ NewChildren(w, d, fr[d]) \subseteq Dirs
           /\ \A x \in NewChildren(w, d, fr[d]) : ~nd[x].live /\ fr[x].pc = "idle"
           /\ d \notin NewChildren(w, d, fr[d])
<1> PICK f : f = fr[d]
  OBVIOUS
<1>1. FrameStands(w, d, f) /\ nd[d].live /\ Tree(nd)
  BY DEF WalkStands, FramesStand, Started, TreeStands
<1>2. PlansStand(w, d, f.plans)
  BY <1>1 DEF FrameStands
<1>3. IsFiniteSet(NewLeaves(w, d, f))
  BY <1>2, NewLeavesFinite DEF PlansStand
<1>4. ASSUME NEW o \in ls, NEW p \in f.plans, o.dir = d, o.name = p.name
      PROVE  FALSE
  BY <1>4 DEF WalkStands, RecordedOnce, Behind
<1>5. ASSUME NEW l \in NewLeaves(w, d, f)
      PROVE  /\ l = LeafRecord(l) /\ l.dir = d /\ l.name \in Names(w, d)
             /\ l.id = IdOf(w, d, l.name) /\ l.bytes \in Nat /\ l.err \in BOOLEAN
             /\ (l.err => l.bytes = 0) /\ (~l.err => ~Enters(w, d, l.name))
             /\ (\A o \in ls : ~(o.dir = d /\ o.name = l.name))
             /\ (\A o \in NewLeaves(w, d, f) : o.name = l.name => o = l)
             /\ \E p \in f.plans : p.name = l.name /\ p.bytes = l.bytes
                                   /\ p.kind = (IF l.err THEN "error" ELSE "file")
  <2> PICK p \in ToAdd(f) : l = LeafOf(w, d, p)
    BY DEF NewLeaves
  <2>1. p \in f.plans /\ p.kind \in {"file", "error"}
    BY DEF ToAdd
  <2>2. /\ l = LeafRecord(l) /\ l.dir = d /\ l.name = p.name
        /\ l.id = IdOf(w, d, p.name) /\ l.bytes = p.bytes /\ l.err = (p.kind = "error")
    BY LeafOfIs
  <2>3. /\ p.name \in Names(w, d) /\ p.bytes \in Nat
        /\ (p.kind = "file" => ~Enters(w, d, p.name)) /\ (p.kind = "error" => p.bytes = 0)
    BY <1>2, <2>1 DEF PlansStand
  <2>4. \A o \in NewLeaves(w, d, f) : o.name = l.name => o = l
    <3> SUFFICES ASSUME NEW q \in ToAdd(f), LeafOf(w, d, q).name = l.name
                 PROVE  LeafOf(w, d, q) = l
      BY DEF NewLeaves
    <3>1. q.name = p.name /\ q \in f.plans
      BY <2>2, LeafOfIs DEF ToAdd
    <3> QED
      BY <1>2, <2>1, <3>1 DEF PlansStand
  <2>5. \A o \in ls : ~(o.dir = d /\ o.name = l.name)
    BY <1>4, <2>1, <2>2
  <2>6. l.err \in BOOLEAN
    BY <2>2
  <2>7. p.kind = (IF l.err THEN "error" ELSE "file")
    BY <2>1, <2>2
  <2> QED
    BY <2>1, <2>2, <2>3, <2>4, <2>5, <2>6, <2>7
<1>6. NewLeaves(w, d, f) \cap ls = {}
  BY <1>5
<1>7. NewChildren(w, d, f) \subseteq Dirs
  BY <1>2 DEF NewChildren, ToEnter, PlansStand, Enters
<1>8. \A x \in NewChildren(w, d, f) : ~nd[x].live
  BY DEF NewChildren, ToEnter, WalkStands, Claimed
<1>9. \A x \in NewChildren(w, d, f) : fr[x].pc = "idle"
  BY <1>7, <1>8 DEF WalkStands, Started
<1> QED
  BY <1>1, <1>3, <1>5, <1>6, <1>7, <1>8, <1>9

\* The tree stands with the batch in it, and every total is right.
LEMMA RecordingTree ==
    ASSUME NEW w, NEW fr, NEW nd, NEW ls, NEW cl, NEW ed, NEW co,
           WalkStands(w, fr, nd, ls, cl, ed, co), w.root \in Dirs, NEW d \in Dirs,
           NEW to, NEW now, Recording(w, fr, to, nd, now, d)
    PROVE  /\ TreeStands(w, now) /\ TotalsStand(now, ls \cup NewLeaves(w, d, fr[d]))
           /\ w.root \notin NewChildren(w, d, fr[d])
<1> PICK K : K = NewChildren(w, d, fr[d])
  OBVIOUS
<1> PICK new : new = NewLeaves(w, d, fr[d])
  OBVIOUS
<1>1. /\ nd[d].live /\ Tree(nd) /\ IsFiniteSet(new) /\ new \cap ls = {}
      /\ (\A l \in new : l.bytes \in Nat /\ l.dir = d)
      /\ K \subseteq Dirs /\ (\A x \in K : ~nd[x].live) /\ d \notin K
      /\ FrameStands(w, d, fr[d])
  BY NewIs DEF Recording
<1>2. Grown(nd, now, d, K, BytesOf(new), Cardinality({l \in new : ~l.err}))
  BY DEF Recording
<1>3. Tree(now)
  BY <1>1, <1>2, GrownPlaces
<1>4. TotalsStand(now, ls \cup new)
  <2>1. /\ IsFiniteSet(ls) /\ \A l \in ls : l.bytes \in Nat /\ l.dir \in Dirs /\ nd[l.dir].live
    BY DEF WalkStands, LeavesStand
  <2>2. TotalsStand(nd, ls)
    BY DEF WalkStands
  <2>3. K \in SUBSET Dirs
    BY <1>1
  <2> QED
    BY ONLY <1>1, <1>2, <2>1, <2>2, <2>3, GrownTotals, d \in Dirs
<1>5. w.root \notin K
  BY <1>1 DEF WalkStands, TreeStands
<1>6. ASSUME NEW x \in Dirs
      PROVE  IF x \in K THEN now[x].live /\ now[x].parent = d
             ELSE now[x].live = nd[x].live /\ now[x].parent = nd[x].parent
  BY <1>2 DEF Grown
<1>7. TreeStands(w, now)
  <2>1. now[w.root].live /\ now[w.root].parent = NoDir
    BY <1>5, <1>6 DEF WalkStands, TreeStands
  <2>2. ASSUME NEW x \in Dirs, ~now[x].live
        PROVE  now[x] = NoNode
    <3>1. x \notin K /\ ~nd[x].live
      BY <1>6, <2>2
    <3> QED
      BY <3>1 DEF Recording, WalkStands, TreeStands
  <2>3. ASSUME NEW x \in Dirs, now[x].live, x # w.root
        PROVE  /\ now[x].parent \in Dirs /\ now[x].name \in Names(w, now[x].parent)
               /\ Goal(w, now[x].parent, now[x].name) = x
               /\ Enters(w, now[x].parent, now[x].name)
    <3>1. CASE x \in K
      <4>1. PICK p \in ToEnter(fr[d]) : x = Goal(w, d, p.name)
        BY <3>1 DEF NewChildren
      <4>2. now[x].name = p.name /\ now[x].parent = d
        BY <1>6, <3>1, <4>1 DEF Recording
      <4>3. p.name \in Names(w, d) /\ Enters(w, d, p.name)
        BY <1>1 DEF ToEnter, FrameStands, PlansStand
      <4> QED
        BY <4>1, <4>2, <4>3
    <3>2. CASE x \notin K
      <4>1. nd[x].live /\ now[x].parent = nd[x].parent /\ now[x].name = nd[x].name
        BY <1>6, <2>3, <3>2 DEF Recording
      <4> QED
        BY <2>3, <4>1 DEF WalkStands, TreeStands
    <3> QED
      BY <3>1, <3>2
  <2>4. now = [x \in Dirs |-> now[x]] /\ \A x \in Dirs : now[x] = NodeRecord(now[x]) /\ now[x].live \in BOOLEAN
    BY DEF Recording
  <2> QED
    BY <1>3, <2>1, <2>2, <2>3, <2>4 DEF TreeStands
<1> QED
  BY <1>4, <1>5, <1>7

\* The leaves of the batch are in place, each recorded once.
LEMMA RecordingLeaves ==
    ASSUME NEW w, NEW fr, NEW nd, NEW ls, NEW cl, NEW ed, NEW co,
           WalkStands(w, fr, nd, ls, cl, ed, co), w.root \in Dirs, NEW d \in Dirs,
           NEW to, NEW now, Recording(w, fr, to, nd, now, d)
    PROVE  LET all == ls \cup NewLeaves(w, d, fr[d]) IN
           /\ LeavesStand(w, now, all) /\ RecordedOnce(w, to, now, all)
           /\ Weighed(w, to, all, co) /\ Met(to, all) \subseteq Met(fr, ls)
<1> PICK K : K = NewChildren(w, d, fr[d])
  OBVIOUS
<1> PICK new : new = NewLeaves(w, d, fr[d])
  OBVIOUS
<1> DEFINE all == ls \cup new
<1>1. /\ nd[d].live /\ IsFiniteSet(new) /\ K \subseteq Dirs /\ d \notin K
      /\ FrameStands(w, d, fr[d]) /\ \A x \in K : ~nd[x].live
  BY NewIs DEF Recording
<1>2. \A l \in new :
        /\ l = LeafRecord(l) /\ l.dir = d /\ l.name \in Names(w, d)
        /\ l.id = IdOf(w, d, l.name) /\ l.bytes \in Nat /\ l.err \in BOOLEAN
        /\ (l.err => l.bytes = 0) /\ (~l.err => ~Enters(w, d, l.name))
        /\ (\A o \in ls : ~(o.dir = d /\ o.name = l.name))
        /\ (\A o \in new : o.name = l.name => o = l)
        /\ \E p \in fr[d].plans : p.name = l.name /\ p.bytes = l.bytes
                                  /\ p.kind = (IF l.err THEN "error" ELSE "file")
  BY NewIs DEF Recording
<1>3. ASSUME NEW x \in Dirs
      PROVE  IF x \in K THEN now[x].live /\ now[x].parent = d
             ELSE now[x].live = nd[x].live /\ now[x].parent = nd[x].parent /\ now[x].name = nd[x].name
  BY DEF Recording, Grown
<1>4. LeavesStand(w, nd, ls)
  BY DEF WalkStands
<1>5. LeavesStand(w, now, all)
  <2>1. IsFiniteSet(all)
    BY <1>1, <1>4, FS_Union DEF LeavesStand
  <2>2. now[d].live
    BY <1>1, <1>3
  <2>3. ASSUME NEW l \in all
        PROVE  /\ l = LeafRecord(l) /\ l.dir \in Dirs /\ now[l.dir].live
               /\ l.name \in Names(w, l.dir) /\ l.id = IdOf(w, l.dir, l.name)
               /\ l.bytes \in Nat /\ l.err \in BOOLEAN
               /\ IF l.err THEN l.bytes = 0 ELSE ~Enters(w, l.dir, l.name)
    <3>1. CASE l \in new
      BY <1>2, <2>2, <3>1
    <3>2. CASE l \in ls
      BY <1>3, <1>4, <3>2 DEF LeavesStand
    <3> QED
      BY <3>1, <3>2
  <2>4. ASSUME NEW l \in all, NEW o \in all, l.dir = o.dir, l.name = o.name
        PROVE  l = o
    <3>1. CASE l \in new
      BY <1>2, <2>4, <3>1
    <3>2. CASE o \in new
      BY <1>2, <2>4, <3>2
    <3>3. CASE l \in ls /\ o \in ls
      BY <1>4, <2>4, <3>3 DEF LeavesStand
    <3> QED
      BY <3>1, <3>2, <3>3
  <2> HIDE DEF all
  <2> QED
    BY <2>1, <2>3, <2>4 DEF LeavesStand
<1>6. ASSUME NEW x \in Dirs, NEW m, Behind(fr[x], m)
      PROVE  Behind(to[x], m)
  BY <1>6 DEF Behind, Recording
<1>7. ASSUME NEW p \in fr[d].plans
      PROVE  Behind(to[d], p.name)
  BY <1>1 DEF Behind, Recording, FrameStands
<1>8. RecordedOnce(w, to, now, all)
  <2>1. ASSUME NEW l \in all
        PROVE  Behind(to[l.dir], l.name)
    <3>1. CASE l \in new
      BY <1>2, <1>7, <3>1
    <3>2. CASE l \in ls
      BY <1>4, <1>6, <3>2 DEF WalkStands, RecordedOnce, LeavesStand
    <3> QED
      BY <3>1, <3>2
  <2>2. ASSUME NEW x \in Dirs, now[x].live, x # w.root
        PROVE  Behind(to[now[x].parent], now[x].name)
    <3>1. CASE x \in K
      <4>1. PICK p \in ToEnter(fr[d]) : x = Goal(w, d, p.name)
        BY <3>1 DEF NewChildren
      <4>2. now[x].name = p.name /\ now[x].parent = d /\ p \in fr[d].plans
        BY <1>3, <3>1, <4>1 DEF Recording, ToEnter
      <4> QED
        BY <1>7, <4>2
    <3>2. CASE x \notin K
      <4>1. nd[x].live /\ now[x].parent = nd[x].parent /\ now[x].name = nd[x].name
        BY <1>3, <2>2, <3>2
      <4>2. Behind(fr[nd[x].parent], nd[x].name) /\ nd[x].parent \in Dirs
        BY <2>2, <4>1 DEF WalkStands, RecordedOnce, TreeStands
      <4> QED
        BY <1>6, <4>1, <4>2
    <3> QED
      BY <3>1, <3>2
  <2> HIDE DEF all
  <2> QED
    BY <2>1, <2>2 DEF RecordedOnce
<1>9. \A x \in Dirs \ {d} : to[x] = fr[x]
  BY DEF Recording
<1>10. to[d].plans = {}
  BY DEF Recording
<1>11. Weighed(w, to, all, co)
  <2>1. ASSUME NEW x \in Dirs, NEW m, Weighs(w, to, all, x, m)
        PROVE  Weighs(w, fr, ls, x, m)
    <3>1. Multiple(w, x, m)
      BY <2>1 DEF Weighs
    <3>2. CASE \E l \in all : l.dir = x /\ l.name = m /\ l.bytes > 0
      <4> PICK l \in all : l.dir = x /\ l.name = m /\ l.bytes > 0
        BY <3>2
      <4>1. CASE l \in ls
        BY <3>1, <4>1 DEF Weighs
      <4>2. CASE l \in new
        <5>1. x = d /\ ~l.err
          BY <1>2, <4>2
        <5>2. PICK p \in fr[d].plans : p.name = l.name /\ p.bytes = l.bytes /\ p.kind = "file"
          BY <1>2, <4>2, <5>1
        <5> QED
          BY <3>1, <5>1, <5>2 DEF Weighs
      <4> QED
        BY <4>1, <4>2
    <3>3. CASE \E p \in to[x].plans : p.name = m /\ p.bytes > 0 /\ p.kind = "file"
      BY <1>9, <1>10, <3>1, <3>3 DEF Weighs
    <3> QED
      BY <2>1, <3>2, <3>3 DEF Weighs
  <2> HIDE DEF all
  <2> QED
    BY <2>1 DEF WalkStands, Weighed
<1>12. Met(to, all) \subseteq Met(fr, ls)
  <2>1. ASSUME NEW l \in all, ~l.err
        PROVE  <<l.dir, l.name>> \in Met(fr, ls)
    <3>1. CASE l \in ls
      BY <2>1, <3>1 DEF Met
    <3>2. CASE l \in new
      <4>1. PICK p \in fr[d].plans : p.name = l.name /\ p.kind = "file"
        BY <1>2, <2>1, <3>2
      <4>2. l.dir = d
        BY <1>2, <3>2
      <4> QED
        BY <4>1, <4>2 DEF Met
    <3> QED
      BY <3>1, <3>2
  <2>2. ASSUME NEW x \in Dirs, NEW p \in to[x].plans, p.kind = "file"
        PROVE  <<x, p.name>> \in Met(fr, ls)
    <3>1. x # d /\ p \in fr[x].plans
      BY <1>9, <1>10
    <3> QED
      BY <2>2, <3>1 DEF Met
  <2> HIDE DEF all
  <2> QED
    BY <2>1, <2>2 DEF Met
<1> QED
  BY <1>5, <1>8, <1>11, <1>12

\* The walk stands, and no file is met twice.
LEMMA RecordingKeeps ==
    ASSUME NEW w \in Worlds, NEW fr, NEW nd, NEW ls, NEW cl, NEW ed, NEW co,
           WalkStands(w, fr, nd, ls, cl, ed, co), w.root \in Dirs, NEW d \in Dirs,
           NEW to, NEW now, Recording(w, fr, to, nd, now, d),
           NEW more, IsFiniteSet(more), ed \subseteq more,
           \A e \in more \ ed : /\ e = EdgeRecord(e) /\ e.from = d /\ e.name \in Names(w, d)
                                /\ e.to = Goal(w, d, e.name) /\ Enters(w, d, e.name)
    PROVE  /\ WalkStands(w, to, now, ls \cup NewLeaves(w, d, fr[d]), cl, more, co)
           /\ Met(to, ls \cup NewLeaves(w, d, fr[d])) \subseteq Met(fr, ls)
<1> PICK K : K = NewChildren(w, d, fr[d])
  OBVIOUS
<1>1. /\ nd[d].live /\ K \subseteq Dirs /\ d \notin K /\ FrameStands(w, d, fr[d])
      /\ \A x \in K : ~nd[x].live /\ fr[x].pc = "idle"
  BY NewIs DEF Recording
<1>2. /\ TreeStands(w, now) /\ TotalsStand(now, ls \cup NewLeaves(w, d, fr[d]))
      /\ w.root \notin K
  BY RecordingTree
<1>3. ASSUME NEW x \in Dirs
      PROVE  IF x \in K THEN now[x].live /\ now[x].parent = d /\ now[x].self = 0
             ELSE /\ now[x].live = nd[x].live /\ now[x].parent = nd[x].parent
                  /\ now[x].name = nd[x].name /\ now[x].self = nd[x].self
  BY DEF Recording, Grown
<1>4. /\ to = [x \in Dirs |-> to[x]] /\ \A x \in Dirs \ {d} : to[x] = fr[x]
      /\ fr[d].pc = "classify" /\ FrameStands(w, d, to[d]) /\ to[d].pc \in {"children", "done"}
      /\ to[d].plans = {} /\ to[d].caller = fr[d].caller
      /\ to[d].todo \subseteq {p.name : p \in ToEnter(fr[d])}
  BY DEF Recording
<1>5. FramesStand(w, to)
  BY <1>4 DEF FramesStand, WalkStands
<1>6. Started(w, to, now)
  <2>1. ASSUME NEW x \in Dirs
        PROVE  (~now[x].live => to[x].pc = "idle") /\ (to[x].pc \in {"idle", "begin"} => now[x].self = 0)
    <3>1. (~nd[x].live => fr[x].pc = "idle") /\ (fr[x].pc \in {"idle", "begin"} => nd[x].self = 0)
      BY DEF WalkStands, Started
    <3>2. CASE x = d
      BY <1>1, <1>3, <1>4, <3>2
    <3>3. CASE x # d
      BY <1>3, <1>4, <3>1, <3>3
    <3> QED
      BY <3>2, <3>3
  <2>2. to[w.root].pc # "idle"
    BY <1>4 DEF WalkStands, Started
  <2> QED
    BY <2>1, <2>2 DEF Started
<1>7. Called(w, to, now)
  <2> SUFFICES ASSUME NEW x \in Dirs, Active(to[x]), x # w.root
               PROVE  to[x].caller = now[x].parent /\ to[now[x].parent].pc \in {"children", "call"}
    BY DEF Called
  <2>1. Active(fr[x]) /\ to[x].caller = fr[x].caller
    BY <1>4 DEF Active
  <2>2. fr[x].caller = nd[x].parent /\ fr[nd[x].parent].pc \in {"children", "call"}
    BY <2>1 DEF WalkStands, Called
  <2>3. nd[x].live /\ nd[x].parent \in Dirs
    BY <2>1 DEF WalkStands, Started, TreeStands, Active
  <2>4. x \notin K /\ now[x].parent = nd[x].parent
    BY <1>1, <1>3, <2>3
  <2>5. nd[x].parent # d
    BY <1>4, <2>2
  <2> QED
    BY <1>4, <2>1, <2>2, <2>3, <2>4, <2>5
<1>8. Waited(w, to, now)
  <2> SUFFICES ASSUME NEW x \in Dirs, NEW m \in to[x].todo
               PROVE  /\ Goal(w, x, m) \in Dirs /\ now[Goal(w, x, m)].live
                      /\ now[Goal(w, x, m)].parent = x /\ now[Goal(w, x, m)].name = m
                      /\ to[Goal(w, x, m)].pc = "idle"
    BY DEF Waited
  <2>1. CASE x = d
    <3>1. PICK p \in ToEnter(fr[d]) : m = p.name
      BY <1>4, <2>1
    <3>2. Goal(w, d, m) \in K
      BY <3>1 DEF NewChildren
    <3>3. now[Goal(w, d, m)].name = m
      BY <3>1 DEF Recording
    <3> QED
      BY <1>1, <1>3, <1>4, <2>1, <3>2, <3>3
  <2>2. CASE x # d
    <3>1. m \in fr[x].todo
      BY <1>4, <2>2
    <3>2. /\ Goal(w, x, m) \in Dirs /\ nd[Goal(w, x, m)].live
          /\ nd[Goal(w, x, m)].parent = x /\ nd[Goal(w, x, m)].name = m
          /\ fr[Goal(w, x, m)].pc = "idle"
      BY <3>1 DEF WalkStands, Waited
    <3>3. Goal(w, x, m) \notin K /\ Goal(w, x, m) # d
      BY <1>1, <1>4, <3>2
    <3> QED
      BY <1>3, <1>4, <3>2, <3>3
  <2> QED
    BY <2>1, <2>2
<1>9. \A x \in Dirs : \A p \in to[x].plans : x # d /\ p \in fr[x].plans
  BY <1>4
<1>10. Claimed(w, to, now, cl)
  <2>1. ASSUME NEW x \in Dirs, now[x].live
        PROVE  IF w.follow THEN x \in cl ELSE Len(w.home[w.root]) <= Len(w.home[x])
    <3>1. CASE x \notin K
      BY <1>3, <2>1, <3>1 DEF WalkStands, Claimed
    <3>2. CASE x \in K
      <4>1. PICK p \in ToEnter(fr[d]) : x = Goal(w, d, p.name)
        BY <3>2 DEF NewChildren
      <4>2. p \in fr[d].plans /\ p.kind = "dir"
        BY DEF ToEnter
      <4>3. p.name \in Names(w, d) /\ Enters(w, d, p.name)
        BY <1>1, <4>2 DEF FrameStands, PlansStand
      <4>4. CASE w.follow
        BY <4>1, <4>2, <4>4 DEF WalkStands, Claimed
      <4>5. CASE ~w.follow
        <5>1. Len(w.home[x]) = Len(w.home[d]) + 1 /\ Len(w.home[d]) \in Nat
          BY <4>1, <4>3, <4>5, OneWayIn
        <5>2. Len(w.home[w.root]) <= Len(w.home[d])
          BY <1>1, <4>5 DEF WalkStands, Claimed
        <5>3. Len(w.home[w.root]) \in Nat
          BY ScanAssumption
        <5>4. Len(w.home[w.root]) <= Len(w.home[x])
          BY ONLY <5>1, <5>2, <5>3
        <5> QED
          BY <4>5, <5>4
      <4> QED
        BY <4>4, <4>5
    <3> QED
      BY <3>1, <3>2
  <2>2. ASSUME NEW x \in Dirs, NEW q \in to[x].plans, q.kind = "dir"
        PROVE  ~now[Goal(w, x, q.name)].live /\ (w.follow => Goal(w, x, q.name) \in cl)
    <3>1. x # d /\ q \in fr[x].plans
      BY <1>9
    <3>2. ~nd[Goal(w, x, q.name)].live /\ (w.follow => Goal(w, x, q.name) \in cl)
      BY <2>2, <3>1 DEF WalkStands, Claimed
    <3>3. Goal(w, x, q.name) \in Dirs
      BY <2>2, <3>1 DEF WalkStands, FramesStand, FrameStands, PlansStand, Enters
    <3>4. Goal(w, x, q.name) \notin K
      BY <2>2, <3>1 DEF NewChildren, ToEnter, WalkStands, Claimed
    <3> QED
      BY <1>3, <3>2, <3>3, <3>4
  <2>3. \A x, e \in Dirs : \A p \in to[x].plans, q \in to[e].plans :
            p.kind = "dir" /\ q.kind = "dir" /\ Goal(w, x, p.name) = Goal(w, e, q.name)
                => x = e /\ p = q
    BY <1>9 DEF WalkStands, Claimed
  <2>4. cl \subseteq Dirs
    BY DEF WalkStands, Claimed
  <2> QED
    BY <2>1, <2>2, <2>3, <2>4 DEF Claimed
<1>11. EdgesStand(w, now, more)
  <2> SUFFICES ASSUME NEW e \in more
               PROVE  /\ e = EdgeRecord(e) /\ e.from \in Dirs /\ now[e.from].live
                      /\ e.name \in Names(w, e.from) /\ e.to = Goal(w, e.from, e.name)
                      /\ Enters(w, e.from, e.name)
    BY DEF EdgesStand
  <2>1. CASE e \in ed
    BY <1>3, <2>1 DEF WalkStands, EdgesStand
  <2>2. CASE e \notin ed
    BY <1>1, <1>3, <2>2
  <2> QED
    BY <2>1, <2>2
<1>12. /\ LeavesStand(w, now, ls \cup NewLeaves(w, d, fr[d]))
       /\ RecordedOnce(w, to, now, ls \cup NewLeaves(w, d, fr[d]))
       /\ Weighed(w, to, ls \cup NewLeaves(w, d, fr[d]), co)
       /\ Met(to, ls \cup NewLeaves(w, d, fr[d])) \subseteq Met(fr, ls)
  BY RecordingLeaves
<1> QED
  BY <1>2, <1>5, <1>6, <1>7, <1>8, <1>10, <1>11, <1>12 DEF WalkStands

\* The tree of d once the directories planned in f are below it.
PlacedIn(w, nd, d, f, b, n, x) ==
    IF \E p \in ToEnter(f) : Goal(w, d, p.name) = x
    THEN [NoNode EXCEPT !.live = TRUE, !.parent = d,
            !.name = (CHOOSE p \in ToEnter(f) : Goal(w, d, p.name) = x).name]
    ELSE Propagate(nd, d, b, n, Cardinality(ToEnter(f)))[x]
IsPlaced(w, nd, now, d, f, b, n) == now = [x \in Dirs |-> PlacedIn(w, nd, d, f, b, n, x)]

\* A plan for every new directory, and a directory for every plan.
LEMMA ChildrenCounted ==
    ASSUME NEW w, NEW d, NEW f, IsFiniteSet(f.plans),
           \A p, q \in ToEnter(f) : Goal(w, d, p.name) = Goal(w, d, q.name) => p = q
    PROVE  /\ Cardinality(NewChildren(w, d, f)) = Cardinality(ToEnter(f))
           /\ Cardinality(ToEnter(f)) \in Nat
<1> DEFINE g == [p \in ToEnter(f) |-> Goal(w, d, p.name)]
<1>1. IsFiniteSet(ToEnter(f))
  BY FS_Subset DEF ToEnter
<1>2. g \in Surjection(ToEnter(f), NewChildren(w, d, f))
  BY DEF Surjection, NewChildren
<1>3. g \in Injection(ToEnter(f), NewChildren(w, d, f))
  BY DEF Injection, IsInjective, NewChildren
<1> HIDE DEF g
<1> QED
  BY <1>1, <1>2, <1>3, FS_Surjection, FS_CardinalityType

\* What the code assigns is that: the children placed, the leaves added above.
LEMMA PlacedGrown ==
    ASSUME NEW w, NEW nd, TreeStands(w, nd), NEW d \in Dirs, nd[d].live,
           \A x \in Dirs : nd[x].bytes \in Nat /\ nd[x].files \in Nat /\ nd[x].dirs \in Nat,
           NEW f, IsFiniteSet(f.plans),
           \A p, q \in ToEnter(f) : Goal(w, d, p.name) = Goal(w, d, q.name) => p = q,
           \A x \in NewChildren(w, d, f) : x \in Dirs /\ ~nd[x].live,
           NEW b \in Nat, NEW n \in Nat, NEW now, IsPlaced(w, nd, now, d, f, b, n)
    PROVE  /\ now = [x \in Dirs |-> now[x]]
           /\ \A x \in Dirs : now[x] = NodeRecord(now[x]) /\ now[x].live \in BOOLEAN
           /\ Grown(nd, now, d, NewChildren(w, d, f), b, n)
           /\ \A p \in ToEnter(f) : now[Goal(w, d, p.name)].name = p.name
           /\ \A x \in Dirs \ NewChildren(w, d, f) :
                now[x].name = nd[x].name /\ (~nd[x].live => now[x] = nd[x])
<1> PICK K : K = NewChildren(w, d, f)
  OBVIOUS
<1> PICK k : k = Cardinality(ToEnter(f))
  OBVIOUS
<1>1. k = Cardinality(K) /\ k \in Nat
  BY ChildrenCounted
<1>2. now = [x \in Dirs |-> now[x]] /\ \A x \in Dirs : now[x] = PlacedIn(w, nd, d, f, b, n, x)
  BY DEF IsPlaced
<1>3. \A x \in Dirs : x \in K <=> \E p \in ToEnter(f) : Goal(w, d, p.name) = x
  BY DEF NewChildren
<1>4. \A y \in Upwards(nd, d) : y \in Dirs /\ nd[y].live
  BY AboveLive DEF TreeStands
<1>5. ASSUME NEW x \in K
      PROVE  /\ now[x] = NodeRecord(now[x]) /\ now[x].live = TRUE /\ now[x].parent = d
             /\ now[x].self = 0 /\ now[x].bytes = 0 /\ now[x].files = 0 /\ now[x].dirs = 0
             /\ \A p \in ToEnter(f) : Goal(w, d, p.name) = x => now[x].name = p.name
  <2> PICK a : a = now[x]
    OBVIOUS
  <2> PICK c : c = CHOOSE p \in ToEnter(f) : Goal(w, d, p.name) = x
    OBVIOUS
  <2>1. x \in Dirs /\ \E p \in ToEnter(f) : Goal(w, d, p.name) = x
    BY <1>3
  <2>2. c \in ToEnter(f) /\ Goal(w, d, c.name) = x
    BY <2>1
  <2>3. a = [NoNode EXCEPT !.live = TRUE, !.parent = d, !.name = c.name]
    BY <1>2, <2>1 DEF PlacedIn
  <2>4. /\ a = NodeRecord(a) /\ a.live = TRUE /\ a.parent = d /\ a.self = 0 /\ a.bytes = 0
        /\ a.files = 0 /\ a.dirs = 0 /\ a.name = c.name
    BY ONLY <2>3 DEF NoNode, NodeRecord
  <2>5. \A p \in ToEnter(f) : Goal(w, d, p.name) = x => p = c
    BY <2>2
  <2> QED
    BY <2>4, <2>5
<1>6. ASSUME NEW x \in Dirs \ K
      PROVE  /\ now[x] = NodeRecord(now[x]) /\ now[x].live = nd[x].live
             /\ now[x].parent = nd[x].parent /\ now[x].self = nd[x].self
             /\ now[x].name = nd[x].name
             /\ IF x \in Upwards(nd, d)
                THEN /\ now[x].bytes = nd[x].bytes + b /\ now[x].files = nd[x].files + n
                     /\ now[x].dirs = nd[x].dirs + k
                ELSE now[x] = nd[x]
  <2> PICK a : a = nd[x]
    OBVIOUS
  <2> PICK c : c = now[x]
    OBVIOUS
  <2>1. c = Propagate(nd, d, b, n, k)[x]
    BY <1>2, <1>3 DEF PlacedIn
  <2>2. c = IF x \in Upwards(nd, d)
            THEN [a EXCEPT !.bytes = @ + b, !.files = @ + n, !.dirs = @ + k] ELSE a
    BY <2>1 DEF Propagate
  <2>3. a = NodeRecord(a)
    BY DEF TreeStands
  <2>4. CASE x \in Upwards(nd, d)
    <3>1. c = [a EXCEPT !.bytes = @ + b, !.files = @ + n, !.dirs = @ + k]
      BY <2>2, <2>4
    <3>2. /\ c = NodeRecord(c) /\ c.live = a.live /\ c.parent = a.parent /\ c.self = a.self
          /\ c.name = a.name /\ c.bytes = a.bytes + b /\ c.files = a.files + n
          /\ c.dirs = a.dirs + k
      BY ONLY <2>3, <3>1 DEF NodeRecord
    <3> QED
      BY <2>4, <3>2
  <2>5. CASE x \notin Upwards(nd, d)
    BY <2>2, <2>3, <2>5
  <2> QED
    BY <2>4, <2>5
<1>7. K \subseteq Dirs
  OBVIOUS
<1>8. Grown(nd, now, d, K, b, n)
  BY <1>1, <1>5, <1>6 DEF Grown
<1>9. \A x \in Dirs : now[x] = NodeRecord(now[x]) /\ now[x].live \in BOOLEAN
  <2> TAKE x \in Dirs
  <2>1. CASE x \in K
    BY <1>5, <2>1
  <2>2. CASE x \notin K
    BY <1>6, <2>2 DEF TreeStands
  <2> QED
    BY <2>1, <2>2
<1>10. \A p \in ToEnter(f) : now[Goal(w, d, p.name)].name = p.name
  BY <1>5 DEF NewChildren
<1>11. \A x \in Dirs \ K : now[x].name = nd[x].name /\ (~nd[x].live => now[x] = nd[x])
  BY <1>4, <1>6
<1> QED
  BY <1>2, <1>8, <1>9, <1>10, <1>11

\* A mark changes nothing of that.
LEMMA PlacedFailed ==
    ASSUME NEW nd, NEW md, NEW d \in Dirs, nd[d].live, NEW K, NEW b, NEW n,
           Grown(nd, md, d, K, b, n), d \notin K, md = [x \in Dirs |-> md[x]],
           \A x \in Dirs : md[x] = NodeRecord(md[x]) /\ md[x].live \in BOOLEAN
    PROVE  /\ Grown(nd, MarkFailed(md, d), d, K, b, n)
           /\ MarkFailed(md, d) = [x \in Dirs |-> MarkFailed(md, d)[x]]
           /\ \A x \in Dirs : /\ MarkFailed(md, d)[x] = NodeRecord(MarkFailed(md, d)[x])
                              /\ MarkFailed(md, d)[x].live \in BOOLEAN
                              /\ MarkFailed(md, d)[x].name = md[x].name
           /\ \A x \in Dirs \ {d} : MarkFailed(md, d)[x] = md[x]
<1> PICK now : now = MarkFailed(md, d)
  OBVIOUS
<1> PICK a : a = md[d]
  OBVIOUS
<1> PICK c : c = now[d]
  OBVIOUS
<1>1. /\ a = NodeRecord(a) /\ now = [x \in Dirs |-> now[x]] /\ c = [a EXCEPT !.err = TRUE]
      /\ \A x \in Dirs \ {d} : now[x] = md[x]
  BY DEF MarkFailed
<1>2. /\ c.live = a.live /\ c.parent = a.parent /\ c.name = a.name /\ c.self = a.self
      /\ c.bytes = a.bytes /\ c.files = a.files /\ c.dirs = a.dirs /\ c = NodeRecord(c)
  BY <1>1 DEF NodeRecord
<1>3. \A x \in Dirs :
        /\ now[x].live = md[x].live /\ now[x].parent = md[x].parent /\ now[x].name = md[x].name
        /\ now[x].self = md[x].self /\ now[x].bytes = md[x].bytes
        /\ now[x].files = md[x].files /\ now[x].dirs = md[x].dirs /\ now[x] = NodeRecord(now[x])
  BY <1>1, <1>2
<1>4. Grown(nd, now, d, K, b, n)
  BY <1>3 DEF Grown
<1> QED
  BY <1>1, <1>3, <1>4

\* The edges of a batch.
NewEdges(w, d, f) ==
    {[from |-> d, name |-> p.name, to |-> Goal(w, d, p.name)] : p \in f.plans \ ToAdd(f)}

\* A batch is recorded.
LEMMA RecordWalksOn ==
    ASSUME Walking, NEW d \in Dirs, RecordBatch(d)
    PROVE  /\ WalksOn /\ Recording(world, frame, frame', node, node', d)
           /\ leaves' = leaves \cup NewLeaves(world, d, frame[d])
           /\ edges' = IF world.follow THEN edges \cup NewEdges(world, d, frame[d]) ELSE edges
           /\ UNCHANGED <<claimed, counted, tally>>
           /\ frame'[d].path = frame[d].path /\ frame'[d].fstype = frame[d].fstype
           /\ ~cancelled => frame'[d].todo = {p.name : p \in ToEnter(frame[d])}
<1> PICK f : f = frame[d]
  OBVIOUS
<1> PICK files : files = {p \in f.plans : p.kind \in {"file", "error"}}
  OBVIOUS
<1> PICK entered : entered = {p \in f.plans : p.kind = "dir"}
  OBVIOUS
<1> PICK new : new = {[dir |-> d, name |-> p.name, id |-> Identity(d, p.name),
                 bytes |-> p.bytes, link |-> p.link,
                 err |-> p.kind = "error"] : p \in files}
  OBVIOUS
<1> PICK grown : grown = Propagate(node, d, BytesOf(new),
                    Cardinality({l \in new : ~l.err}), Cardinality(entered))
  OBVIOUS
<1> PICK placed : placed = [x \in Dirs |->
            IF \E p \in entered : Target(d, p.name) = x
            THEN [NoNode EXCEPT !.live = TRUE, !.parent = d,
                    !.name = (CHOOSE p \in entered : Target(d, p.name) = x).name]
            ELSE grown[x]]
  OBVIOUS
<1>1. /\ f.pc = "classify"
      /\ leaves' = leaves \cup new
      /\ edges' = IF Follow
                THEN edges \cup {[from |-> d, name |-> p.name, to |-> Target(d, p.name)] :
                                    p \in f.plans \ files}
                ELSE edges
      /\ Record(IF cancelled THEN MarkFailed(placed, d) ELSE placed, tally)
      /\ frame' = [frame EXCEPT
                    ![d].pc = IF cancelled THEN "done" ELSE "children",
                    ![d].batch = {}, ![d].plans = {},
                    ![d].todo = IF cancelled THEN {} ELSE {p.name : p \in entered}]
      /\ UNCHANGED <<claimed, counted>>
  BY DEF RecordBatch
<1>2. /\ world.root \in Dirs /\ node[d].live /\ TreeStands(world, node)
      /\ FramesStand(world, frame) /\ FrameStands(world, d, f)
      /\ LeavesStand(world, node, leaves) /\ TotalsStand(node, leaves)
      /\ \A x \in Dirs : node[x].bytes \in Nat /\ node[x].files \in Nat
  BY <1>1, WalkingIs
<1>3. WalkStands(world, frame, node, leaves, claimed, edges, counted) /\ TallyStands(tally)
      /\ MetCounted(frame, leaves, tally) /\ world \in Worlds
  BY DEF Walking
<1>4. PlansStand(world, d, f.plans)
  BY <1>2 DEF FrameStands
<1>5. files = ToAdd(f) /\ entered = ToEnter(f)
  BY DEF ToAdd, ToEnter
<1>6. \A p \in f.plans : /\ p.name \in Names(world, d) /\ Target(d, p.name) = Goal(world, d, p.name)
                         /\ Identity(d, p.name) = IdOf(world, d, p.name)
  BY <1>4, EntryIs DEF PlansStand
<1>7. new = NewLeaves(world, d, f)
  <2>1. new = {[dir |-> d, name |-> p.name, id |-> Identity(d, p.name),
                bytes |-> p.bytes, link |-> p.link,
                err |-> p.kind = "error"] : p \in files}
    OBVIOUS
  <2>2. NewLeaves(world, d, f)
            = {[dir |-> d, name |-> p.name, id |-> IdOf(world, d, p.name),
                bytes |-> p.bytes, link |-> p.link,
                err |-> p.kind = "error"] : p \in files}
    BY ONLY <1>5 DEF NewLeaves, LeafOf
  <2>3. \A p \in files : Identity(d, p.name) = IdOf(world, d, p.name)
    BY ONLY <1>5, <1>6 DEF ToAdd
  <2> QED
    BY ONLY <2>1, <2>2, <2>3
<1> PICK b : b = BytesOf(new)
  OBVIOUS
<1> PICK n : n = Cardinality({l \in new : ~l.err})
  OBVIOUS
<1>8. /\ IsFiniteSet(new) /\ (\A l \in new : l.bytes \in Nat)
      /\ \A x \in NewChildren(world, d, f) : x \in Dirs /\ ~node[x].live
      /\ d \notin NewChildren(world, d, f)
  <2>1. frame[d].pc = "classify"
    BY <1>1
  <2>2. /\ IsFiniteSet(NewLeaves(world, d, frame[d]))
        /\ (\A l \in NewLeaves(world, d, frame[d]) : l.bytes \in Nat)
        /\ NewChildren(world, d, frame[d]) \subseteq Dirs
        /\ (\A x \in NewChildren(world, d, frame[d]) : ~node[x].live)
        /\ d \notin NewChildren(world, d, frame[d])
    BY ONLY <1>3, <2>1, NewIs, d \in Dirs
  <2> QED
    BY ONLY <1>7, <2>2, f = frame[d]
<1>9. b \in Nat /\ n \in Nat
  <2>1. b \in Nat
    <3>1. IsFiniteSet({}) /\ new \cap {} = {} /\ \A l \in new \cup {} : l.bytes \in Nat
      BY <1>8, FS_EmptySet
    <3> QED
      BY ONLY <1>8, <3>1, BytesUnion, b = BytesOf(new)
  <2>2. IsFiniteSet({l \in new : ~l.err})
    BY <1>8, FS_Subset
  <2> QED
    BY <2>1, <2>2, FS_CardinalityType
<1>10. \A p, q \in ToEnter(f) : Goal(world, d, p.name) = Goal(world, d, q.name) => p = q
  <2>1. Claimed(world, frame, node, claimed)
    BY ONLY <1>3 DEF WalkStands
  <2> QED
    BY ONLY <2>1, d \in Dirs, f = frame[d] DEF ToEnter, Claimed
<1>11. IsPlaced(world, node, placed, d, f, b, n)
  <2>1. \A x \in Dirs, p \in entered : Target(d, p.name) = Goal(world, d, p.name)
    BY <1>6
  <2>2. ASSUME NEW x \in Dirs
        PROVE  placed[x] = PlacedIn(world, node, d, f, b, n, x)
    <3>1. (\E p \in entered : Target(d, p.name) = x) <=> \E p \in ToEnter(f) : Goal(world, d, p.name) = x
      BY <1>5, <1>6 DEF ToEnter
    <3>2. (CHOOSE p \in entered : Target(d, p.name) = x)
            = (CHOOSE p \in ToEnter(f) : Goal(world, d, p.name) = x)
      <4>1. \A p : (p \in entered /\ Target(d, p.name) = x)
                    <=> (p \in ToEnter(f) /\ Goal(world, d, p.name) = x)
        BY <1>5, <1>6 DEF ToEnter
      <4> QED
        BY <4>1
    <3>3. grown = Propagate(node, d, b, n, Cardinality(ToEnter(f)))
      BY <1>5
    <3> QED
      BY <3>1, <3>2, <3>3 DEF PlacedIn
  <2>3. placed = [x \in Dirs |-> placed[x]]
    OBVIOUS
  <2>4. placed = [x \in Dirs |-> PlacedIn(world, node, d, f, b, n, x)]
    BY ONLY <2>2, <2>3
  <2> QED
    BY <2>4 DEF IsPlaced
<1>12. /\ placed = [x \in Dirs |-> placed[x]]
       /\ \A x \in Dirs : placed[x] = NodeRecord(placed[x]) /\ placed[x].live \in BOOLEAN
       /\ Grown(node, placed, d, NewChildren(world, d, f), b, n)
       /\ \A p \in ToEnter(f) : placed[Goal(world, d, p.name)].name = p.name
       /\ \A x \in Dirs \ NewChildren(world, d, f) :
            placed[x].name = node[x].name /\ (~node[x].live => placed[x] = node[x])
  <2>1. \A x \in Dirs : node[x].bytes \in Nat /\ node[x].files \in Nat /\ node[x].dirs \in Nat
    BY <1>2, CountsStand
  <2>2. IsFiniteSet(f.plans)
    BY <1>4 DEF PlansStand
  <2> QED
    BY ONLY <1>2, <1>8, <1>9, <1>10, <1>11, <2>1, <2>2, PlacedGrown, d \in Dirs
<1> PICK now : now = IF cancelled THEN MarkFailed(placed, d) ELSE placed
  OBVIOUS
<1>13. /\ now = [x \in Dirs |-> now[x]]
       /\ \A x \in Dirs : now[x] = NodeRecord(now[x]) /\ now[x].live \in BOOLEAN
       /\ Grown(node, now, d, NewChildren(world, d, f), b, n)
       /\ \A p \in ToEnter(f) : now[Goal(world, d, p.name)].name = p.name
       /\ \A x \in Dirs \ NewChildren(world, d, f) :
            now[x].name = node[x].name /\ (~node[x].live => now[x] = node[x])
  <2>1. CASE ~cancelled
    BY <1>12, <2>1
  <2>2. CASE cancelled
    <3>1. now = MarkFailed(placed, d)
      BY <2>2
    <3>2. /\ Grown(node, now, d, NewChildren(world, d, f), b, n)
          /\ now = [x \in Dirs |-> now[x]]
          /\ \A x \in Dirs : /\ now[x] = NodeRecord(now[x]) /\ now[x].live \in BOOLEAN
                             /\ now[x].name = placed[x].name
          /\ \A x \in Dirs \ {d} : now[x] = placed[x]
      <4>1. /\ Grown(node, MarkFailed(placed, d), d, NewChildren(world, d, f), b, n)
            /\ MarkFailed(placed, d) = [x \in Dirs |-> MarkFailed(placed, d)[x]]
            /\ \A x \in Dirs : /\ MarkFailed(placed, d)[x] = NodeRecord(MarkFailed(placed, d)[x])
                               /\ MarkFailed(placed, d)[x].live \in BOOLEAN
                               /\ MarkFailed(placed, d)[x].name = placed[x].name
            /\ \A x \in Dirs \ {d} : MarkFailed(placed, d)[x] = placed[x]
        BY ONLY <1>2, <1>8, <1>12, PlacedFailed, d \in Dirs
      <4> QED
        BY ONLY <3>1, <4>1
    <3>3. \A p \in ToEnter(f) : Goal(world, d, p.name) \in Dirs
      BY <1>8 DEF NewChildren
    <3> QED
      BY ONLY <1>2, <1>8, <1>12, <3>2, <3>3, d \in Dirs
  <2> QED
    BY <2>1, <2>2
<1>14. /\ node' = now /\ tally' = tally
       /\ (out' = out \/ (out = <<>> /\ out' = <<Sight(world, node', tally', FALSE)>>))
  <2>1. Record(now, tally)
    BY <1>1
  <2> QED
    BY ONLY <2>1, RecordIs
<1> PICK to : to = frame'
  OBVIOUS
<1> PICK pc : pc = IF cancelled THEN "done" ELSE "children"
  OBVIOUS
<1> PICK todo : todo = IF cancelled THEN {} ELSE {p.name : p \in entered}
  OBVIOUS
<1> PICK g : g = to[d]
  OBVIOUS
<1>15. /\ to = [x \in Dirs |-> to[x]] /\ \A x \in Dirs \ {d} : to[x] = frame[x]
       /\ g = [f EXCEPT !.pc = pc, !.batch = {}, !.plans = {}, !.todo = todo]
       /\ f = FrameRecord(f)
  BY <1>1, <1>2 DEF FramesStand, FrameStands
<1>16. /\ g = FrameRecord(g) /\ g.pc = pc /\ g.batch = {} /\ g.plans = {} /\ g.todo = todo
       /\ g.unread = f.unread /\ g.caller = f.caller /\ g.path = f.path /\ g.fstype = f.fstype
  BY ONLY <1>15 DEF FrameRecord
<1>17. pc \in {"children", "done"} /\ (pc = "done" => todo = {})
       /\ todo \subseteq {p.name : p \in ToEnter(f)}
  BY <1>5
<1>18. FrameStands(world, d, g)
  <2>1. todo \subseteq Names(world, d)
    BY <1>6, <1>17 DEF ToEnter
  <2>2. PlansStand(world, d, {})
    BY FS_EmptySet DEF PlansStand
  <2> QED
    BY <1>2, <1>16, <1>17, <2>1, <2>2 DEF FrameStands
<1>19. Recording(world, frame, to, node, now, d)
  BY <1>1, <1>7, <1>13, <1>15, <1>16, <1>17, <1>18 DEF Recording
<1> PICK more : more = edges'
  OBVIOUS
<1>20. /\ IsFiniteSet(more) /\ edges \subseteq more
       /\ \A e \in more \ edges :
            /\ e = EdgeRecord(e) /\ e.from = d /\ e.name \in Names(world, d)
            /\ e.to = Goal(world, d, e.name) /\ Enters(world, d, e.name)
  <2>1. IsFiniteSet(edges)
    BY <1>3 DEF WalkStands, EdgesStand
  <2> DEFINE P == f.plans \ files
             E == {[from |-> d, name |-> p.name, to |-> Target(d, p.name)] : p \in P}
             h == [p \in P |-> [from |-> d, name |-> p.name, to |-> Target(d, p.name)]]
  <2>2. IsFiniteSet(P)
    BY <1>4, FS_Subset DEF PlansStand
  <2>3. h \in Surjection(P, E)
    BY DEF Surjection
  <2>4. IsFiniteSet(E)
    <3> HIDE DEF E, h, P
    <3> QED
      BY <2>2, <2>3, FS_Surjection
  <2>5. \A p \in P : p.kind \in {"dir", "seen"} /\ p \in f.plans
    BY <1>4 DEF PlansStand
  <2>6. \A p \in P : Enters(world, d, p.name) /\ p.name \in Names(world, d)
    BY <1>4, <2>5 DEF PlansStand
  <2>7. \A e \in E : /\ e = EdgeRecord(e) /\ e.from = d /\ e.name \in Names(world, d)
                     /\ e.to = Goal(world, d, e.name) /\ Enters(world, d, e.name)
    <3> SUFFICES ASSUME NEW e \in E
                 PROVE  /\ e = EdgeRecord(e) /\ e.from = d /\ e.name \in Names(world, d)
                        /\ e.to = Goal(world, d, e.name) /\ Enters(world, d, e.name)
      OBVIOUS
    <3>1. PICK p \in P : e = [from |-> d, name |-> p.name, to |-> Target(d, p.name)]
      OBVIOUS
    <3>2. e = EdgeRecord(e) /\ e.from = d /\ e.name = p.name /\ e.to = Target(d, p.name)
      BY ONLY <3>1 DEF EdgeRecord
    <3>3. /\ p.name \in Names(world, d) /\ Target(d, p.name) = Goal(world, d, p.name)
          /\ Enters(world, d, p.name)
      <4> HIDE DEF P
      <4> QED
        BY <1>6, <2>5, <2>6
    <3> QED
      BY ONLY <3>2, <3>3
  <2>8. more = edges \cup E \/ more = edges
    BY <1>1
  <2> HIDE DEF E
  <2>9. IsFiniteSet(more)
    BY <2>1, <2>4, <2>8, FS_Union
  <2> QED
    BY <2>7, <2>8, <2>9
<1>21. /\ WalkStands(world, to, now, leaves \cup NewLeaves(world, d, frame[d]), claimed, more, counted)
       /\ Met(to, leaves \cup NewLeaves(world, d, frame[d])) \subseteq Met(frame, leaves)
  BY ONLY <1>2, <1>3, <1>19, <1>20, RecordingKeeps, d \in Dirs
<1>22. MetCounted(to, leaves \cup new, tally)
  <2>1. tally.files \in Nat /\ tally.files >= tally.files
    BY ONLY <1>3 DEF TallyStands
  <2>2. Met(to, leaves \cup new) \subseteq Met(frame, leaves)
    BY <1>7, <1>21
  <2> QED
    BY ONLY <1>3, <2>1, <2>2, MetWithin
<1>23. NoneLost(world, node, tally, now, tally)
  <2>1. world.root \notin NewChildren(world, d, f)
    BY ONLY <1>2, <1>3, <1>19, RecordingTree, d \in Dirs, f = frame[d]
  <2>2. now[world.root].bytes >= node[world.root].bytes /\ now[world.root].files >= node[world.root].files
    <3> PICK x : x = world.root
      OBVIOUS
    <3>1. \/ now[x].bytes = node[x].bytes + b /\ now[x].files = node[x].files + n
          \/ now[x].bytes = node[x].bytes /\ now[x].files = node[x].files
      BY ONLY <1>2, <1>13, <2>1, x = world.root DEF Grown
    <3>2. node[x].bytes \in Nat /\ node[x].files \in Nat
      BY ONLY <1>2, x = world.root
    <3>3. now[x].bytes >= node[x].bytes /\ now[x].files >= node[x].files
      BY ONLY <1>9, <3>1, <3>2
    <3> QED
      BY <3>3
  <2> QED
    BY ONLY <1>3, <2>2 DEF NoneLost, TallyStands
<1>24. WalksOn
  BY <1>1, <1>3, <1>7, <1>14, <1>21, <1>22, <1>23 DEF WalksOn
<1>25. edges' = IF world.follow THEN edges \cup NewEdges(world, d, f) ELSE edges
  <2>1. {[from |-> d, name |-> p.name, to |-> Target(d, p.name)] : p \in f.plans \ files}
            = NewEdges(world, d, f)
    BY ONLY <1>5, <1>6 DEF NewEdges
  <2> QED
    BY <1>1, <2>1 DEF Follow
<1>26. ~cancelled => g.todo = {p.name : p \in ToEnter(f)}
  BY <1>5, <1>16
<1> QED
  BY <1>1, <1>7, <1>14, <1>16, <1>19, <1>24, <1>25, <1>26

-----------------------------------------------------------------------------
(***************************************************************************)
(* The live tree of a scan: the paths in it and their order                *)
(***************************************************************************)

\* Of two paths one comes before the other.
LEMMA OneIsLess ==
    ASSUME NEW p \in Seq(Int), NEW q \in Seq(Int), p # q
    PROVE  PathLess(p, q) \/ PathLess(q, p)
<1> DEFINE apart == {i \in Nat : i \in 1..Len(p) /\ i \in 1..Len(q) /\ p[i] # q[i]}
<1>0. Len(p) \in Nat /\ Len(q) \in Nat
  OBVIOUS
<1>1. CASE apart # {}
  <2>1. apart \in SUBSET Nat
    OBVIOUS
  <2>2. PICK i \in apart : \A k \in apart : i <= k
    <3> HIDE DEF apart
    <3> QED
      BY <1>1, <2>1, Least
  <2>3. ASSUME NEW j \in 1..(i - 1)
        PROVE  p[j] = q[j]
    <3>1. j \in Nat /\ ~(i <= j) /\ j \in 1..Len(p) /\ j \in 1..Len(q)
      BY <1>0, <2>2
    <3> QED
      BY <2>2, <3>1
  <2>4. p[i] \in Int /\ q[i] \in Int /\ p[i] # q[i] /\ i \in Nat
        /\ i \in 1..Len(p) /\ i \in 1..Len(q)
    BY <2>2
  <2>5. Differ(p, q, i) \/ Differ(q, p, i)
    BY <2>3, <2>4 DEF Differ
  <2> QED
    BY <2>4, <2>5, LessIs
<1>2. CASE apart = {}
  <2>1. \A i \in Nat : i \in 1..Len(p) /\ i \in 1..Len(q) => p[i] = q[i]
    BY <1>2
  <2>2. CASE Len(p) = Len(q)
    <3>1. \A i \in 1..Len(p) : p[i] = q[i]
      BY <1>0, <2>1, <2>2
    <3> QED
      BY <2>2, <3>1, SamePath
  <2>3. CASE Len(p) < Len(q)
    <3>1. \A i \in 1..Len(p) : p[i] = q[i]
      BY <1>0, <2>1, <2>3
    <3>2. Within(p, q)
      BY <1>0, <2>3, <3>1, WithinIs
    <3> QED
      BY <2>3, <3>2, LessIs
  <2>4. CASE Len(q) < Len(p)
    <3>1. \A i \in 1..Len(q) : q[i] = p[i]
      BY <1>0, <2>1, <2>4
    <3>2. Within(q, p)
      BY <1>0, <2>4, <3>1, WithinIs
    <3> QED
      BY <2>4, <3>2, LessIs
  <2> QED
    BY <1>0, <2>2, <2>3, <2>4
<1> QED
  BY <1>1, <1>2

\* Of finitely many things with paths of their own one has the smallest.
LEMMA SmallestIsOne ==
    ASSUME NEW S, IsFiniteSet(S), S # {}, NEW P, \A x \in S : P[x] \in Seq(Int),
           \A x, y \in S : P[x] = P[y] => x = y
    PROVE  \E m \in S : \A x \in S : x = m \/ PathLess(P[m], P[x])
<1> DEFINE paths == {P[x] : x \in S}
<1>1. paths \in SUBSET Seq(Int) /\ paths # {}
  OBVIOUS
<1>2. IsFiniteSet(paths)
  <2>1. [x \in S |-> P[x]] \in Surjection(S, paths)
    BY DEF Surjection
  <2> QED
    BY <2>1, FS_Surjection
<1>3. PICK p \in paths : \A q \in paths : ~PathLess(q, p)
  <2> HIDE DEF paths
  <2> QED
    BY <1>1, <1>2, FirstPath
<1>4. PICK m \in S : P[m] = p
  BY <1>3
<1>5. ASSUME NEW x \in S, x # m
      PROVE  PathLess(P[m], P[x])
  <2>1. P[x] # P[m] /\ ~PathLess(P[x], P[m]) /\ P[x] \in Seq(Int) /\ P[m] \in Seq(Int)
    BY <1>3, <1>4, <1>5
  <2> QED
    BY <2>1, OneIsLess
<1> QED
  BY <1>5

-----------------------------------------------------------------------------
IsPath(nd, g) ==
    g = [d \in Dirs |-> IF nd[d].parent = NoDir THEN <<>>
                        ELSE Append(g[nd[d].parent], nd[d].name)]

\* What has a parent has a name under it.
Named(nd) == \A d \in Dirs : nd[d].parent # NoDir => nd[d].name \in Int

\* Every directory has one path: the least relation that holds what the
\* definition of a path demands is a function.
LEMMA PathExists ==
    ASSUME NEW nd, Parented(nd), Grounded(nd), Named(nd)
    PROVE  \E g \in [Dirs -> Seq(Int)] : IsPath(nd, g)
<1> DEFINE D == Dirs \X Seq(Int)
           Closed(S) == \A d \in Dirs :
               IF nd[d].parent = NoDir THEN <<d, <<>>>> \in S
               ELSE \A s \in Seq(Int) : <<nd[d].parent, s>> \in S => <<d, Append(s, nd[d].name)>> \in S
           least == {x \in D : \A S \in SUBSET D : Closed(S) => x \in S}
           One(d, s) == \A t \in Seq(Int) : <<d, t>> \in least <=> t = s
           F == {d \in Dirs : \E s \in Seq(Int) : One(d, s)}
<1>1. least \in SUBSET D /\ Closed(least)
  <2>1. ASSUME NEW d \in Dirs, nd[d].parent = NoDir
        PROVE  <<d, <<>>>> \in least
    <3>1. <<>> \in Seq(Int)
      OBVIOUS
    <3>2. <<d, <<>>>> \in D
      BY <3>1
    <3> QED
      BY <2>1, <3>2
  <2>2. ASSUME NEW d \in Dirs, nd[d].parent # NoDir, NEW s \in Seq(Int),
               <<nd[d].parent, s>> \in least
        PROVE  <<d, Append(s, nd[d].name)>> \in least
    <3>1. nd[d].name \in Int
      BY <2>2 DEF Named
    <3>2. <<d, Append(s, nd[d].name)>> \in D
      BY <3>1
    <3>3. ASSUME NEW S \in SUBSET D, Closed(S)
          PROVE  <<d, Append(s, nd[d].name)>> \in S
      BY <2>2, <3>3
    <3> HIDE DEF Closed, D
    <3> QED
      BY <3>2, <3>3
  <2> HIDE DEF least
  <2>3. Closed(least)
    BY <2>1, <2>2
  <2> QED
    BY <2>3 DEF least
<1>2. ASSUME NEW x \in least, Closed(least \ {x})
      PROVE  FALSE
  <2>1. least \ {x} \in SUBSET D
    BY <1>1
  <2> HIDE DEF Closed, D
  <2> QED
    BY <1>2, <2>1
<1>3. ASSUME NEW d \in Dirs, nd[d].parent \in F \cup {NoDir}
      PROVE  d \in F
  <2> HIDE DEF least
  <2>1. CASE nd[d].parent = NoDir
    <3>1. <<d, <<>>>> \in least
      BY <1>1, <2>1
    <3>2. ASSUME NEW t \in Seq(Int), <<d, t>> \in least, t # <<>>
          PROVE  FALSE
      <4> DEFINE rest == least \ {<<d, t>>}
      <4>1. ASSUME NEW e \in Dirs, nd[e].parent = NoDir
            PROVE  <<e, <<>>>> \in rest
        BY <1>1, <3>2, <4>1
      <4>2. ASSUME NEW e \in Dirs, nd[e].parent # NoDir, NEW s \in Seq(Int),
                   <<nd[e].parent, s>> \in rest
            PROVE  <<e, Append(s, nd[e].name)>> \in rest
        <5>1. <<e, Append(s, nd[e].name)>> \in least /\ e # d
          BY <1>1, <2>1, <4>2
        <5> QED
          BY <5>1
      <4>3. Closed(rest)
        <5> HIDE DEF rest
        <5> QED
          BY <4>1, <4>2
      <4> QED
        BY <1>2, <3>2, <4>3
    <3>3. One(d, <<>>)
      BY <3>1, <3>2
    <3>4. <<>> \in Seq(Int)
      OBVIOUS
    <3> HIDE DEF One
    <3> QED
      BY <3>3, <3>4
  <2>2. CASE nd[d].parent # NoDir
    <3> DEFINE p == nd[d].parent
               n == nd[d].name
    <3>1. PICK s \in Seq(Int) : One(p, s)
      BY <1>3, <2>2
    <3>2. p \in Dirs /\ n \in Int /\ Append(s, n) \in Seq(Int)
      BY <1>3, <2>2 DEF Named
    <3>3. <<d, Append(s, n)>> \in least
      BY <1>1, <2>2, <3>1
    <3>4. ASSUME NEW t \in Seq(Int), <<d, t>> \in least, t # Append(s, n)
          PROVE  FALSE
      <4> DEFINE rest == least \ {<<d, t>>}
      <4>1. ASSUME NEW e \in Dirs, nd[e].parent = NoDir
            PROVE  <<e, <<>>>> \in rest
        <5>1. <<e, <<>>>> \in least /\ e # d
          BY <1>1, <2>2, <4>1
        <5> QED
          BY <5>1
      <4>2. ASSUME NEW e \in Dirs, nd[e].parent # NoDir, NEW r \in Seq(Int),
                   <<nd[e].parent, r>> \in rest
            PROVE  <<e, Append(r, nd[e].name)>> \in rest
        <5>1. <<e, Append(r, nd[e].name)>> \in least
          BY <1>1, <4>2
        <5>2. CASE e = d
          <6>1. r = s
            BY <3>1, <4>2, <5>2
          <6>2. Append(r, nd[e].name) # t
            BY <3>4, <5>2, <6>1
          <6> QED
            BY <5>1, <6>2
        <5>3. CASE e # d
          BY <5>1, <5>3
        <5> QED
          BY <5>2, <5>3
      <4>3. Closed(rest)
        <5> HIDE DEF rest
        <5> QED
          BY <4>1, <4>2
      <4> QED
        BY <1>2, <3>4, <4>3
    <3>5. One(d, Append(s, n))
      BY <3>3, <3>4
    <3> HIDE DEF One
    <3> QED
      BY <3>2, <3>5
  <2> QED
    BY <2>1, <2>2
<1>4. Dirs \subseteq F
  <2> HIDE DEF F
  <2> QED
    BY <1>3, Descent
<1> DEFINE g == [d \in Dirs |-> CHOOSE s \in Seq(Int) : <<d, s>> \in least]
<1>5. ASSUME NEW d \in Dirs
      PROVE  g[d] \in Seq(Int) /\ One(d, g[d])
  <2> HIDE DEF least
  <2>1. PICK s \in Seq(Int) : One(d, s)
    BY <1>4
  <2>2. <<d, s>> \in least
    BY <2>1
  <2>3. g[d] \in Seq(Int) /\ <<d, g[d]>> \in least
    BY <2>2
  <2>4. g[d] = s
    BY <2>1, <2>3
  <2> QED
    BY <2>1, <2>4
<1> HIDE DEF g
<1>6. g \in [Dirs -> Seq(Int)]
  BY <1>5 DEF g
<1>7. ASSUME NEW d \in Dirs
      PROVE  g[d] = IF nd[d].parent = NoDir THEN <<>> ELSE Append(g[nd[d].parent], nd[d].name)
  <2> HIDE DEF least
  <2>1. CASE nd[d].parent = NoDir
    BY <1>1, <1>5, <2>1
  <2>2. CASE nd[d].parent # NoDir
    <3>1. nd[d].parent \in Dirs /\ nd[d].name \in Int
      BY <2>2 DEF Parented, Named
    <3>2. <<nd[d].parent, g[nd[d].parent]>> \in least /\ g[nd[d].parent] \in Seq(Int)
      BY <1>5, <3>1
    <3>3. <<d, Append(g[nd[d].parent], nd[d].name)>> \in least
      BY <1>1, <2>2, <3>2
    <3>4. Append(g[nd[d].parent], nd[d].name) \in Seq(Int)
      BY <3>1, <3>2
    <3> QED
      BY <1>5, <2>2, <3>3, <3>4
  <2> QED
    BY <2>1, <2>2
<1>8. IsPath(nd, g)
  BY <1>6, <1>7 DEF IsPath
<1> QED
  BY <1>6, <1>8

\* A path is what its definition says.
LEMMA PathIs ==
    ASSUME NEW nd, Parented(nd), Grounded(nd), Named(nd), NEW d \in Dirs
    PROVE  /\ PathIn(nd, d) \in Seq(Int)
           /\ PathIn(nd, d) = IF nd[d].parent = NoDir THEN <<>>
                              ELSE Append(PathIn(nd, nd[d].parent), nd[d].name)
<1> DEFINE it == CHOOSE g : IsPath(nd, g)
<1>1. PICK g \in [Dirs -> Seq(Int)] : IsPath(nd, g)
  BY PathExists
<1>2. IsPath(nd, it)
  BY <1>1
<1>3. \A x : PathIn(nd, x) = it[x]
  BY DEF PathIn, IsPath
<1> HIDE DEF it
<1> DEFINE F == {x \in Dirs : it[x] = g[x]}
<1>4. ASSUME NEW x \in Dirs, nd[x].parent \in F \cup {NoDir}
      PROVE  x \in F
  BY <1>1, <1>2, <1>4 DEF IsPath
<1>5. Dirs \subseteq F
  <2> HIDE DEF F
  <2> QED
    BY <1>4, Descent
<1>6. it[d] \in Seq(Int)
  BY <1>1, <1>5
<1> QED
  BY <1>2, <1>3, <1>6 DEF IsPath, Parented

\* A tree of a scan is named: its paths are those of its directories.
LEMMA TreePaths ==
    ASSUME NEW w \in Worlds, NEW nd, TreeStands(w, nd)
    PROVE  /\ Parented(nd) /\ Grounded(nd) /\ Named(nd) /\ w.root \in Dirs
           /\ \A d \in Dirs : PathIn(nd, d) \in Seq(Int)
           /\ \A d, e \in Dirs : nd[d].live /\ nd[e].live /\ PathIn(nd, d) = PathIn(nd, e) => d = e
<1>1. Parented(nd) /\ Grounded(nd) /\ w.root \in Dirs
  BY ScanAssumption DEF TreeStands, Tree
<1>2. ASSUME NEW d \in Dirs, nd[d].parent # NoDir
      PROVE  /\ nd[d].live /\ d # w.root /\ nd[d].parent \in Dirs /\ nd[nd[d].parent].live
             /\ nd[d].name \in Int /\ Goal(w, nd[d].parent, nd[d].name) = d
  <2>1. nd[d].live /\ d # w.root /\ nd[nd[d].parent].live
    BY <1>2 DEF TreeStands, Tree
  <2>2. nd[d].parent \in Dirs /\ nd[d].name \in Names(w, nd[d].parent)
        /\ Goal(w, nd[d].parent, nd[d].name) = d
    BY <2>1 DEF TreeStands
  <2>3. Names(w, nd[d].parent) \subseteq Int
    BY <2>2, ScanAssumption DEF Names
  <2> QED
    BY <2>1, <2>2, <2>3
<1>3. Named(nd)
  BY <1>2 DEF Named
<1>4. \A d \in Dirs : /\ PathIn(nd, d) \in Seq(Int)
                      /\ PathIn(nd, d) = IF nd[d].parent = NoDir THEN <<>>
                                         ELSE Append(PathIn(nd, nd[d].parent), nd[d].name)
  BY <1>1, <1>3, PathIs
<1>5. \A d \in Dirs : nd[d].live /\ nd[d].parent = NoDir => d = w.root
  BY ScanAssumption DEF TreeStands
<1> DEFINE F == {d \in Dirs : \A e \in Dirs :
                    nd[d].live /\ nd[e].live /\ PathIn(nd, d) = PathIn(nd, e) => d = e}
<1>6. ASSUME NEW d \in Dirs, nd[d].parent \in F \cup {NoDir}
      PROVE  d \in F
  <2> SUFFICES ASSUME NEW e \in Dirs, nd[d].live, nd[e].live, PathIn(nd, d) = PathIn(nd, e)
               PROVE  d = e
    OBVIOUS
  <2>1. nd[d].parent # NoDir => Len(PathIn(nd, d)) > 0
    BY ONLY <1>2, <1>4, d \in Dirs
  <2>2. nd[e].parent # NoDir => Len(PathIn(nd, e)) > 0
    BY ONLY <1>2, <1>4, e \in Dirs
  <2>3. CASE nd[d].parent = NoDir
    <3>1. Len(PathIn(nd, d)) = 0
      BY <1>4, <2>3
    <3>2. nd[e].parent = NoDir
      BY <2>2, <3>1
    <3> QED
      BY <1>5, <2>3, <3>2
  <2>4. CASE nd[d].parent # NoDir
    <3>1. nd[e].parent # NoDir
      <4>1. nd[e].parent = NoDir => Len(PathIn(nd, e)) = 0
        BY <1>4
      <4> QED
        BY <2>1, <2>4, <4>1
    <3> DEFINE p == nd[d].parent
               q == nd[e].parent
    <3>2. p \in Dirs /\ q \in Dirs /\ nd[p].live /\ nd[q].live
      BY <1>2, <2>4, <3>1
    <3>3. Appended(PathIn(nd, p), nd[d].name) = Appended(PathIn(nd, q), nd[e].name)
      BY <1>4, <2>4, <3>1 DEF Appended
    <3>4. PathIn(nd, p) = PathIn(nd, q) /\ nd[d].name = nd[e].name
      <4>1. PathIn(nd, p) \in Seq(Int) /\ PathIn(nd, q) \in Seq(Int)
        BY <1>4, <3>2
      <4> HIDE DEF p, q
      <4> QED
        BY ONLY <3>3, <4>1, AppendedIs
    <3>5. p \in F
      BY <1>6, <2>4
    <3>6. p = q
      BY <3>2, <3>4, <3>5
    <3> QED
      BY <1>2, <2>4, <3>1, <3>4, <3>6
  <2> QED
    BY <2>3, <2>4
<1>7. Dirs \subseteq F
  <2> HIDE DEF F
  <2> QED
    BY <1>1, <1>6, Descent
<1> QED
  BY <1>1, <1>3, <1>4, <1>7

-----------------------------------------------------------------------------
(***************************************************************************)
(* The owners of directories                                               *)
(***************************************************************************)

\* Only the places of directories change.
OnlyPlaces(nd, to) ==
    /\ to = [d \in Dirs |-> to[d]]
    /\ \A d \in Dirs : /\ to[d] = NodeRecord(to[d])
                       /\ to[d].live = nd[d].live /\ to[d].self = nd[d].self
                       /\ to[d].bytes = nd[d].bytes /\ to[d].files = nd[d].files
                       /\ to[d].dirs = nd[d].dirs

\* A directory that is not above its new parent still has all parents
\* lead to the root.
LEMMA MoveGrounds ==
    ASSUME NEW nd, Parented(nd), Grounded(nd), NEW g \in Dirs, NEW p \in Dirs,
           g \notin Upwards(nd, p), NEW to,
           to[g].parent = p, \A d \in Dirs \ {g} : to[d].parent = nd[d].parent
    PROVE  Grounded(to)
<1> SUFFICES ASSUME NEW F \in SUBSET Dirs,
                    \A d \in Dirs : to[d].parent \in F \cup {NoDir} => d \in F
             PROVE  F = Dirs
  BY DEF Grounded
<1> DEFINE B == {d \in Dirs : g \notin Upwards(nd, d) => d \in F}
<1>1. ASSUME NEW d \in Dirs, nd[d].parent \in B \cup {NoDir}
      PROVE  d \in B
  <2> SUFFICES ASSUME g \notin Upwards(nd, d) PROVE d \in F
    OBVIOUS
  <2>1. d # g /\ to[d].parent = nd[d].parent
    BY DEF Upwards
  <2>2. CASE nd[d].parent = NoDir
    BY <2>1, <2>2
  <2>3. CASE nd[d].parent # NoDir
    <3>1. Above(nd, d) = {nd[d].parent} \cup Above(nd, nd[d].parent)
      BY <2>3, AboveIs
    <3>2. g \notin Upwards(nd, nd[d].parent)
      BY <3>1 DEF Upwards
    <3> QED
      BY <1>1, <2>1, <2>3, <3>2
  <2> QED
    BY <2>2, <2>3
<1>2. Dirs \subseteq B
  <2> HIDE DEF B
  <2> QED
    BY <1>1, Descent
<1>3. g \in F
  BY <1>2
<1>4. ASSUME NEW d \in Dirs, nd[d].parent \in F \cup {NoDir}
      PROVE  d \in F
  BY <1>3, <1>4
<1>5. Dirs \subseteq F
  BY <1>4, Descent
<1> QED
  BY <1>5

\* What one candidate of the frontier says.
Leads(w, tr, c) ==
    /\ c = [path |-> c.path, name |-> c.name, parent |-> c.parent, group |-> c.group]
    /\ c.parent \in Dirs /\ tr[c.parent].live /\ c.name \in Names(w, c.parent)
    /\ c.group = Goal(w, c.parent, c.name) /\ Enters(w, c.parent, c.name)

\* Each directory that has its place has a path of its own, and the
\* candidates have paths below those.
PathsLead(w, tr, frontier, assigned, P) ==
    /\ \A d \in assigned : tr[d].live =>
        /\ P[d] \in Seq(Int)
        /\ \/ d = w.root /\ P[d] = <<>>
           \/ \E p \in assigned : \E n \in Names(w, p) :
                tr[p].live /\ P[d] = Append(P[p], n) /\ Goal(w, p, n) = d
    /\ \A d, e \in assigned : tr[d].live /\ tr[e].live /\ P[d] = P[e] => d = e
    /\ \A c \in frontier : c.parent \in assigned /\ c.path = Append(P[c.parent], c.name)

StillSettling(w, nd, s) ==
    /\ s = [frontier |-> s.frontier, assigned |-> s.assigned, tree |-> s.tree,
            failed |-> s.failed]
    /\ TreeStands(w, s.tree) /\ OnlyPlaces(nd, s.tree)
    /\ IsFiniteSet(s.frontier) /\ (\A c \in s.frontier : Leads(w, s.tree, c))
    /\ w.root \in s.assigned /\ s.assigned \subseteq Dirs
    /\ \E P : PathsLead(w, s.tree, s.frontier, s.assigned, P)

\* A move keeps the tree a tree.
LEMMA MoveStands ==
    ASSUME NEW w \in Worlds, NEW nd, NEW tr, TreeStands(w, tr), OnlyPlaces(nd, tr),
           NEW c, Leads(w, tr, c), c.group \in Dirs, tr[c.group].live,
           tr[c.group].parent # NoDir, c.group \notin Upwards(tr, c.parent),
           NEW to, to = [tr EXCEPT ![c.group].parent = c.parent, ![c.group].name = c.name]
    PROVE  TreeStands(w, to) /\ OnlyPlaces(nd, to)
<1> DEFINE g == c.group
<1>1. tr = [d \in Dirs |-> tr[d]] /\ \A d \in Dirs : tr[d] = NodeRecord(tr[d])
  BY DEF TreeStands
<1>2. to = [d \in Dirs |-> to[d]] /\ \A d \in Dirs \ {g} : to[d] = tr[d]
  BY <1>1
<1>3. to[g] = [tr[g] EXCEPT !.parent = c.parent, !.name = c.name]
  BY <1>1
<1>4. /\ to[g].live = tr[g].live /\ to[g].self = tr[g].self /\ to[g].bytes = tr[g].bytes
      /\ to[g].files = tr[g].files /\ to[g].dirs = tr[g].dirs
      /\ to[g].parent = c.parent /\ to[g].name = c.name /\ to[g] = NodeRecord(to[g])
  <2>1. tr[g] = NodeRecord(tr[g])
    BY <1>1
  <2> QED
    BY ONLY <1>3, <2>1 DEF NodeRecord
<1> HIDE DEF g
<1>0. g \in Dirs /\ \A d \in Dirs \ {g} : to[d].parent = tr[d].parent
  BY <1>2 DEF g
<1>5. OnlyPlaces(nd, to)
  <2>1. \A d \in Dirs : /\ tr[d] = NodeRecord(tr[d])
                        /\ tr[d].live = nd[d].live /\ tr[d].self = nd[d].self
                        /\ tr[d].bytes = nd[d].bytes /\ tr[d].files = nd[d].files
                        /\ tr[d].dirs = nd[d].dirs
    BY DEF OnlyPlaces
  <2>2. ASSUME NEW d \in Dirs
        PROVE  /\ to[d] = NodeRecord(to[d])
               /\ to[d].live = nd[d].live /\ to[d].self = nd[d].self
               /\ to[d].bytes = nd[d].bytes /\ to[d].files = nd[d].files
               /\ to[d].dirs = nd[d].dirs
    <3>1. CASE d = g
      BY ONLY <1>4, <2>1, <3>1, d \in Dirs
    <3>2. CASE d # g
      BY ONLY <1>2, <2>1, <3>2, d \in Dirs
    <3> QED
      BY <3>1, <3>2
  <2> QED
    BY ONLY <1>2, <2>2 DEF OnlyPlaces
<1>6. c.parent \in Dirs /\ tr[c.parent].live /\ c.name \in Names(w, c.parent)
      /\ g = Goal(w, c.parent, c.name) /\ Enters(w, c.parent, c.name)
  BY DEF Leads, g
<1>7. w.root \in Dirs /\ g # w.root /\ tr[w.root].parent = NoDir
  BY ScanAssumption DEF TreeStands, g
<1>8. Parented(tr) /\ Grounded(tr)
  BY DEF TreeStands, Tree
<1>9. Grounded(to)
  <2>1. c.parent \in Dirs /\ to[g].parent = c.parent /\ g \notin Upwards(tr, c.parent)
    BY <1>4, <1>6 DEF g
  <2> QED
    BY ONLY <1>0, <1>8, <2>1, MoveGrounds
<1>10. \A d \in Dirs : to[d].live = tr[d].live /\ to[d].self = tr[d].self
  BY <1>2, <1>4
<1>11. Tree(to)
  <2>1. \A d \in Dirs : to[d].parent = tr[d].parent \/ (d = g /\ to[d].parent = c.parent)
    BY <1>2, <1>4
  <2>2. Parented(to)
    BY <1>6, <1>8, <2>1 DEF Parented
  <2>3. \A d \in Dirs : /\ to[d].self \in Nat
                       /\ IF to[d].live THEN to[d].parent # NoDir => to[to[d].parent].live
                          ELSE to[d].parent = NoDir
    <3>1. \A d \in Dirs : /\ tr[d].self \in Nat
                         /\ IF tr[d].live THEN tr[d].parent # NoDir => tr[tr[d].parent].live
                            ELSE tr[d].parent = NoDir
      BY DEF TreeStands, Tree
    <3>2. \A d \in Dirs : tr[d].parent \in Dirs \cup {NoDir}
      BY <1>8 DEF Parented
    <3>3. tr[g].live /\ NoDir \notin Dirs
      BY ScanAssumption DEF g
    <3> QED
      BY ONLY <1>6, <1>10, <2>1, <3>1, <3>2, <3>3
  <2> QED
    BY <1>9, <2>2, <2>3 DEF Tree
<1>12. \A d \in Dirs : /\ to[d] = NodeRecord(to[d]) /\ to[d].live \in BOOLEAN
                       /\ ~to[d].live => to[d] = NoNode
  <2>1. \A d \in Dirs : /\ tr[d] = NodeRecord(tr[d]) /\ tr[d].live \in BOOLEAN
                        /\ ~tr[d].live => tr[d] = NoNode
    BY DEF TreeStands
  <2>2. tr[g].live
    BY DEF g
  <2> QED
    BY ONLY <1>0, <1>2, <1>4, <2>1, <2>2
<1>13. \A d \in Dirs : to[d].live /\ d # w.root =>
          /\ to[d].parent \in Dirs /\ to[d].name \in Names(w, to[d].parent)
          /\ Goal(w, to[d].parent, to[d].name) = d /\ Enters(w, to[d].parent, to[d].name)
  <2>1. \A d \in Dirs : tr[d].live /\ d # w.root =>
          /\ tr[d].parent \in Dirs /\ tr[d].name \in Names(w, tr[d].parent)
          /\ Goal(w, tr[d].parent, tr[d].name) = d /\ Enters(w, tr[d].parent, tr[d].name)
    BY DEF TreeStands
  <2> QED
    BY ONLY <1>0, <1>2, <1>4, <1>6, <2>1
<1>14. to[w.root].live /\ to[w.root].parent = NoDir
  BY <1>2, <1>7 DEF TreeStands
<1> QED
  BY <1>2, <1>5, <1>11, <1>12, <1>13, <1>14 DEF TreeStands

\* The candidates of a directory that has its place.
LEMMA EdgesLead ==
    ASSUME NEW w, NEW nd, EdgesStand(w, nd, edges), NEW tr, OnlyPlaces(nd, tr),
           NEW d \in Dirs, NEW path
    PROVE  /\ IsFiniteSet(EdgesOf(d, path))
           /\ \A c \in EdgesOf(d, path) : /\ Leads(w, tr, c) /\ c.parent = d
                                          /\ c.path = Append(path, c.name)
<1> DEFINE from == {x \in edges : x.from = d}
           of(e) == [path |-> Append(path, e.name), name |-> e.name, parent |-> d, group |-> e.to]
<1>1. EdgesOf(d, path) = {of(e) : e \in from}
  BY DEF EdgesOf
<1>2. IsFiniteSet(from)
  BY FS_Subset DEF EdgesStand
<1>3. IsFiniteSet(EdgesOf(d, path))
  <2>1. [e \in from |-> of(e)] \in Surjection(from, EdgesOf(d, path))
    BY <1>1 DEF Surjection
  <2> QED
    BY <1>2, <2>1, FS_Surjection
<1>4. ASSUME NEW c \in EdgesOf(d, path)
      PROVE  Leads(w, tr, c) /\ c.parent = d /\ c.path = Append(path, c.name)
  <2>1. PICK e \in from : c = of(e)
    BY <1>1
  <2>2. /\ e.from = d /\ nd[d].live /\ e.name \in Names(w, d) /\ e.to = Goal(w, d, e.name)
        /\ Enters(w, d, e.name)
    BY DEF EdgesStand
  <2>3. tr[d].live
    BY <2>2 DEF OnlyPlaces
  <2>4. c.path = Append(path, e.name) /\ c.name = e.name /\ c.parent = d /\ c.group = e.to
        /\ c = [path |-> c.path, name |-> c.name, parent |-> c.parent, group |-> c.group]
    BY <2>1
  <2> QED
    BY ONLY <2>2, <2>3, <2>4, d \in Dirs DEF Leads
<1> QED
  BY <1>3, <1>4

\* One candidate has the smallest path.
LEMMA SmallestCandidate ==
    ASSUME NEW w \in Worlds, NEW nd, NEW s, StillSettling(w, nd, s), s.frontier # {}
    PROVE  \E c \in s.frontier : \A o \in s.frontier : o = c \/ PathLess(c.path, o.path)
<1>1. PICK P : PathsLead(w, s.tree, s.frontier, s.assigned, P)
  BY DEF StillSettling
<1> DEFINE Q == [c \in s.frontier |-> c.path]
<1>2. \A c \in s.frontier :
        /\ c.parent \in s.assigned /\ s.tree[c.parent].live /\ P[c.parent] \in Seq(Int)
        /\ c.name \in Int /\ c.path = Append(P[c.parent], c.name)
        /\ c.group = Goal(w, c.parent, c.name)
        /\ c = [path |-> c.path, name |-> c.name, parent |-> c.parent, group |-> c.group]
  <2>1. \A d \in Dirs : Names(w, d) \subseteq Int
    BY ScanAssumption DEF Names
  <2>2. \A c \in s.frontier : Leads(w, s.tree, c)
    BY DEF StillSettling
  <2> QED
    BY <1>1, <2>1, <2>2 DEF Leads, PathsLead
<1>3. \A c \in s.frontier : Q[c] \in Seq(Int)
  <2>1. \A p \in Seq(Int) : \A n \in Int : Appended(p, n) \in Seq(Int)
    BY DEF Appended
  <2>2. \A c \in s.frontier : Q[c] = Appended(P[c.parent], c.name)
    BY <1>2 DEF Appended
  <2> HIDE DEF Q
  <2> QED
    BY ONLY <1>2, <2>1, <2>2
<1>4. ASSUME NEW c \in s.frontier, NEW o \in s.frontier, Q[c] = Q[o]
      PROVE  c = o
  <2>1. P[c.parent] = P[o.parent] /\ c.name = o.name
    <3>1. Appended(P[c.parent], c.name) = Appended(P[o.parent], o.name)
      BY <1>2, <1>4 DEF Appended
    <3>2. P[c.parent] \in Seq(Int) /\ P[o.parent] \in Seq(Int)
      BY <1>2
    <3> QED
      BY ONLY <3>1, <3>2, AppendedIs
  <2>2. c.parent = o.parent
    BY <1>1, <1>2, <2>1 DEF PathsLead
  <2>3. c.path = o.path
    BY <1>4
  <2>4. c.group = o.group
    BY <1>2, <2>1, <2>2
  <2> QED
    BY <1>2, <2>1, <2>2, <2>3, <2>4
<1>5. IsFiniteSet(s.frontier)
  BY DEF StillSettling
<1>6. PICK m \in s.frontier : \A x \in s.frontier : x = m \/ PathLess(Q[m], Q[x])
  <2> HIDE DEF Q
  <2> QED
    BY ONLY <1>3, <1>4, <1>5, s.frontier # {}, SmallestIsOne
<1> QED
  BY <1>6

\* A group gets its place, and what is in it comes next.
LEMMA AssignedSettles ==
    ASSUME NEW w \in Worlds, EdgesStand(w, node, edges), NEW s, StillSettling(w, node, s),
           NEW c \in s.frontier, c.group \notin s.assigned, s.tree[c.group].live,
           NEW to, TreeStands(w, to), OnlyPlaces(node, to)
    PROVE  StillSettling(w, node, Assigned(s, c, to))
<1> DEFINE g == c.group
           new == EdgesOf(g, c.path)
           t == Assigned(s, c, to)
           rest == s.frontier \ {c}
<1>1. PICK P : PathsLead(w, s.tree, s.frontier, s.assigned, P)
  BY DEF StillSettling
<1>2. Leads(w, s.tree, c) /\ g \in Dirs
  BY DEF StillSettling, Leads, Enters
<1>3. t.frontier = rest \cup new /\ t.assigned = s.assigned \cup {g} /\ t.tree = to
      /\ t = [frontier |-> t.frontier, assigned |-> t.assigned, tree |-> t.tree,
              failed |-> t.failed]
  <2>1. s = [frontier |-> s.frontier, assigned |-> s.assigned, tree |-> s.tree,
             failed |-> s.failed]
    BY DEF StillSettling
  <2>2. t = [s EXCEPT !.frontier = (s.frontier \ {c}) \cup new,
                      !.assigned = s.assigned \cup {g}, !.tree = to]
    BY DEF Assigned
  <2> HIDE DEF t, new, g
  <2> QED
    BY ONLY <2>1, <2>2 DEF rest
<1>4. /\ IsFiniteSet(new)
      /\ \A x \in new : Leads(w, to, x) /\ x.parent = g /\ x.path = Append(c.path, x.name)
  BY <1>2, EdgesLead
<1>5. \A d \in Dirs : to[d].live = s.tree[d].live
  BY DEF StillSettling, OnlyPlaces
<1>6. \A x \in rest : Leads(w, to, x)
  <2>1. \A x \in rest : Leads(w, s.tree, x)
    BY DEF StillSettling
  <2> QED
    BY ONLY <1>5, <2>1 DEF Leads
<1>7. IsFiniteSet(t.frontier)
  <2>1. IsFiniteSet(rest)
    BY FS_Subset DEF StillSettling
  <2> HIDE DEF new, rest
  <2>2. IsFiniteSet(rest \cup new)
    BY ONLY <1>4, <2>1, FS_Union
  <2> HIDE DEF t
  <2> QED
    BY ONLY <1>3, <2>2
<1> DEFINE R == [d \in Dirs |-> IF d = g THEN c.path ELSE P[d]]
<1>8. /\ c.parent \in s.assigned /\ c.path = Append(P[c.parent], c.name) /\ c.parent \in Dirs
      /\ P[c.parent] \in Seq(Int) /\ s.tree[c.parent].live /\ c.name \in Int
      /\ c.name \in Names(w, c.parent) /\ g = Goal(w, c.parent, c.name)
  <2>1. c.name \in Names(w, c.parent) /\ c.parent \in Dirs /\ s.tree[c.parent].live
        /\ g = Goal(w, c.parent, c.name)
    BY <1>2 DEF Leads
  <2>2. c.name \in Int
    BY <2>1, ScanAssumption DEF Names
  <2> QED
    BY <1>1, <2>1, <2>2 DEF PathsLead
<1>9. s.assigned \subseteq Dirs /\ w.root \in s.assigned
  BY DEF StillSettling
<1>10. \A d \in s.assigned : R[d] = P[d] /\ d \in Dirs /\ d # g
  BY <1>9
<1>11. R[g] = c.path /\ c.path \in Seq(Int)
  BY <1>2, <1>8
<1> HIDE DEF R, rest, new, t
<1>12. ASSUME NEW d \in s.assigned, to[d].live, R[d] = R[g]
       PROVE  FALSE
  <2>1. P[d] = Append(P[c.parent], c.name) /\ s.tree[d].live
    BY <1>5, <1>8, <1>10, <1>11, <1>12
  <2>2. P[d] # <<>>
    BY <1>8, <2>1
  <2>a. PICK p \in s.assigned : \E n \in Names(w, p) :
            s.tree[p].live /\ P[d] = Append(P[p], n) /\ Goal(w, p, n) = d
    BY <1>1, <2>1, <2>2 DEF PathsLead
  <2>3. PICK n \in Names(w, p) :
            s.tree[p].live /\ P[d] = Append(P[p], n) /\ Goal(w, p, n) = d
    BY <2>a
  <2>4. P[p] \in Seq(Int)
    BY <1>1, <2>3 DEF PathsLead
  <2>5. P[p] = P[c.parent] /\ n = c.name
    <3>1. Appended(P[p], n) = Appended(P[c.parent], c.name)
      BY <2>1, <2>3 DEF Appended
    <3>2. P[p] \in Seq(Int) /\ P[c.parent] \in Seq(Int)
      BY <1>8, <2>4
    <3> QED
      BY ONLY <3>1, <3>2, AppendedIs
  <2>6. p = c.parent
    BY <1>1, <1>8, <2>3, <2>5 DEF PathsLead
  <2> QED
    BY <1>8, <1>10, <2>3, <2>5, <2>6
<1>13. PathsLead(w, to, t.frontier, t.assigned, R)
  <2>1. ASSUME NEW d \in t.assigned, to[d].live
        PROVE  /\ R[d] \in Seq(Int)
               /\ \/ d = w.root /\ R[d] = <<>>
                  \/ \E p \in t.assigned : \E n \in Names(w, p) :
                       to[p].live /\ R[d] = Append(R[p], n) /\ Goal(w, p, n) = d
    <3>1. CASE d = g
      <4>1. to[c.parent].live /\ R[g] = Append(R[c.parent], c.name) /\ c.parent \in t.assigned
        BY <1>3, <1>5, <1>8, <1>10, <1>11
      <4> QED
        BY ONLY <1>8, <1>11, <3>1, <4>1
    <3>2. CASE d # g
      <4>1. d \in s.assigned /\ s.tree[d].live /\ R[d] = P[d]
        BY <1>3, <1>5, <1>10, <2>1, <3>2
      <4>2. /\ P[d] \in Seq(Int)
            /\ \/ d = w.root /\ P[d] = <<>>
               \/ \E p \in s.assigned : \E n \in Names(w, p) :
                    s.tree[p].live /\ P[d] = Append(P[p], n) /\ Goal(w, p, n) = d
        BY <1>1, <4>1 DEF PathsLead
      <4>3. \A p \in s.assigned : p \in t.assigned /\ R[p] = P[p] /\ to[p].live = s.tree[p].live
        BY <1>3, <1>5, <1>10
      <4> QED
        BY ONLY <4>1, <4>2, <4>3
    <3> QED
      BY <3>1, <3>2
  <2>2. ASSUME NEW d \in t.assigned, NEW e \in t.assigned, to[d].live, to[e].live, R[d] = R[e]
        PROVE  d = e
    <3>1. CASE d = g \/ e = g
      BY ONLY <1>3, <1>12, <2>2, <3>1
    <3>2. CASE d # g /\ e # g
      <4>1. d \in s.assigned /\ e \in s.assigned /\ s.tree[d].live /\ s.tree[e].live /\ P[d] = P[e]
        BY <1>3, <1>5, <1>10, <2>2, <3>2
      <4> QED
        BY <1>1, <4>1 DEF PathsLead
    <3> QED
      BY <3>1, <3>2
  <2>3. ASSUME NEW x \in t.frontier
        PROVE  x.parent \in t.assigned /\ x.path = Append(R[x.parent], x.name)
    <3>1. CASE x \in new
      BY ONLY <1>3, <1>4, <1>11, <3>1
    <3>2. CASE x \notin new
      <4>1. x \in s.frontier
        BY <1>3, <2>3, <3>2 DEF rest
      <4>2. x.parent \in s.assigned /\ x.path = Append(P[x.parent], x.name)
        BY <1>1, <4>1 DEF PathsLead
      <4> QED
        BY ONLY <1>3, <1>10, <4>2
    <3> QED
      BY <3>1, <3>2
  <2> QED
    BY ONLY <2>1, <2>2, <2>3 DEF PathsLead
<1>14. \A x \in t.frontier : Leads(w, to, x)
  BY <1>3, <1>4, <1>6
<1>15. w.root \in t.assigned /\ t.assigned \subseteq Dirs
  BY <1>2, <1>3, <1>9
<1>16. StillSettling(w, node, t)
  <2>1. \E Q : PathsLead(w, to, t.frontier, t.assigned, Q)
    BY <1>13
  <2> QED
    BY ONLY <1>3, <1>7, <1>14, <1>15, <2>1, TreeStands(w, to), OnlyPlaces(node, to) DEF StillSettling
<1> QED
  BY <1>16 DEF t

\* A candidate is taken: what it leads to has its place, or gets it, or is
\* not in the tree.
LEMMA VisitedSettles ==
    ASSUME NEW w \in Worlds, EdgesStand(w, node, edges), NEW s, StillSettling(w, node, s),
           NEW c \in s.frontier
    PROVE  StillSettling(w, node, Visited(s, c))
<1> DEFINE g == c.group
           rest == s.frontier \ {c}
<1>1. PICK P : PathsLead(w, s.tree, s.frontier, s.assigned, P)
  BY DEF StillSettling
<1>2. /\ s = [frontier |-> s.frontier, assigned |-> s.assigned, tree |-> s.tree,
              failed |-> s.failed]
      /\ TreeStands(w, s.tree) /\ OnlyPlaces(node, s.tree)
      /\ IsFiniteSet(s.frontier) /\ (\A x \in s.frontier : Leads(w, s.tree, x))
      /\ w.root \in s.assigned /\ s.assigned \subseteq Dirs
  BY DEF StillSettling
<1>3. Leads(w, s.tree, c) /\ g \in Dirs
  BY <1>2 DEF Leads, Enters
<1>4. IsFiniteSet(rest)
  BY <1>2, FS_Subset
<1>5. CASE g \in s.assigned
  <2>1. Visited(s, c) = [s EXCEPT !.frontier = rest]
    BY <1>5 DEF Visited
  <2>2. Visited(s, c) = [frontier |-> rest, assigned |-> s.assigned, tree |-> s.tree,
                         failed |-> s.failed]
    <3> HIDE DEF rest
    <3> QED
      BY ONLY <1>2, <2>1
  <2>3. PathsLead(w, s.tree, rest, s.assigned, P)
    BY <1>1 DEF PathsLead
  <2> DEFINE t == Visited(s, c)
  <2>4. t.frontier = rest /\ t.assigned = s.assigned /\ t.tree = s.tree
        /\ t = [frontier |-> t.frontier, assigned |-> t.assigned, tree |-> t.tree,
                failed |-> t.failed]
    <3> HIDE DEF rest
    <3> QED
      BY ONLY <2>2
  <2>5. (\A x \in rest : Leads(w, s.tree, x)) /\ \E Q : PathsLead(w, s.tree, rest, s.assigned, Q)
    BY <1>2, <2>3
  <2> HIDE DEF t, rest
  <2>6. StillSettling(w, node, t)
    BY ONLY <1>2, <1>4, <2>4, <2>5 DEF StillSettling
  <2> QED
    BY <2>6 DEF t
<1>6. CASE g \notin s.assigned /\ ~s.tree[g].live
  <2>1. Visited(s, c) = [s EXCEPT !.frontier = rest, !.assigned = s.assigned \cup {g}]
    BY <1>6 DEF Visited
  <2> DEFINE t == Visited(s, c)
             more == s.assigned \cup {g}
  <2>2. t = [frontier |-> rest, assigned |-> more, tree |-> s.tree, failed |-> s.failed]
    <3> HIDE DEF rest
    <3> QED
      BY ONLY <1>2, <2>1
  <2>3. PathsLead(w, s.tree, rest, more, P)
    BY <1>1, <1>6 DEF PathsLead
  <2>4. t.frontier = rest /\ t.assigned = more /\ t.tree = s.tree
        /\ t = [frontier |-> t.frontier, assigned |-> t.assigned, tree |-> t.tree,
                failed |-> t.failed]
    <3> HIDE DEF rest, more
    <3> QED
      BY ONLY <2>2
  <2>5. /\ \A x \in rest : Leads(w, s.tree, x)
        /\ \E Q : PathsLead(w, s.tree, rest, more, Q)
        /\ w.root \in more /\ more \subseteq Dirs
    BY <1>2, <1>3, <2>3
  <2> HIDE DEF t, rest, more
  <2>6. StillSettling(w, node, t)
    BY ONLY <1>2, <1>4, <2>4, <2>5 DEF StillSettling
  <2> QED
    BY <2>6 DEF t
<1>7. CASE g \notin s.assigned /\ s.tree[g].live
  <2>1. CASE s.tree[g].parent = c.parent /\ s.tree[g].name = c.name
    <3>1. Visited(s, c) = Assigned(s, c, s.tree)
      BY <1>7, <2>1 DEF Visited
    <3> QED
      BY <1>2, <1>7, <3>1, AssignedSettles
  <2>2. CASE /\ ~(s.tree[g].parent = c.parent /\ s.tree[g].name = c.name)
             /\ CanMove(s.tree, g, c.parent)
    <3> DEFINE to == [s.tree EXCEPT ![c.group].parent = c.parent, ![c.group].name = c.name]
    <3>1. Visited(s, c) = Assigned(s, c, to)
      BY <1>7, <2>2 DEF Visited
    <3>2. s.tree[g].parent # NoDir /\ g \notin Upwards(s.tree, c.parent)
      BY <2>2 DEF CanMove
    <3>3. TreeStands(w, to) /\ OnlyPlaces(node, to)
      BY <1>2, <1>3, <1>7, <3>2, MoveStands
    <3> HIDE DEF to
    <3> QED
      BY <1>7, <3>1, <3>3, AssignedSettles
  <2>3. CASE /\ ~(s.tree[g].parent = c.parent /\ s.tree[g].name = c.name)
             /\ ~CanMove(s.tree, g, c.parent)
    <3> DEFINE t == Visited(s, c)
    <3>1. t = [s EXCEPT !.failed = TRUE]
      BY <1>7, <2>3 DEF Visited
    <3>2. t.frontier = s.frontier /\ t.assigned = s.assigned /\ t.tree = s.tree
          /\ t = [frontier |-> t.frontier, assigned |-> t.assigned, tree |-> t.tree,
                  failed |-> t.failed]
      BY ONLY <1>2, <3>1
    <3>3. \E Q : PathsLead(w, s.tree, s.frontier, s.assigned, Q)
      BY <1>1
    <3> HIDE DEF t
    <3>4. StillSettling(w, node, t)
      BY ONLY <1>2, <3>2, <3>3 DEF StillSettling
    <3> QED
      BY <3>4 DEF t
  <2> QED
    BY <2>1, <2>2, <2>3
<1> QED
  BY <1>5, <1>6, <1>7

\* Each turn.
LEMMA NextSettles ==
    ASSUME NEW w \in Worlds, EdgesStand(w, node, edges), NEW s, StillSettling(w, node, s)
    PROVE  StillSettling(w, node, NextOwner(s))
<1> DEFINE c == CHOOSE x \in s.frontier : \A o \in s.frontier :
                    o = x \/ PathLess(x.path, o.path)
<1>1. CASE s.failed \/ s.frontier = {}
  BY <1>1 DEF NextOwner
<1>2. CASE ~(s.failed \/ s.frontier = {})
  <2>1. c \in s.frontier
    BY <1>2, SmallestCandidate
  <2>2. NextOwner(s) = Visited(s, c)
    BY <1>2 DEF NextOwner
  <2> HIDE DEF c
  <2> QED
    BY <2>1, <2>2, VisitedSettles
<1> QED
  BY <1>1, <1>2

AtTheRoot == [frontier |-> EdgesOf(Root, <<>>), assigned |-> {Root}, tree |-> node,
              failed |-> FALSE]
IsInTurnOwners(f, n) ==
    f = [k \in 0..n |-> IF k = 0 THEN AtTheRoot
                        ELSE CHOOSE s \in {NextOwner(was) : was \in {f[k - 1]}} : TRUE]

\* The turns are taken one after the other.
LEMMA TurnsExist ==
    ASSUME NEW n \in Nat
    PROVE  \E f : IsInTurnOwners(f, n)
<1> DEFINE G == {k \in Nat : \E f : IsInTurnOwners(f, k)}
           Then(x) == CHOOSE s \in {NextOwner(was) : was \in {x}} : TRUE
<1> HIDE DEF Then
<1>1. 0 \in G
  <2> DEFINE f == [k \in 0..0 |-> AtTheRoot]
  <2>1. \A k \in 0..0 : k = 0
    OBVIOUS
  <2>2. IsInTurnOwners(f, 0)
    BY <2>1 DEF IsInTurnOwners
  <2> QED
    BY <2>2
<1>2. ASSUME NEW m \in Nat, m \in G
      PROVE  m + 1 \in G
  <2>1. PICK f : IsInTurnOwners(f, m)
    BY <1>2
  <2>2. \A k \in 0..m : f[k] = IF k = 0 THEN AtTheRoot ELSE Then(f[k - 1])
    BY <2>1 DEF IsInTurnOwners, Then
  <2> DEFINE h == [k \in 0..(m + 1) |-> IF k \in 0..m THEN f[k] ELSE Then(f[m])]
             Body(k) == IF k = 0 THEN AtTheRoot ELSE Then(h[k - 1])
  <2>3. ASSUME NEW k \in 0..(m + 1)
        PROVE  h[k] = Body(k)
    <3>1. CASE k = 0
      <4>1. 0 \in 0..m
        OBVIOUS
      <4> QED
        BY <2>2, <3>1, <4>1
    <3>2. CASE k # 0
      <4>1. k - 1 \in 0..m /\ (k \notin 0..m => k = m + 1)
        BY <3>2
      <4>2. h[k - 1] = f[k - 1]
        BY <4>1
      <4> QED
        BY <2>2, <3>2, <4>1, <4>2
    <3> QED
      BY <3>1, <3>2
  <2>4. h = [k \in 0..(m + 1) |-> Body(k)]
    <3>1. h = [k \in 0..(m + 1) |-> h[k]]
      OBVIOUS
    <3> HIDE DEF h, Body
    <3> QED
      BY <2>3, <3>1
  <2>5. IsInTurnOwners(h, m + 1)
    <3> HIDE DEF h
    <3> QED
      BY <2>4 DEF IsInTurnOwners, Then
  <2> HIDE DEF h
  <2> QED
    BY <2>5
<1>3. Nat \subseteq G
  <2> HIDE DEF G
  <2> QED
    BY <1>1, <1>2, Induction
<1> QED
  BY <1>3

\* It is a tree in the end, with the same directories, however the turns went.
LEMMA CanonicalStands ==
    ASSUME world \in Worlds, TreeStands(world, node), EdgesStand(world, node, edges)
    PROVE  TreeStands(world, Canonical.tree) /\ OnlyPlaces(node, Canonical.tree)
<1> DEFINE N == Cardinality(edges)
           it == CHOOSE f : IsInTurnOwners(f, N)
<1>1. N \in Nat
  BY FS_CardinalityType DEF EdgesStand
<1>2. IsInTurnOwners(it, N)
  BY <1>1, TurnsExist
<1>3. OwnersInTurn = it
  BY DEF OwnersInTurn, IsInTurnOwners, AtTheRoot
<1> HIDE DEF it
<1>4. \A k \in 0..N : it[k] = IF k = 0 THEN AtTheRoot ELSE NextOwner(it[k - 1])
  BY <1>2 DEF IsInTurnOwners
<1> DEFINE G == {k \in Nat : k <= N => StillSettling(world, node, it[k])}
<1>5. world.root \in Dirs /\ node[world.root].live /\ OnlyPlaces(node, node)
  BY ScanAssumption DEF TreeStands, OnlyPlaces
<1>6. StillSettling(world, node, AtTheRoot)
  <2> DEFINE P == [d \in Dirs |-> <<>>]
             s == AtTheRoot
             start == EdgesOf(world.root, <<>>)
  <2>1. s = [frontier |-> start, assigned |-> {world.root}, tree |-> node, failed |-> FALSE]
    BY DEF AtTheRoot, Root
  <2>2. IsFiniteSet(start) /\ \A c \in start : /\ Leads(world, node, c)
                                              /\ c.parent = world.root
                                              /\ c.path = Append(<<>>, c.name)
    BY <1>5, EdgesLead
  <2> HIDE DEF start
  <2>3. PathsLead(world, node, start, {world.root}, P)
    <3>1. P[world.root] = <<>> /\ <<>> \in Seq(Int)
      BY <1>5
    <3> HIDE DEF P
    <3> QED
      BY <2>2, <3>1 DEF PathsLead
  <2> HIDE DEF s, P
  <2>4. /\ s.frontier = start /\ s.assigned = {world.root} /\ s.tree = node
        /\ s = [frontier |-> s.frontier, assigned |-> s.assigned, tree |-> s.tree,
                failed |-> s.failed]
    BY ONLY <2>1
  <2>5. \E Q : PathsLead(world, node, start, {world.root}, Q)
    BY <2>3
  <2>6. StillSettling(world, node, s)
    BY ONLY <1>5, <2>2, <2>4, <2>5, TreeStands(world, node) DEF StillSettling
  <2> QED
    BY <2>6 DEF s
<1>7. 0 \in G
  BY <1>1, <1>4, <1>6
<1>8. ASSUME NEW k \in Nat, k \in G
      PROVE  k + 1 \in G
  <2> SUFFICES ASSUME k + 1 <= N PROVE StillSettling(world, node, it[k + 1])
    OBVIOUS
  <2>1. StillSettling(world, node, it[k])
    BY <1>1, <1>8
  <2>2. k + 1 \in 0..N /\ k + 1 # 0 /\ (k + 1) - 1 = k
    BY <1>1
  <2>3. it[k + 1] = NextOwner(it[k])
    BY <1>4, <2>2
  <2> QED
    BY <2>1, <2>3, NextSettles
<1>9. Nat \subseteq G
  <2> HIDE DEF G
  <2> QED
    BY <1>7, <1>8, Induction
<1>10. StillSettling(world, node, it[N])
  BY <1>1, <1>9
<1>11. Canonical.tree = it[N].tree
  BY <1>3 DEF Canonical
<1> QED
  BY <1>10, <1>11 DEF StillSettling

-----------------------------------------------------------------------------
(***************************************************************************)
(* The owners of files                                                     *)
(***************************************************************************)

\* The bytes of a file are counted at most once.
CountedOnce(w, ls) ==
    \A l, o \in ls :
        l.bytes > 0 /\ o.bytes > 0 /\ l.id = o.id /\ Multiple(w, l.dir, l.name) => l = o

\* What is met more than once is so under every name.
LEMMA SameMultiple ==
    ASSUME NEW w \in Worlds, NEW d \in Dirs, NEW n \in Names(w, d),
           NEW e \in Dirs, NEW m \in Names(w, e),
           IdOf(w, d, n) = IdOf(w, e, m), Multiple(w, d, n)
    PROVE  Multiple(w, e, m)
<1>1. CASE w.follow
  BY <1>1 DEF Multiple
<1>2. CASE ~w.follow
  <2>1. ~w.entries[d][n].alias /\ w.links[Goal(w, d, n)] > 1
    BY <1>2 DEF Multiple
  <2>2. Goal(w, d, n) \in Dirs \cup Files
    BY ScanAssumption DEF Goal, Names
  <2>3. ~w.entries[e][m].alias /\ Goal(w, e, m) = Goal(w, d, n)
    BY <1>2, <2>1, <2>2, ScanAssumption DEF IdOf
  <2> QED
    BY <1>2, <2>1, <2>3 DEF Multiple
<1> QED
  BY <1>1, <1>2

\* So it is during the walk.
LEMMA WalkCountsOnce ==
    ASSUME Walking
    PROVE  CountedOnce(world, leaves)
<1>1. LeavesStand(world, node, leaves) /\ Weighed(world, frame, leaves, counted)
  BY DEF Walking, WalkStands
<1> SUFFICES ASSUME NEW l \in leaves, NEW o \in leaves, l.bytes > 0, o.bytes > 0, l.id = o.id,
                    Multiple(world, l.dir, l.name)
             PROVE  l = o
  BY DEF CountedOnce
<1>2. /\ l.dir \in Dirs /\ l.name \in Names(world, l.dir) /\ l.id = IdOf(world, l.dir, l.name)
      /\ o.dir \in Dirs /\ o.name \in Names(world, o.dir) /\ o.id = IdOf(world, o.dir, o.name)
  BY <1>1 DEF LeavesStand
<1>3. Multiple(world, o.dir, o.name)
  BY <1>2, SameMultiple DEF Walking
<1>4. Weighs(world, frame, leaves, l.dir, l.name) /\ Weighs(world, frame, leaves, o.dir, o.name)
  BY <1>3 DEF Weighs
<1>5. l.dir = o.dir /\ l.name = o.name
  <2>1. \A d, e \in Dirs : \A n \in Names(world, d) : \A m \in Names(world, e) :
            Weighs(world, frame, leaves, d, n) /\ Weighs(world, frame, leaves, e, m)
                /\ IdOf(world, e, m) = IdOf(world, d, n) => d = e /\ n = m
    BY <1>1 DEF Weighed
  <2>2. IdOf(world, o.dir, o.name) = IdOf(world, l.dir, l.name)
    BY <1>2
  <2> QED
    BY ONLY <1>2, <1>4, <2>1, <2>2
<1> QED
  BY <1>1, <1>5 DEF LeavesStand

\* Those that share their bytes.
LEMMA SharedAre ==
    ASSUME Walking, NEW l \in leaves
    PROVE  /\ Shared(l) \subseteq leaves /\ IsFiniteSet(Shared(l))
           /\ \A o \in Shared(l) : ~o.err /\ ~l.err /\ o.id = l.id
           /\ Shared(l) = IF l.err THEN {} ELSE {o \in leaves : ~o.err /\ o.id = l.id
                                                   /\ Multiple(world, o.dir, o.name)}
           /\ \A o \in Shared(l) : l.id = o.id => Shared(o) = Shared(l)
           /\ ~l.err /\ Multiple(world, l.dir, l.name) => l \in Shared(l)
           /\ Shared(l) # {} => l \in Shared(l)
<1>1. LeavesStand(world, node, leaves)
  BY DEF Walking, WalkStands
<1>2. \A o \in leaves : /\ o.dir \in Dirs /\ o.name \in Names(world, o.dir)
                        /\ o.id = IdOf(world, o.dir, o.name)
  BY <1>1 DEF LeavesStand
<1>3. \A o \in leaves : Deduplicated(o.dir, o.name) <=> Multiple(world, o.dir, o.name)
  BY <1>2, EntryIs
<1>4. Shared(l) = IF l.err THEN {} ELSE {o \in leaves : ~o.err /\ o.id = l.id
                                            /\ Multiple(world, o.dir, o.name)}
  BY <1>3 DEF Shared
<1>5. IsFiniteSet(Shared(l))
  BY <1>1, <1>4, FS_Subset, FS_EmptySet DEF LeavesStand
<1>6. \A o \in Shared(l) : Shared(o) = Shared(l)
  BY <1>4 DEF Shared
<1>7. ASSUME NEW o \in leaves, o.id = l.id, Multiple(world, o.dir, o.name)
      PROVE  Multiple(world, l.dir, l.name)
  BY <1>2, <1>7, SameMultiple DEF Walking
<1>8. Shared(l) # {} => l \in Shared(l)
  BY <1>4, <1>7
<1> QED
  BY <1>4, <1>5, <1>6, <1>8

\* One of them has the smallest path.
LEMMA OwnerIsOne ==
    ASSUME Walking, NEW tr, TreeStands(world, tr), OnlyPlaces(node, tr),
           NEW l \in leaves, Shared(l) # {}
    PROVE  /\ Owner(tr, l) \in Shared(l)
           /\ \A x \in Shared(l) : \/ x = Owner(tr, l)
                                  \/ PathLess(LeafPath(tr, Owner(tr, l)), LeafPath(tr, x))
<1> DEFINE S == Shared(l)
           P == [x \in S |-> Appended(PathIn(tr, x.dir), x.name)]
<1>1. LeavesStand(world, node, leaves)
  BY DEF Walking, WalkStands
<1>2. IsFiniteSet(S) /\ S \subseteq leaves
  BY SharedAre
<1>3. /\ \A d \in Dirs : PathIn(tr, d) \in Seq(Int)
      /\ \A d, e \in Dirs : tr[d].live /\ tr[e].live /\ PathIn(tr, d) = PathIn(tr, e) => d = e
  BY TreePaths DEF Walking
<1>4. \A x \in S : /\ x.dir \in Dirs /\ tr[x.dir].live /\ x.name \in Int
  <2>1. \A x \in S : x.dir \in Dirs /\ node[x.dir].live /\ x.name \in Names(world, x.dir)
    BY <1>1, <1>2 DEF LeavesStand
  <2>2. \A d \in Dirs : Names(world, d) \subseteq Int
    BY ScanAssumption DEF Names, Walking
  <2> QED
    BY <2>1, <2>2 DEF OnlyPlaces
<1>5. \A x \in S : P[x] \in Seq(Int) /\ P[x] = LeafPath(tr, x)
  <2>1. \A p \in Seq(Int) : \A n \in Int : Appended(p, n) \in Seq(Int)
    BY DEF Appended
  <2>2. \A x \in S : P[x] = Appended(PathIn(tr, x.dir), x.name)
    OBVIOUS
  <2>3. \A x \in S : Appended(PathIn(tr, x.dir), x.name) = LeafPath(tr, x)
    BY DEF Appended, LeafPath
  <2> HIDE DEF P
  <2>4. ASSUME NEW x \in S
        PROVE  Appended(PathIn(tr, x.dir), x.name) \in Seq(Int)
    <3>1. PathIn(tr, x.dir) \in Seq(Int) /\ x.name \in Int
      BY ONLY <1>3, <1>4, <2>4
    <3> QED
      BY ONLY <3>1, <2>1
  <2> QED
    BY ONLY <2>2, <2>3, <2>4
<1>6. ASSUME NEW x \in S, NEW y \in S, P[x] = P[y]
      PROVE  x = y
  <2>1. Appended(PathIn(tr, x.dir), x.name) = Appended(PathIn(tr, y.dir), y.name)
    BY <1>6
  <2>2. PathIn(tr, x.dir) \in Seq(Int) /\ PathIn(tr, y.dir) \in Seq(Int)
    BY <1>3, <1>4
  <2>3. PathIn(tr, x.dir) = PathIn(tr, y.dir) /\ x.name = y.name
    BY ONLY <2>1, <2>2, AppendedIs
  <2>4. x.dir = y.dir
    BY <1>3, <1>4, <2>3
  <2> QED
    BY <1>1, <1>2, <2>3, <2>4 DEF LeavesStand
<1>7. PICK m \in S : \A x \in S : x = m \/ PathLess(P[m], P[x])
  <2>1. \A x \in S : P[x] \in Seq(Int)
    BY <1>5
  <2> HIDE DEF P
  <2> QED
    BY ONLY <1>2, <1>6, <2>1, Shared(l) # {}, SmallestIsOne
<1>8. \A x \in S : x = m \/ PathLess(LeafPath(tr, m), LeafPath(tr, x))
  <2> HIDE DEF P
  <2> QED
    BY <1>5, <1>7
<1> HIDE DEF P
<1> QED
  BY <1>7, <1>8 DEF Owner

-----------------------------------------------------------------------------
\* What a leaf becomes.
Renewed(tr, l) ==
    IF Cardinality(Shared(l)) < 2 \/ l \notin Shared(l) THEN l
    ELSE [l EXCEPT !.link = Owner(tr, l) # l,
                   !.bytes = IF Owner(tr, l) = l THEN BytesOf(Shared(l)) ELSE 0]

\* A leaf keeps its place and what it is, and has the bytes of all that share
\* them when it owns them.
LEMMA RenewedIs ==
    ASSUME Walking, NEW tr, TreeStands(world, tr), OnlyPlaces(node, tr), NEW l \in leaves
    PROVE  LET r == Renewed(tr, l) IN
           /\ r = LeafRecord(r) /\ r.dir = l.dir /\ r.name = l.name /\ r.id = l.id /\ r.err = l.err
           /\ r.bytes \in Nat
           /\ IF Cardinality(Shared(l)) < 2 \/ l \notin Shared(l) THEN r = l
              ELSE /\ Owner(tr, l) \in Shared(l)
                   /\ r.bytes = IF Owner(tr, l) = l THEN BytesOf(Shared(l)) ELSE 0
                   /\ BytesOf(Shared(l)) \in Nat /\ l.bytes <= BytesOf(Shared(l))
                   /\ \A o \in Shared(l) : o.bytes <= BytesOf(Shared(l))
<1> DEFINE r == Renewed(tr, l)
           S == Shared(l)
<1>1. l = LeafRecord(l) /\ l.bytes \in Nat /\ IsFiniteSet(leaves) /\ \A o \in leaves : o.bytes \in Nat
  BY DEF Walking, WalkStands, LeavesStand
<1>2. IsFiniteSet(S) /\ S \subseteq leaves
  BY SharedAre
<1>3. CASE Cardinality(S) < 2 \/ l \notin S
  <2>1. r = l
    BY <1>3 DEF Renewed
  <2> HIDE DEF r
  <2> QED
    BY <1>1, <1>3, <2>1 DEF r
<1>4. CASE ~(Cardinality(S) < 2 \/ l \notin S)
  <2>1. Owner(tr, l) \in S
    BY <1>4, OwnerIsOne
  <2>2. r = [l EXCEPT !.link = Owner(tr, l) # l,
                      !.bytes = IF Owner(tr, l) = l THEN BytesOf(S) ELSE 0]
    BY <1>4 DEF Renewed
  <2>3. BytesOf(S) \in Nat /\ \A o \in S : o.bytes <= BytesOf(S)
    <3>1. ASSUME NEW o \in S
          PROVE  BytesOf(S) \in Nat /\ o.bytes <= BytesOf(S)
      <4> DEFINE T == S \ {o}
      <4>1. IsFiniteSet({o}) /\ IsFiniteSet(T) /\ {o} \cap T = {} /\ {o} \cup T = S
        BY <1>2, FS_Singleton, FS_Subset
      <4>2. \A x \in {o} \cup T : x.bytes \in Nat
        BY <1>1, <1>2
      <4>3. /\ BytesOf({o}) \in Nat /\ BytesOf(T) \in Nat
            /\ BytesOf({o} \cup T) = BytesOf({o}) + BytesOf(T)
        <5> HIDE DEF T
        <5> QED
          BY ONLY <4>1, <4>2, BytesUnion
      <4>4. BytesOf({o}) = o.bytes
        <5> DEFINE f == BytesIn({o})
        <5>1. BytesOf({o}) = SumOver(f, {o})
          <6>1. \A x \in {o} : x.bytes \in Int
            BY <4>2
          <6> QED
            BY <4>1, <6>1, BytesSum
        <5>2. f[o] = o.bytes /\ o.bytes \in Int
          BY <4>2 DEF BytesIn
        <5> HIDE DEF f
        <5>3. Pick({o}) = o /\ {o} \ {o} = {} /\ {o} # {}
          BY DEF Pick
        <5>4. SumOver(f, {o}) = f[Pick({o})] + SumOver(f, {o} \ {Pick({o})})
          <6>1. \A x \in {o} : f[x] \in Int
            BY <5>2
          <6> QED
            BY ONLY <4>1, <5>3, <6>1, SumStep
        <5>5. SumOver(f, {}) = 0
          BY FS_EmptySet, SumStep
        <5>6. SumOver(f, {o}) = f[o] + SumOver(f, {})
          BY ONLY <5>3, <5>4
        <5> QED
          BY ONLY <5>1, <5>2, <5>5, <5>6
      <4>5. o.bytes \in Nat
        BY <4>2
      <4> HIDE DEF T, S
      <4>6. BytesOf(S) = BytesOf({o}) + BytesOf(T)
        BY ONLY <4>1, <4>3
      <4> QED
        BY ONLY <4>3, <4>4, <4>5, <4>6
    <3> QED
      BY <2>1, <3>1
  <2>4. r.dir = l.dir /\ r.name = l.name /\ r.id = l.id /\ r.err = l.err /\ r = LeafRecord(r)
        /\ r.bytes = IF Owner(tr, l) = l THEN BytesOf(S) ELSE 0
    <3> HIDE DEF r, S
    <3> QED
      BY ONLY <1>1, <2>2 DEF LeafRecord
  <2>5. r.bytes \in Nat
    BY <2>3, <2>4
  <2> HIDE DEF r
  <2>6. l \in S
    BY <1>4
  <2> QED
    BY <1>4, <2>1, <2>3, <2>4, <2>5, <2>6 DEF r
<1> QED
  BY <1>3, <1>4

\* The leaves are renewed one by one, and no two become one.
LEMMA NormalizedIs ==
    ASSUME Walking, NEW tr, TreeStands(world, tr), OnlyPlaces(node, tr)
    PROVE  /\ Normalized(tr) = {Renewed(tr, l) : l \in leaves}
           /\ \A l, o \in leaves : Renewed(tr, l) = Renewed(tr, o) => l = o
           /\ LeavesStand(world, tr, Normalized(tr))
<1>1. Normalized(tr) = {Renewed(tr, l) : l \in leaves}
  BY DEF Normalized, Renewed
<1>2. LeavesStand(world, node, leaves) /\ IsFiniteSet(leaves)
  BY DEF Walking, WalkStands, LeavesStand
<1>3. \A l \in leaves : LET r == Renewed(tr, l) IN
        /\ r = LeafRecord(r) /\ r.dir = l.dir /\ r.name = l.name /\ r.id = l.id /\ r.err = l.err
        /\ r.bytes \in Nat
  BY RenewedIs
<1>4. \A l \in leaves : l.err => Renewed(tr, l) = l
  <2>1. \A l \in leaves : l.err => l \notin Shared(l)
    BY DEF Shared
  <2> QED
    BY <2>1 DEF Renewed
<1>5. \A l, o \in leaves : Renewed(tr, l) = Renewed(tr, o) => l = o
  BY <1>2, <1>3 DEF LeavesStand
<1>6. IsFiniteSet(Normalized(tr))
  <2>1. [l \in leaves |-> Renewed(tr, l)] \in Surjection(leaves, Normalized(tr))
    BY <1>1 DEF Surjection
  <2> QED
    BY <1>2, <2>1, FS_Surjection
<1>7. ASSUME NEW r \in Normalized(tr)
      PROVE  /\ r = LeafRecord(r) /\ r.dir \in Dirs /\ tr[r.dir].live
             /\ r.name \in Names(world, r.dir) /\ r.id = IdOf(world, r.dir, r.name)
             /\ r.bytes \in Nat /\ r.err \in BOOLEAN
             /\ IF r.err THEN r.bytes = 0 ELSE ~Enters(world, r.dir, r.name)
  <2>1. PICK l \in leaves : r = Renewed(tr, l)
    BY <1>1
  <2>2. /\ l.dir \in Dirs /\ node[l.dir].live
        /\ l.name \in Names(world, l.dir) /\ l.id = IdOf(world, l.dir, l.name)
        /\ l.err \in BOOLEAN
        /\ IF l.err THEN l.bytes = 0 ELSE ~Enters(world, l.dir, l.name)
    BY <1>2 DEF LeavesStand
  <2>3. tr[l.dir].live
    BY <2>2 DEF OnlyPlaces
  <2>4. /\ r = LeafRecord(r) /\ r.dir = l.dir /\ r.name = l.name /\ r.id = l.id /\ r.err = l.err
        /\ r.bytes \in Nat /\ (l.err => r = l)
    BY <1>3, <1>4, <2>1
  <2> QED
    BY ONLY <2>2, <2>3, <2>4
<1>8. ASSUME NEW r \in Normalized(tr), NEW q \in Normalized(tr), r.dir = q.dir, r.name = q.name
      PROVE  r = q
  <2>1. PICK l \in leaves : r = Renewed(tr, l)
    BY <1>1
  <2>2. PICK o \in leaves : q = Renewed(tr, o)
    BY <1>1
  <2>3. l.dir = o.dir /\ l.name = o.name
    BY <1>3, <1>8, <2>1, <2>2
  <2>4. l = o
    BY <1>2, <2>3 DEF LeavesStand
  <2> QED
    BY <2>1, <2>2, <2>4
<1>9. LeavesStand(world, tr, Normalized(tr))
  BY ONLY <1>6, <1>7, <1>8 DEF LeavesStand
<1> QED
  BY <1>1, <1>5, <1>9

\* After the owners are settled the bytes of a file are still counted once.
LEMMA NormalizedOnce ==
    ASSUME Walking, NEW tr, TreeStands(world, tr), OnlyPlaces(node, tr)
    PROVE  CountedOnce(world, Normalized(tr))
<1>1. Normalized(tr) = {Renewed(tr, l) : l \in leaves}
  BY NormalizedIs
<1> SUFFICES ASSUME NEW l \in leaves, NEW o \in leaves,
                    Renewed(tr, l).bytes > 0, Renewed(tr, o).bytes > 0,
                    Renewed(tr, l).id = Renewed(tr, o).id,
                    Multiple(world, Renewed(tr, l).dir, Renewed(tr, l).name)
             PROVE  l = o
  BY <1>1 DEF CountedOnce
<1>2. /\ l.id = o.id /\ Multiple(world, l.dir, l.name)
  BY RenewedIs
<1>3. ~l.err /\ ~o.err
  <2>1. ASSUME NEW x \in leaves, x.err
        PROVE  Renewed(tr, x).bytes = 0
    <3>1. x \notin Shared(x)
      BY <2>1 DEF Shared
    <3>2. Renewed(tr, x) = x
      BY <3>1 DEF Renewed
    <3> QED
      BY <2>1, <3>2 DEF Walking, WalkStands, LeavesStand
  <2> QED
    BY <2>1
<1>4. l \in Shared(l)
  BY <1>2, <1>3, SharedAre
<1>5. /\ o.dir \in Dirs /\ o.name \in Names(world, o.dir) /\ o.id = IdOf(world, o.dir, o.name)
      /\ l.dir \in Dirs /\ l.name \in Names(world, l.dir) /\ l.id = IdOf(world, l.dir, l.name)
  BY DEF Walking, WalkStands, LeavesStand
<1>6. Multiple(world, o.dir, o.name)
  BY <1>2, <1>5, SameMultiple DEF Walking
<1>7. o \in Shared(o) /\ Shared(o) = Shared(l)
  BY <1>2, <1>3, <1>6, SharedAre
<1>8. CASE Cardinality(Shared(l)) < 2
  <2>1. IsFiniteSet(Shared(l))
    BY SharedAre
  <2>2. ASSUME l # o
        PROVE  FALSE
    <3>1. {l, o} \subseteq Shared(l)
      BY <1>4, <1>7
    <3>2. Cardinality({l, o}) = 2
      <4>1. Cardinality({l}) = 1 /\ IsFiniteSet({l})
        BY FS_Singleton
      <4>2. {l, o} = {l} \cup {o} /\ o \notin {l}
        BY <2>2
      <4> QED
        BY <4>1, <4>2, FS_AddElement
    <3>3. Cardinality({l, o}) <= Cardinality(Shared(l)) /\ Cardinality(Shared(l)) \in Nat
      BY <2>1, <3>1, FS_Subset, FS_CardinalityType
    <3> QED
      BY <1>8, <3>2, <3>3
  <2> QED
    BY <2>2
<1>9. CASE ~(Cardinality(Shared(l)) < 2)
  <2>1. Owner(tr, l) = l
    BY <1>4, <1>9, RenewedIs
  <2>2. Owner(tr, o) = o
    BY <1>7, <1>9, RenewedIs
  <2>3. Owner(tr, l) = Owner(tr, o)
    BY <1>7 DEF Owner
  <2> QED
    BY <2>1, <2>2, <2>3
<1> QED
  BY <1>8, <1>9

-----------------------------------------------------------------------------
(***************************************************************************)
(* The totals once owners are settled                                      *)
(***************************************************************************)

\* What weighs something goes to something of its own that weighs no less.
LEMMA SumInjected ==
    ASSUME NEW S, IsFiniteSet(S), NEW T, IsFiniteSet(T), NEW f, NEW g, NEW phi,
           \A x \in S : f[x] \in Nat /\ phi[x] \in T /\ f[x] <= g[phi[x]],
           \A y \in T : g[y] \in Nat,
           \A x, y \in S : f[x] > 0 /\ f[y] > 0 /\ phi[x] = phi[y] => x = y
    PROVE  SumOver(f, S) <= SumOver(g, T)
<1> DEFINE Image(U) == {phi[x] : x \in {y \in U : f[y] > 0}}
           F == {U \in SUBSET S : SumOver(f, U) <= SumOver(g, Image(U))}
<1>1. ASSUME NEW U \in SUBSET S
      PROVE  /\ IsFiniteSet(U) /\ Image(U) \in SUBSET T /\ IsFiniteSet(Image(U))
             /\ SumOver(f, U) \in Int /\ SumOver(g, Image(U)) \in Int
  <2>1. IsFiniteSet(U) /\ Image(U) \in SUBSET T
    BY FS_Subset
  <2>2. IsFiniteSet(Image(U))
    <3> HIDE DEF Image
    <3> QED
      BY ONLY <2>1, IsFiniteSet(T), FS_Subset
  <2>3. (\A x \in U : f[x] \in Int) /\ \A y \in Image(U) : g[y] \in Int
    BY <2>1
  <2> HIDE DEF Image
  <2>4. SumOver(f, U) \in Int
    BY <2>1, <2>3, SumStep
  <2>5. SumOver(g, Image(U)) \in Int
    BY <2>2, <2>3, SumStep
  <2> QED
    BY <2>1, <2>2, <2>4, <2>5
<1>2. {} \in F
  <2>1. Image({}) = {}
    OBVIOUS
  <2>2. SumOver(f, {}) = 0 /\ SumOver(g, {}) = 0
    <3>1. \A h : SumOver(h, {}) = 0
      BY FS_EmptySet, SumStep
    <3> QED
      BY <3>1
  <2> QED
    BY <2>1, <2>2
<1>3. ASSUME NEW U \in SUBSET S, NEW x \in S \ U, U \in F
      PROVE  U \cup {x} \in F
  <2>1. f[x] \in Nat /\ g[phi[x]] \in Nat /\ f[x] <= g[phi[x]]
    OBVIOUS
  <2>2. U \cup {x} \in SUBSET S
    OBVIOUS
  <2>3. SumOver(f, U) <= SumOver(g, Image(U))
    BY <1>3
  <2>4. SumOver(f, U \cup {x}) = SumOver(f, U) + f[x]
    <3>1. \A y \in U : f[y] \in Int
      OBVIOUS
    <3>2. f[x] \in Int /\ x \notin U
      BY <2>1
    <3> QED
      BY ONLY <1>1, <3>1, <3>2, SumAdd
  <2>5. CASE f[x] = 0
    <3>1. Image(U \cup {x}) = Image(U)
      BY <2>5
    <3> HIDE DEF Image
    <3>2. SumOver(f, U \cup {x}) <= SumOver(g, Image(U \cup {x}))
      <4>1. SumOver(f, U) \in Int
        BY <1>1
      <4> QED
        BY ONLY <2>3, <2>4, <2>5, <3>1, <4>1
    <3> QED
      BY <2>2, <3>2
  <2>6. CASE f[x] > 0
    <3>1. Image(U \cup {x}) = Image(U) \cup {phi[x]}
      BY <2>6
    <3>2. phi[x] \notin Image(U)
      BY <2>6
    <3>3. \A y \in Image(U) : g[y] \in Int
      OBVIOUS
    <3> HIDE DEF Image
    <3>4. SumOver(g, Image(U) \cup {phi[x]}) = SumOver(g, Image(U)) + g[phi[x]]
      <4>1. IsFiniteSet(Image(U)) /\ g[phi[x]] \in Int
        BY <1>1, <2>1
      <4> QED
        BY ONLY <3>2, <3>3, <4>1, SumAdd
    <3>5. SumOver(f, U \cup {x}) <= SumOver(g, Image(U \cup {x}))
      <4>1. SumOver(f, U) \in Int /\ SumOver(g, Image(U)) \in Int
        BY <1>1
      <4>2. SumOver(g, Image(U \cup {x})) = SumOver(g, Image(U)) + g[phi[x]]
        BY ONLY <3>1, <3>4
      <4> QED
        BY ONLY <2>1, <2>3, <2>4, <4>1, <4>2
    <3> QED
      BY <2>2, <3>5
  <2> QED
    BY <2>1, <2>5, <2>6
<1>4. SUBSET S \subseteq F
  <2> HIDE DEF F
  <2> QED
    BY ONLY <1>2, <1>3, IsFiniteSet(S), SetInduction
<1>5. SumOver(f, S) <= SumOver(g, Image(S))
  BY <1>4
<1>6. SumOver(g, Image(S)) <= SumOver(g, T)
  <2>1. Image(S) \in SUBSET T
    BY <1>1
  <2> HIDE DEF Image
  <2> QED
    BY ONLY <2>1, IsFiniteSet(T), \A y \in T : g[y] \in Nat, SumPart
<1>7. SumOver(f, S) \in Int /\ SumOver(g, Image(S)) \in Int /\ SumOver(g, T) \in Int
  <2>1. \A y \in T : g[y] \in Int
    OBVIOUS
  <2>2. SumOver(g, T) \in Int
    BY ONLY <2>1, IsFiniteSet(T), SumStep
  <2> QED
    BY <1>1, <2>2
<1> HIDE DEF Image
<1> QED
  BY ONLY <1>5, <1>6, <1>7

\* No bytes are lost when the owners of files are settled.
LEMMA NoBytesLost ==
    ASSUME Walking, NEW tr, TreeStands(world, tr), OnlyPlaces(node, tr)
    PROVE  /\ BytesOf(leaves) \in Nat /\ BytesOf(Normalized(tr)) \in Nat
           /\ BytesOf(leaves) <= BytesOf(Normalized(tr))
<1> DEFINE T == Normalized(tr)
           f == BytesIn(leaves)
           g == BytesIn(T)
           Shares(l) == ~(Cardinality(Shared(l)) < 2 \/ l \notin Shared(l))
           own(l) == IF Shares(l) THEN Owner(tr, l) ELSE l
           phi == [l \in leaves |-> Renewed(tr, own(l))]
<1>1. IsFiniteSet(leaves) /\ \A l \in leaves : l.bytes \in Nat
  BY DEF Walking, WalkStands, LeavesStand
<1>2. /\ T = {Renewed(tr, l) : l \in leaves}
      /\ \A l, o \in leaves : Renewed(tr, l) = Renewed(tr, o) => l = o
      /\ IsFiniteSet(T) /\ \A l \in T : l.bytes \in Nat
  BY NormalizedIs DEF LeavesStand
<1>3. \A l \in leaves : f[l] = l.bytes
  BY DEF BytesIn
<1>4. \A l \in T : g[l] = l.bytes
  BY DEF BytesIn
<1>5. ASSUME NEW l \in leaves
      PROVE  /\ own(l) \in leaves /\ l.bytes <= Renewed(tr, own(l)).bytes
             /\ Shares(l) => own(l) \in Shared(l) /\ Shared(own(l)) = Shared(l) /\ Shares(own(l))
             /\ ~Shares(l) => own(l) = l
  <2>1. CASE Shares(l)
    <3>1. /\ Owner(tr, l) \in Shared(l)
          /\ BytesOf(Shared(l)) \in Nat /\ l.bytes <= BytesOf(Shared(l))
      BY <2>1, RenewedIs
    <3> DEFINE o == Owner(tr, l)
    <3>2. o \in leaves /\ Shared(o) = Shared(l)
      BY <3>1, SharedAre
    <3>3. Shares(o)
      BY <2>1, <3>1, <3>2
    <3>4. Owner(tr, o) = o
      BY <3>2 DEF Owner
    <3>5. Renewed(tr, o).bytes = BytesOf(Shared(l))
      BY <3>2, <3>3, <3>4, RenewedIs
    <3>6. own(l) = o
      BY <2>1
    <3> HIDE DEF own, Shares, o
    <3>7. o \in Shared(l)
      BY <3>1 DEF o
    <3> QED
      BY <2>1, <3>1, <3>2, <3>3, <3>5, <3>6, <3>7
  <2>2. CASE ~Shares(l)
    <3>1. Renewed(tr, l) = l
      BY <2>2 DEF Renewed
    <3>2. own(l) = l
      BY <2>2
    <3> HIDE DEF own, Shares
    <3> QED
      BY <1>1, <2>2, <3>1, <3>2
  <2> QED
    BY <2>1, <2>2
<1> HIDE DEF own, Shares
<1>6. ASSUME NEW l \in leaves, NEW o \in leaves, l.bytes > 0, o.bytes > 0, own(l) = own(o)
      PROVE  l = o
  <2>1. CASE Shares(l)
    <3>1. Shares(o)
      BY <1>5, <1>6, <2>1
    <3>2. Shared(l) = Shared(o)
      BY <1>5, <1>6, <2>1, <3>1
    <3>3. l \in Shared(l) /\ o \in Shared(o)
      BY <2>1, <3>1 DEF Shares
    <3>4. l.id = o.id /\ Multiple(world, l.dir, l.name)
      BY <3>2, <3>3, SharedAre
    <3> QED
      BY <1>6, <3>4, WalkCountsOnce DEF CountedOnce
  <2>2. CASE ~Shares(l)
    <3>1. own(l) = l
      BY <1>5, <2>2
    <3>2. ~Shares(o)
      BY <1>5, <1>6, <2>2, <3>1
    <3> QED
      BY <1>5, <1>6, <3>1, <3>2
  <2> QED
    BY <2>1, <2>2
<1>7. \A l \in leaves : phi[l] = Renewed(tr, own(l))
  OBVIOUS
<1>8. \A l \in leaves : f[l] \in Nat /\ phi[l] \in T /\ f[l] <= g[phi[l]]
  <2>1. \A l \in leaves : phi[l] \in T
    BY <1>2, <1>5, <1>7
  <2> HIDE DEF phi, f, g, T
  <2> QED
    BY <1>1, <1>3, <1>4, <1>5, <1>7, <2>1
<1>9. \A l, o \in leaves : f[l] > 0 /\ f[o] > 0 /\ phi[l] = phi[o] => l = o
  <2> HIDE DEF phi, f, g, T
  <2> QED
    BY <1>2, <1>3, <1>5, <1>6, <1>7
<1>10. \A l \in T : g[l] \in Nat
  <2> HIDE DEF g, T
  <2> QED
    BY <1>2, <1>4
<1> HIDE DEF phi, f, g, T
<1>11. SumOver(f, leaves) <= SumOver(g, T)
  BY ONLY <1>1, <1>2, <1>8, <1>9, <1>10, SumInjected
<1>12. BytesOf(leaves) = SumOver(f, leaves) /\ BytesOf(leaves) \in Nat
  <2>1. \A l \in leaves : l.bytes \in Int
    BY <1>1
  <2>2. leaves \cap {} = {} /\ \A l \in leaves \cup {} : l.bytes \in Nat
    BY <1>1
  <2>3. BytesOf(leaves) \in Nat
    BY ONLY <1>1, <2>2, FS_EmptySet, BytesUnion
  <2> QED
    BY <1>1, <2>1, <2>3, BytesSum DEF f
<1>13. BytesOf(T) = SumOver(g, T) /\ BytesOf(T) \in Nat
  <2>1. \A l \in T : l.bytes \in Int
    BY <1>2
  <2>2. T \cap {} = {} /\ \A l \in T \cup {} : l.bytes \in Nat
    BY <1>2
  <2>3. BytesOf(T) \in Nat
    BY ONLY <1>2, <2>2, FS_EmptySet, BytesUnion
  <2> QED
    BY <1>2, <2>1, <2>3, BytesSum DEF g
<1> QED
  BY <1>11, <1>12, <1>13 DEF T

\* As many leaves are measured in a part of the tree as before.
LEMMA CountKept ==
    ASSUME Walking, NEW tr, TreeStands(world, tr), OnlyPlaces(node, tr), NEW D
    PROVE  /\ Cardinality({l \in Normalized(tr) : l.dir \in D /\ ~l.err})
                = Cardinality({l \in leaves : l.dir \in D /\ ~l.err})
           /\ Cardinality({l \in leaves : l.dir \in D /\ ~l.err}) \in Nat
<1> DEFINE S == {l \in leaves : l.dir \in D /\ ~l.err}
           T == {l \in Normalized(tr) : l.dir \in D /\ ~l.err}
           g == [l \in S |-> Renewed(tr, l)]
<1>1. IsFiniteSet(S)
  BY FS_Subset DEF Walking, WalkStands, LeavesStand
<1>2. /\ Normalized(tr) = {Renewed(tr, l) : l \in leaves}
      /\ \A l, o \in leaves : Renewed(tr, l) = Renewed(tr, o) => l = o
  BY NormalizedIs
<1>3. \A l \in leaves : Renewed(tr, l).dir = l.dir /\ Renewed(tr, l).err = l.err
  BY RenewedIs
<1>4. T = {Renewed(tr, l) : l \in S}
  BY ONLY <1>2, <1>3
<1>5. g \in Surjection(S, T)
  <2> HIDE DEF T, S
  <2> QED
    BY <1>4 DEF Surjection
<1>6. g \in Injection(S, T)
  <2>1. \A l, o \in S : g[l] = g[o] => l = o
    BY <1>2
  <2> HIDE DEF T, S
  <2> QED
    BY <1>4, <2>1 DEF Injection, IsInjective
<1> HIDE DEF g, S, T
<1>7. Cardinality(T) = Cardinality(S) /\ Cardinality(S) \in Nat
  BY <1>1, <1>5, <1>6, FS_Surjection, FS_CardinalityType
<1> QED
  BY <1>7 DEF S, T

\* All of the tree is below the root.
LEMMA RootBelow ==
    ASSUME NEW w \in Worlds, NEW nd, TreeStands(w, nd)
    PROVE  Below(nd, w.root) = {x \in Dirs : nd[x].live}
<1> DEFINE F == {d \in Dirs : nd[d].live => w.root \in Upwards(nd, d)}
<1>1. Parented(nd) /\ Grounded(nd) /\ w.root \in Dirs
  BY ScanAssumption DEF TreeStands, Tree
<1>2. ASSUME NEW d \in Dirs, nd[d].parent \in F \cup {NoDir}
      PROVE  d \in F
  <2> SUFFICES ASSUME nd[d].live PROVE w.root \in Upwards(nd, d)
    OBVIOUS
  <2>1. CASE d = w.root
    BY <2>1 DEF Upwards
  <2>2. CASE d # w.root
    <3>1. nd[d].parent \in Dirs /\ nd[d].parent # NoDir
      BY <2>2, ScanAssumption DEF TreeStands
    <3>2. nd[nd[d].parent].live
      BY <3>1 DEF TreeStands, Tree
    <3>3. w.root \in Upwards(nd, nd[d].parent)
      BY <1>2, <3>1, <3>2
    <3>4. Above(nd, d) = {nd[d].parent} \cup Above(nd, nd[d].parent)
      BY <1>1, <3>1, AboveIs
    <3> QED
      BY <3>3, <3>4 DEF Upwards
  <2> QED
    BY <2>1, <2>2
<1>3. Dirs \subseteq F
  <2> HIDE DEF F
  <2> QED
    BY <1>1, <1>2, Descent
<1> QED
  BY <1>3 DEF Below

\* What the root measures is the whole tree.
LEMMA RootTotals ==
    ASSUME NEW w \in Worlds, NEW nd, TreeStands(w, nd), NEW ls, LeavesStand(w, nd, ls),
           TotalsStand(nd, ls)
    PROVE  /\ nd[w.root].bytes = BytesOf(ls) + SumOver(SelvesIn(nd), {x \in Dirs : nd[x].live})
           /\ nd[w.root].files = Cardinality({l \in ls : ~l.err})
           /\ SumOver(SelvesIn(nd), {x \in Dirs : nd[x].live}) \in Nat
<1>1. Below(nd, w.root) = {x \in Dirs : nd[x].live} /\ w.root \in Dirs /\ nd[w.root].live
  BY RootBelow, ScanAssumption DEF TreeStands
<1>2. LeavesBelow(nd, ls, w.root) = ls
  BY <1>1 DEF LeavesBelow, LeavesStand
<1>3. /\ nd[w.root].bytes = BytesOf(LeavesBelow(nd, ls, w.root))
                            + SumOver(SelvesIn(nd), Below(nd, w.root))
      /\ nd[w.root].files = Cardinality({l \in LeavesBelow(nd, ls, w.root) : ~l.err})
  BY <1>1 DEF TotalsStand
<1>4. SumOver(SelvesIn(nd), Below(nd, w.root)) \in Nat
  <2>1. \A x \in Dirs : nd[x].self \in Nat
    BY DEF TreeStands, Tree
  <2>2. IsFiniteSet(ls) /\ \A l \in ls : l.bytes \in Nat
    BY DEF LeavesStand
  <2> QED
    BY <1>1, <2>1, <2>2, MeasuredIs
<1> QED
  BY ONLY <1>1, <1>2, <1>3, <1>4

\* Where no alias is followed, every directory gets what its names gained.
LEMMA MovedStands ==
    ASSUME Walking, NEW ls, ls = Normalized(node), NEW to, to = Moved(node, ls)
    PROVE  /\ TreeStands(world, to) /\ TotalsStand(to, ls) /\ LeavesStand(world, to, ls)
           /\ \A d \in Dirs : to[d].live = node[d].live /\ to[d].self = node[d].self
<1> DEFINE old(d) == LeavesBelow(node, leaves, d)
           new(d) == LeavesBelow(node, ls, d)
<1>1. TreeStands(world, node) /\ LeavesStand(world, node, leaves) /\ TotalsStand(node, leaves)
      /\ world \in Worlds
  BY DEF Walking, WalkStands
<1>2. OnlyPlaces(node, node)
  BY <1>1 DEF TreeStands, OnlyPlaces
<1>3. /\ LeavesStand(world, node, ls) /\ ls = {Renewed(node, l) : l \in leaves}
      /\ \A l \in leaves : Renewed(node, l).dir = l.dir
  BY <1>1, <1>2, NormalizedIs, RenewedIs
<1>4. ASSUME NEW d \in Dirs
      PROVE  to[d] = [node[d] EXCEPT !.bytes = node[d].bytes + BytesOf(new(d)) - BytesOf(old(d))]
  <2> DEFINE here == {x.dir : x \in ls} \cap Below(node, d)
  <2>1. {l \in ls : l.dir \in here} = new(d)
    BY DEF LeavesBelow
  <2>2. {l \in leaves : l.dir \in here} = old(d)
    <3>1. \A l \in leaves : l.dir \in {x.dir : x \in ls}
      BY <1>3
    <3> QED
      BY <3>1 DEF LeavesBelow
  <2>3. to[d] = [node[d] EXCEPT !.bytes = node[d].bytes + BytesOf({l \in ls : l.dir \in here})
                                              - BytesOf({l \in leaves : l.dir \in here})]
    BY DEF Moved
  <2> HIDE DEF here, new, old
  <2> QED
    BY <2>1, <2>2, <2>3
<1>5. /\ to = [d \in Dirs |-> to[d]]
      /\ \A d \in Dirs : /\ to[d] = NodeRecord(to[d]) /\ to[d].live = node[d].live
                         /\ to[d].parent = node[d].parent /\ to[d].name = node[d].name
                         /\ to[d].self = node[d].self /\ to[d].files = node[d].files
                         /\ to[d].dirs = node[d].dirs
                         /\ to[d].bytes = node[d].bytes + BytesOf(new(d)) - BytesOf(old(d))
                         /\ (to[d].bytes = node[d].bytes => to[d] = node[d])
  <2>1. to = [d \in Dirs |-> to[d]]
    BY DEF Moved
  <2>2. ASSUME NEW d \in Dirs
        PROVE  /\ to[d] = NodeRecord(to[d]) /\ to[d].live = node[d].live
               /\ to[d].parent = node[d].parent /\ to[d].name = node[d].name
               /\ to[d].self = node[d].self /\ to[d].files = node[d].files
               /\ to[d].dirs = node[d].dirs
               /\ to[d].bytes = node[d].bytes + BytesOf(new(d)) - BytesOf(old(d))
               /\ (to[d].bytes = node[d].bytes => to[d] = node[d])
    <3>1. node[d] = NodeRecord(node[d])
      BY <1>1 DEF TreeStands
    <3> HIDE DEF new, old
    <3> DEFINE b == node[d].bytes + BytesOf(new(d)) - BytesOf(old(d))
    <3>2. to[d] = [node[d] EXCEPT !.bytes = b]
      BY <1>4
    <3> HIDE DEF b
    <3>3. /\ to[d] = NodeRecord(to[d]) /\ to[d].live = node[d].live
          /\ to[d].parent = node[d].parent /\ to[d].name = node[d].name
          /\ to[d].self = node[d].self /\ to[d].files = node[d].files
          /\ to[d].dirs = node[d].dirs /\ to[d].err = node[d].err
          /\ to[d].bytes = b
      BY ONLY <3>1, <3>2 DEF NodeRecord
    <3> QED
      BY <3>1, <3>3 DEF NodeRecord, b
  <2> QED
    BY <2>1, <2>2
<1>6. /\ Parented(node) /\ Grounded(node)
      /\ \A d \in Dirs : node[d].self \in Nat
  BY <1>1 DEF TreeStands, Tree
<1>7. /\ Parented(to) /\ Grounded(to) /\ \A d \in Dirs : Below(to, d) = Below(node, d)
  <2>1. \A d \in Dirs : to[d].parent = node[d].parent /\ to[d].live = node[d].live
    BY <1>5
  <2> QED
    BY ONLY <1>6, <2>1, SamePlaces
<1>8. \A d \in Dirs : LeavesBelow(to, ls, d) = new(d)
  BY <1>7 DEF LeavesBelow
<1>9. SelvesIn(to) = SelvesIn(node)
  BY <1>5 DEF SelvesIn
<1>10. ASSUME NEW d \in Dirs
       PROVE  /\ BytesOf(new(d)) \in Nat /\ BytesOf(old(d)) \in Nat
              /\ SumOver(SelvesIn(node), Below(node, d)) \in Nat
  <2>1. IsFiniteSet(leaves) /\ (\A l \in leaves : l.bytes \in Nat)
        /\ IsFiniteSet(ls) /\ (\A l \in ls : l.bytes \in Nat)
    BY <1>1, <1>3 DEF LeavesStand
  <2> QED
    BY ONLY <1>6, <2>1, d \in Dirs, MeasuredIs
<1>11. ASSUME NEW d \in Dirs
       PROVE  Cardinality({l \in new(d) : ~l.err}) = Cardinality({l \in old(d) : ~l.err})
  <2> DEFINE D == Below(node, d)
  <2>1. {l \in new(d) : ~l.err} = {l \in ls : l.dir \in D /\ ~l.err}
        /\ {l \in old(d) : ~l.err} = {l \in leaves : l.dir \in D /\ ~l.err}
    BY DEF LeavesBelow
  <2>2. Cardinality({l \in ls : l.dir \in D /\ ~l.err})
            = Cardinality({l \in leaves : l.dir \in D /\ ~l.err})
    <3> HIDE DEF D
    <3> QED
      BY <1>1, <1>2, CountKept
  <2> HIDE DEF new, old, D
  <2> QED
    BY ONLY <2>1, <2>2
<1>12. ASSUME NEW d \in Dirs, ~node[d].live
       PROVE  to[d] = NoNode
  <2>1. Below(node, d) = {}
    <3>1. \A x \in Dirs : node[x].live => d \notin Upwards(node, x)
      BY <1>1, <1>12, AboveLive DEF TreeStands
    <3> QED
      BY <3>1 DEF Below
  <2>2. new(d) = {} /\ old(d) = {}
    BY <2>1 DEF LeavesBelow
  <2>3. node[d] = NoNode
    BY <1>1, <1>12 DEF TreeStands
  <2>4. node[d].bytes = 0 /\ BytesOf({}) \in Nat
    BY <1>10, <2>2, <2>3 DEF NoNode
  <2>a. to[d].bytes = node[d].bytes + BytesOf(new(d)) - BytesOf(old(d))
    BY <1>5
  <2>5. to[d].bytes = node[d].bytes
    <3> HIDE DEF new, old
    <3> QED
      BY ONLY <2>a, <2>2, <2>4
  <2> QED
    BY <1>5, <2>3, <2>5
<1> HIDE DEF new, old
<1>13. TreeStands(world, to)
  <2>1. \A d \in Dirs : /\ to[d].self \in Nat
                        /\ IF to[d].live THEN to[d].parent # NoDir => to[to[d].parent].live
                           ELSE to[d].parent = NoDir
    <3>1. \A d \in Dirs : IF node[d].live THEN node[d].parent # NoDir => node[node[d].parent].live
                          ELSE node[d].parent = NoDir
      BY <1>1 DEF TreeStands, Tree
    <3>2. \A d \in Dirs : node[d].parent \in Dirs \cup {NoDir}
      BY <1>6 DEF Parented
    <3> QED
      BY ONLY <1>5, <1>6, <3>1, <3>2
  <2>2. Tree(to)
    BY <1>7, <2>1 DEF Tree
  <2>3. \A d \in Dirs : /\ to[d] = NodeRecord(to[d]) /\ to[d].live \in BOOLEAN
                        /\ ~to[d].live => to[d] = NoNode
    BY <1>1, <1>5, <1>12 DEF TreeStands
  <2>4. world.root \in Dirs
    BY <1>1, ScanAssumption
  <2>5. /\ to[world.root].live /\ to[world.root].parent = NoDir
        /\ \A d \in Dirs : to[d].live /\ d # world.root =>
          /\ to[d].parent \in Dirs /\ to[d].name \in Names(world, to[d].parent)
          /\ Goal(world, to[d].parent, to[d].name) = d
          /\ Enters(world, to[d].parent, to[d].name)
    BY <1>1, <1>5, <2>4 DEF TreeStands
  <2> QED
    BY <1>5, <2>2, <2>3, <2>5 DEF TreeStands
<1>14. TotalsStand(to, ls)
  <2> SUFFICES ASSUME NEW d \in Dirs, to[d].live
               PROVE  /\ to[d].bytes = BytesOf(new(d)) + SumOver(SelvesIn(node), Below(node, d))
                      /\ to[d].files = Cardinality({l \in new(d) : ~l.err})
                      /\ to[d].dirs = Cardinality(Below(node, d)) - 1
    BY <1>7, <1>8, <1>9 DEF TotalsStand
  <2>1. /\ node[d].bytes = BytesOf(old(d)) + SumOver(SelvesIn(node), Below(node, d))
        /\ node[d].files = Cardinality({l \in old(d) : ~l.err})
        /\ node[d].dirs = Cardinality(Below(node, d)) - 1
    BY <1>1, <1>5 DEF TotalsStand, old
  <2>2. to[d].bytes = BytesOf(new(d)) + SumOver(SelvesIn(node), Below(node, d))
    BY ONLY <1>5, <1>10, <2>1, d \in Dirs
  <2> QED
    BY <1>5, <1>11, <2>1, <2>2
<1>15. LeavesStand(world, to, ls)
  BY <1>3, <1>5 DEF LeavesStand
<1> QED
  BY <1>5, <1>13, <1>14, <1>15

\* Measured anew, every directory has what is below it.
LEMMA RecomputedStands ==
    ASSUME NEW w \in Worlds, NEW tr, TreeStands(w, tr), NEW ls, LeavesStand(w, tr, ls),
           NEW to, to = Recomputed(tr, ls)
    PROVE  /\ TreeStands(w, to) /\ TotalsStand(to, ls) /\ LeavesStand(w, to, ls)
           /\ \A d \in Dirs : to[d].live = tr[d].live /\ to[d].self = tr[d].self
<1> DEFINE m(d) == Measured(tr, ls, d)
<1>1. \A d \in Dirs : tr[d] = NodeRecord(tr[d])
  BY DEF TreeStands
<1>2. /\ to = [d \in Dirs |-> to[d]]
      /\ \A d \in Dirs : to[d] = IF ~tr[d].live THEN tr[d]
                                 ELSE [tr[d] EXCEPT !.bytes = m(d).bytes, !.files = m(d).files,
                                                    !.dirs = m(d).dirs]
  BY DEF Recomputed
<1> HIDE DEF m
<1>3. ASSUME NEW d \in Dirs
      PROVE  /\ to[d] = NodeRecord(to[d]) /\ to[d].live = tr[d].live
             /\ to[d].parent = tr[d].parent /\ to[d].name = tr[d].name
             /\ to[d].self = tr[d].self
             /\ tr[d].live => /\ to[d].bytes = m(d).bytes /\ to[d].files = m(d).files
                              /\ to[d].dirs = m(d).dirs
             /\ ~tr[d].live => to[d] = tr[d]
  <2>1. CASE tr[d].live
    <3>1. to[d] = [tr[d] EXCEPT !.bytes = m(d).bytes, !.files = m(d).files, !.dirs = m(d).dirs]
      BY <1>2, <2>1
    <3>2. tr[d] = NodeRecord(tr[d])
      BY <1>1
    <3> QED
      BY ONLY <2>1, <3>1, <3>2 DEF NodeRecord
  <2>2. CASE ~tr[d].live
    BY <1>1, <1>2, <2>2
  <2> QED
    BY <2>1, <2>2
<1>4. Parented(tr) /\ Grounded(tr) /\ \A d \in Dirs : tr[d].self \in Nat
  BY DEF TreeStands, Tree
<1>5. /\ Parented(to) /\ Grounded(to) /\ \A d \in Dirs : Below(to, d) = Below(tr, d)
  <2>1. \A d \in Dirs : to[d].parent = tr[d].parent /\ to[d].live = tr[d].live
    BY <1>3
  <2> QED
    BY ONLY <1>4, <2>1, SamePlaces
<1>6. TreeStands(w, to)
  <2>1. \A d \in Dirs : /\ to[d].self \in Nat
                        /\ IF to[d].live THEN to[d].parent # NoDir => to[to[d].parent].live
                           ELSE to[d].parent = NoDir
    <3>1. \A d \in Dirs : IF tr[d].live THEN tr[d].parent # NoDir => tr[tr[d].parent].live
                          ELSE tr[d].parent = NoDir
      BY DEF TreeStands, Tree
    <3>2. \A d \in Dirs : tr[d].parent \in Dirs \cup {NoDir}
      BY <1>4 DEF Parented
    <3> QED
      BY ONLY <1>3, <1>4, <3>1, <3>2
  <2>2. Tree(to)
    BY <1>5, <2>1 DEF Tree
  <2>3. \A d \in Dirs : /\ to[d] = NodeRecord(to[d]) /\ to[d].live \in BOOLEAN
                        /\ ~to[d].live => to[d] = NoNode
    BY <1>3 DEF TreeStands
  <2>4. w.root \in Dirs
    BY ScanAssumption
  <2>5. /\ to[w.root].live /\ to[w.root].parent = NoDir
        /\ \A d \in Dirs : to[d].live /\ d # w.root =>
          /\ to[d].parent \in Dirs /\ to[d].name \in Names(w, to[d].parent)
          /\ Goal(w, to[d].parent, to[d].name) = d /\ Enters(w, to[d].parent, to[d].name)
    BY <1>3, <2>4 DEF TreeStands
  <2> QED
    BY <1>2, <2>2, <2>3, <2>5 DEF TreeStands
<1>7. TotalsStand(to, ls)
  <2> SUFFICES ASSUME NEW d \in Dirs, to[d].live
               PROVE  /\ to[d].bytes = BytesOf(LeavesBelow(to, ls, d))
                                        + SumOver(SelvesIn(to), Below(to, d))
                      /\ to[d].files = Cardinality({l \in LeavesBelow(to, ls, d) : ~l.err})
                      /\ to[d].dirs = Cardinality(Below(to, d)) - 1
    BY DEF TotalsStand
  <2>1. IsFiniteSet(ls) /\ \A l \in ls : l.bytes \in Nat
    BY DEF LeavesStand
  <2>2. /\ m(d).bytes = BytesOf(LeavesBelow(tr, ls, d)) + SumOver(SelvesIn(tr), Below(tr, d))
        /\ m(d).files = Cardinality({l \in LeavesBelow(tr, ls, d) : ~l.err})
        /\ m(d).dirs = Cardinality(Below(tr, d)) - 1
    BY <1>4, <2>1, MeasuredIs DEF m
  <2>3. LeavesBelow(to, ls, d) = LeavesBelow(tr, ls, d) /\ Below(to, d) = Below(tr, d)
    BY <1>5 DEF LeavesBelow
  <2>4. SelvesIn(to) = SelvesIn(tr)
    BY <1>3 DEF SelvesIn
  <2> QED
    BY <1>3, <2>2, <2>3, <2>4
<1>8. LeavesStand(w, to, ls)
  BY <1>3 DEF LeavesStand
<1> QED
  BY <1>3, <1>6, <1>7, <1>8

\* A directory marked as failed stays where it is.
LEMMA MarkStands ==
    ASSUME NEW w \in Worlds, NEW nd, NEW tr, TreeStands(w, tr), OnlyPlaces(nd, tr),
           NEW d \in Dirs, tr[d].live, NEW to, to = MarkFailed(tr, d)
    PROVE  TreeStands(w, to) /\ OnlyPlaces(nd, to)
<1>1. /\ tr = [x \in Dirs |-> tr[x]] /\ to = [tr EXCEPT ![d].err = TRUE]
      /\ \A x \in Dirs : tr[x] = NodeRecord(tr[x])
  BY DEF TreeStands, MarkFailed
<1>2. to = [x \in Dirs |-> to[x]] /\ \A x \in Dirs \ {d} : to[x] = tr[x]
  BY ONLY <1>1
<1>3. to[d] = [tr[d] EXCEPT !.err = TRUE]
  BY ONLY <1>1, d \in Dirs
<1>4. /\ to[d] = NodeRecord(to[d]) /\ to[d].live = tr[d].live /\ to[d].parent = tr[d].parent
      /\ to[d].name = tr[d].name /\ to[d].self = tr[d].self /\ to[d].bytes = tr[d].bytes
      /\ to[d].files = tr[d].files /\ to[d].dirs = tr[d].dirs
  <2>1. tr[d] = NodeRecord(tr[d])
    BY <1>1
  <2> QED
    BY ONLY <1>3, <2>1 DEF NodeRecord
<1>5. \A x \in Dirs : /\ to[x] = NodeRecord(to[x]) /\ to[x].live = tr[x].live
                      /\ to[x].parent = tr[x].parent /\ to[x].name = tr[x].name
                      /\ to[x].self = tr[x].self /\ to[x].bytes = tr[x].bytes
                      /\ to[x].files = tr[x].files /\ to[x].dirs = tr[x].dirs
                      /\ ~tr[x].live => to[x] = tr[x]
  <2>1. tr[d].live
    OBVIOUS
  <2> QED
    BY ONLY <1>1, <1>2, <1>4, <2>1
<1>6. OnlyPlaces(nd, to)
  BY <1>2, <1>5 DEF OnlyPlaces
<1>7. TreeStands(w, to)
  <2>1. Parented(tr) /\ Grounded(tr)
    BY DEF TreeStands, Tree
  <2>2. \A x \in Dirs : to[x].parent = tr[x].parent /\ to[x].live = tr[x].live
    BY <1>5
  <2>3. Parented(to) /\ Grounded(to)
    BY ONLY <2>1, <2>2, SamePlaces
  <2>4. \A x \in Dirs : /\ to[x].self \in Nat
                        /\ IF to[x].live THEN to[x].parent # NoDir => to[to[x].parent].live
                           ELSE to[x].parent = NoDir
    <3>1. \A x \in Dirs : /\ tr[x].self \in Nat
                          /\ IF tr[x].live THEN tr[x].parent # NoDir => tr[tr[x].parent].live
                             ELSE tr[x].parent = NoDir
      BY DEF TreeStands, Tree
    <3>2. \A x \in Dirs : tr[x].parent \in Dirs \cup {NoDir}
      BY <2>1 DEF Parented
    <3> QED
      BY ONLY <1>5, <3>1, <3>2
  <2>5. Tree(to)
    BY <2>3, <2>4 DEF Tree
  <2>6. \A x \in Dirs : /\ to[x] = NodeRecord(to[x]) /\ to[x].live \in BOOLEAN
                        /\ ~to[x].live => to[x] = NoNode
    BY <1>5 DEF TreeStands
  <2>7. w.root \in Dirs
    BY ScanAssumption
  <2>8. /\ to[w.root].live /\ to[w.root].parent = NoDir
        /\ \A x \in Dirs : to[x].live /\ x # w.root =>
          /\ to[x].parent \in Dirs /\ to[x].name \in Names(w, to[x].parent)
          /\ Goal(w, to[x].parent, to[x].name) = x /\ Enters(w, to[x].parent, to[x].name)
    BY <1>5, <2>7 DEF TreeStands
  <2> QED
    BY <1>2, <2>5, <2>6, <2>8 DEF TreeStands
<1> QED
  BY <1>6, <1>7

-----------------------------------------------------------------------------
(***************************************************************************)
(* What stands once the root is in the tree, and after owners are settled  *)
(***************************************************************************)

\* The tree, its leaves, their bytes and the totals agree, and no more files
\* are in the tree than were counted.
Agree(w, nd, ls, t) ==
    /\ TreeStands(w, nd) /\ LeavesStand(w, nd, ls) /\ TotalsStand(nd, ls)
    /\ CountedOnce(w, ls) /\ TallyStands(t) /\ nd[w.root].files <= t.files

\* So they do during the walk.
LEMMA WalkAgrees ==
    ASSUME Walking
    PROVE  Agree(world, node, leaves, tally)
<1>1. /\ TreeStands(world, node) /\ LeavesStand(world, node, leaves) /\ TotalsStand(node, leaves)
      /\ MetCounted(frame, leaves, tally) /\ TallyStands(tally) /\ world \in Worlds
  BY DEF Walking, WalkStands
<1>2. node[world.root].files = Cardinality({l \in leaves : ~l.err})
  BY <1>1, RootTotals
<1> DEFINE S == {l \in leaves : ~l.err}
           M == Met(frame, leaves)
           g == [l \in S |-> <<l.dir, l.name>>]
           T == {<<l.dir, l.name>> : l \in S}
<1>3. T \subseteq M /\ IsFiniteSet(M) /\ Cardinality(M) <= tally.files
  BY <1>1 DEF MetCounted, Met
<1>4. IsFiniteSet(S)
  BY <1>1, FS_Subset DEF LeavesStand
<1>5. g \in Surjection(S, T)
  BY DEF Surjection
<1>6. g \in Injection(S, T)
  <2>1. \A l, o \in S : g[l] = g[o] => l = o
    BY <1>1 DEF LeavesStand
  <2> QED
    BY <2>1 DEF Injection, IsInjective
<1> HIDE DEF S, M, g, T
<1>7. Cardinality(T) = Cardinality(S)
  BY <1>4, <1>5, <1>6, FS_Surjection
<1>8. Cardinality(T) <= Cardinality(M)
  BY <1>3, FS_Subset
<1>9. Cardinality(S) \in Nat /\ Cardinality(M) \in Nat /\ tally.files \in Nat
  BY <1>1, <1>3, <1>4, FS_CardinalityType DEF TallyStands
<1>10. node[world.root].files <= tally.files
  BY <1>2, <1>3, <1>7, <1>8, <1>9 DEF S
<1> QED
  BY <1>1, <1>10, WalkCountsOnce DEF Agree

\* Where every total agrees the tree is what the property says.
LEMMA AgreeTotals ==
    ASSUME world \in Worlds, Agree(world, node, leaves, tally)
    PROVE  /\ TotalsAreRight(leaves)
           /\ \A l, o \in leaves :
                 l.bytes > 0 /\ o.bytes > 0 /\ l.id = o.id /\ Deduplicated(l.dir, l.name)
                    => l = o
<1>1. TreeStands(world, node) /\ LeavesStand(world, node, leaves) /\ TotalsStand(node, leaves)
      /\ CountedOnce(world, leaves)
  BY DEF Agree
<1>2. ASSUME NEW d \in Live
      PROVE  [bytes |-> node[d].bytes, files |-> node[d].files, dirs |-> node[d].dirs]
                = Measured(node, leaves, d)
  <2> DEFINE m == Measured(node, leaves, d)
  <2>1. (\A x \in Dirs : node[x].self \in Nat) /\ d \in Dirs /\ node[d].live
    BY <1>1 DEF TreeStands, Tree, Live
  <2>2. IsFiniteSet(leaves) /\ \A l \in leaves : l.bytes \in Nat
    BY <1>1 DEF LeavesStand
  <2>3. /\ m = [bytes |-> m.bytes, files |-> m.files, dirs |-> m.dirs]
        /\ m.bytes = BytesOf(LeavesBelow(node, leaves, d))
                        + SumOver(SelvesIn(node), Below(node, d))
        /\ m.files = Cardinality({l \in LeavesBelow(node, leaves, d) : ~l.err})
        /\ m.dirs = Cardinality(Below(node, d)) - 1
    BY <2>1, <2>2, MeasuredIs
  <2>4. /\ node[d].bytes = BytesOf(LeavesBelow(node, leaves, d))
                            + SumOver(SelvesIn(node), Below(node, d))
        /\ node[d].files = Cardinality({l \in LeavesBelow(node, leaves, d) : ~l.err})
        /\ node[d].dirs = Cardinality(Below(node, d)) - 1
    BY <1>1, <2>1 DEF TotalsStand
  <2> HIDE DEF m
  <2>5. node[d].bytes = m.bytes /\ node[d].files = m.files /\ node[d].dirs = m.dirs
    BY <2>3, <2>4
  <2>6. [bytes |-> node[d].bytes, files |-> node[d].files, dirs |-> node[d].dirs] = m
    BY <2>3, <2>5
  <2> QED
    BY <2>6 DEF m
<1>3. TotalsAreRight(leaves)
  BY <1>2 DEF TotalsAreRight
<1>4. \A l \in leaves : Deduplicated(l.dir, l.name) => Multiple(world, l.dir, l.name)
  BY DEF Deduplicated, Multiple, Follow, IsAlias, Target, Goal
<1> QED
  BY <1>1, <1>3, <1>4 DEF CountedOnce

\* The change that settles the owners keeps all this, and takes nothing back.
LEMMA SettleAgrees ==
    ASSUME Walking, Settle
    PROVE  /\ Agree(world, node', leaves', tally')
           /\ NoneLost(world, node, tally, node', tally')
           /\ out' = out \/ (out = <<>> /\ out' = <<Sight(world, node', tally', FALSE)>>)
           /\ settled' \in {"ok", "failed"}
<1>0. /\ TreeStands(world, node) /\ LeavesStand(world, node, leaves) /\ TotalsStand(node, leaves)
      /\ TallyStands(tally) /\ world \in Worlds /\ EdgesStand(world, node, edges)
      /\ world.root \in Dirs /\ OnlyPlaces(node, node)
  BY ScanAssumption DEF Walking, WalkStands, TreeStands, OnlyPlaces
<1>1. PICK canon \in {IF Follow THEN Canonical ELSE [tree |-> node, failed |-> FALSE]} :
       \E nd \in {IF canon.failed THEN MarkFailed(canon.tree, Root) ELSE canon.tree} :
          /\ leaves' = Normalized(nd)
          /\ settled' = IF canon.failed THEN "failed" ELSE "ok"
          /\ Record(IF Follow THEN Recomputed(nd, leaves') ELSE Moved(nd, leaves'),
                    IF canon.failed THEN OneMoreError ELSE tally)
  BY DEF Settle
<1>2. PICK nd \in {IF canon.failed THEN MarkFailed(canon.tree, Root) ELSE canon.tree} :
          /\ leaves' = Normalized(nd)
          /\ settled' = IF canon.failed THEN "failed" ELSE "ok"
          /\ Record(IF Follow THEN Recomputed(nd, leaves') ELSE Moved(nd, leaves'),
                    IF canon.failed THEN OneMoreError ELSE tally)
  BY <1>1
<1>3. TreeStands(world, canon.tree) /\ OnlyPlaces(node, canon.tree)
  <2>1. CASE Follow
    BY <1>0, <1>1, <2>1, CanonicalStands
  <2>2. CASE ~Follow
    <3>1. canon.tree = node
      BY <1>1, <2>2
    <3> QED
      BY <1>0, <3>1
  <2> QED
    BY <2>1, <2>2
<1>4. TreeStands(world, nd) /\ OnlyPlaces(node, nd)
  <2>1. CASE canon.failed
    <3>1. nd = MarkFailed(canon.tree, world.root) /\ canon.tree[world.root].live
      BY <1>2, <1>3, <2>1 DEF Root, TreeStands
    <3> QED
      BY <1>0, <1>3, <3>1, MarkStands
  <2>2. CASE ~canon.failed
    BY <1>2, <1>3, <2>2
  <2> QED
    BY <2>1, <2>2
<1>5. ~Follow => nd = node
  BY <1>1, <1>2
<1> DEFINE now == IF Follow THEN Recomputed(nd, leaves') ELSE Moved(nd, leaves')
           s == IF canon.failed THEN OneMoreError ELSE tally
<1>6. /\ node' = now /\ tally' = s
      /\ out' = out \/ (out = <<>> /\ out' = <<Sight(world, node', tally', FALSE)>>)
  <2>1. Record(now, s)
    BY <1>2
  <2> HIDE DEF now, s
  <2> QED
    BY ONLY <2>1, RecordIs
<1>7. TallyStands(tally') /\ tally'.files >= tally.files /\ tally'.dirs >= tally.dirs
      /\ tally'.errors >= tally.errors
  BY <1>0, <1>6, ErrorsAdd
<1>8. LeavesStand(world, nd, leaves') /\ CountedOnce(world, leaves')
  BY <1>2, <1>4, NormalizedIs, NormalizedOnce
<1>9. /\ TreeStands(world, node') /\ TotalsStand(node', leaves') /\ LeavesStand(world, node', leaves')
      /\ \A d \in Dirs : node'[d].live = node[d].live /\ node'[d].self = node[d].self
  <2>1. PICK to : to = node'
    OBVIOUS
  <2>2. PICK ls : ls = leaves'
    OBVIOUS
  <2>3. CASE Follow
    <3>1. to = Recomputed(nd, ls)
      BY <1>6, <2>1, <2>2, <2>3
    <3>2. LeavesStand(world, nd, ls)
      BY <1>8, <2>2
    <3>3. /\ TreeStands(world, to) /\ TotalsStand(to, ls) /\ LeavesStand(world, to, ls)
          /\ \A d \in Dirs : to[d].live = nd[d].live /\ to[d].self = nd[d].self
      BY ONLY <1>0, <1>4, <3>1, <3>2, ScanAssumption, RecomputedStands
    <3>4. \A d \in Dirs : nd[d].live = node[d].live /\ nd[d].self = node[d].self
      BY <1>4 DEF OnlyPlaces
    <3> QED
      BY <2>1, <2>2, <3>3, <3>4
  <2>4. CASE ~Follow
    <3>1. to = Moved(node, ls) /\ ls = Normalized(node)
      BY <1>2, <1>5, <1>6, <2>1, <2>2, <2>4
    <3>2. /\ TreeStands(world, to) /\ TotalsStand(to, ls) /\ LeavesStand(world, to, ls)
          /\ \A d \in Dirs : to[d].live = node[d].live /\ to[d].self = node[d].self
      BY <3>1, MovedStands
    <3> QED
      BY <2>1, <2>2, <3>2
  <2> QED
    BY <2>3, <2>4
<1>10. /\ node[world.root].bytes = BytesOf(leaves) + SumOver(SelvesIn(node), {x \in Dirs : node[x].live})
       /\ node[world.root].files = Cardinality({l \in leaves : ~l.err})
       /\ SumOver(SelvesIn(node), {x \in Dirs : node[x].live}) \in Nat
  BY <1>0, RootTotals
<1>11. /\ node'[world.root].bytes = BytesOf(leaves') + SumOver(SelvesIn(node'), {x \in Dirs : node'[x].live})
       /\ node'[world.root].files = Cardinality({l \in leaves' : ~l.err})
  BY <1>0, <1>9, RootTotals
<1>12. SelvesIn(node') = SelvesIn(node)
       /\ {x \in Dirs : node'[x].live} = {x \in Dirs : node[x].live}
  BY <1>9 DEF SelvesIn
<1>13. /\ BytesOf(leaves) \in Nat /\ BytesOf(leaves') \in Nat
       /\ BytesOf(leaves) <= BytesOf(leaves')
  BY <1>2, <1>4, NoBytesLost
<1>14. Cardinality({l \in leaves' : ~l.err}) = Cardinality({l \in leaves : ~l.err})
  <2>1. /\ Cardinality({l \in Normalized(nd) : l.dir \in Dirs /\ ~l.err})
                = Cardinality({l \in leaves : l.dir \in Dirs /\ ~l.err})
    BY <1>4, CountKept
  <2>2. {l \in leaves : l.dir \in Dirs /\ ~l.err} = {l \in leaves : ~l.err}
    BY <1>0 DEF LeavesStand
  <2>3. {l \in leaves' : l.dir \in Dirs /\ ~l.err} = {l \in leaves' : ~l.err}
    BY <1>8 DEF LeavesStand
  <2> QED
    BY <1>2, <2>1, <2>2, <2>3
<1>15. node'[world.root].bytes >= node[world.root].bytes
       /\ node'[world.root].files = node[world.root].files
  <2>1. PICK own : own = SumOver(SelvesIn(node), {x \in Dirs : node[x].live})
    OBVIOUS
  <2>2. node[world.root].bytes = BytesOf(leaves) + own /\ own \in Nat
    BY ONLY <1>10, <2>1
  <2>3. SumOver(SelvesIn(node'), {x \in Dirs : node'[x].live}) = own
    BY ONLY <1>12, <2>1
  <2>4. node'[world.root].bytes = BytesOf(leaves') + own
    BY ONLY <1>11, <2>3
  <2>5. node'[world.root].bytes >= node[world.root].bytes
    BY ONLY <1>13, <2>2, <2>4
  <2>6. node'[world.root].files = node[world.root].files
    BY ONLY <1>10, <1>11, <1>14
  <2> QED
    BY ONLY <2>5, <2>6
<1>16. node[world.root].files <= tally.files
  BY WalkAgrees DEF Agree
<1>17. node'[world.root].files <= tally'.files /\ node'[world.root].files >= node[world.root].files
  <2>1. node[world.root].files \in Nat
    BY <1>0, CountsStand
  <2> QED
    BY ONLY <1>0, <1>7, <1>15, <1>16, <2>1 DEF TallyStands
<1>18. settled' \in {"ok", "failed"}
  BY <1>2
<1> HIDE DEF now, s
<1>19. Agree(world, node', leaves', tally')
  BY ONLY <1>7, <1>8, <1>9, <1>17 DEF Agree
<1>20. NoneLost(world, node, tally, node', tally')
  BY ONLY <1>7, <1>15, <1>17 DEF NoneLost
<1> QED
  BY <1>6, <1>18, <1>19, <1>20

-----------------------------------------------------------------------------
(***************************************************************************)
(* A scan from its start to its return                                     *)
(***************************************************************************)

\* The root alone is in the tree, and its scan begins.
RootEnters(w, to, now) ==
    /\ \E fstype : to = [d \in Dirs |-> IF d = w.root
                            THEN [NoFrame EXCEPT !.pc = "begin", !.fstype = fstype]
                            ELSE NoFrame]
    /\ now = [d \in Dirs |-> IF d = w.root THEN [NoNode EXCEPT !.live = TRUE] ELSE NoNode]

\* A tree of the root alone is a tree, with nothing in it.
LEMMA RootAlone ==
    ASSUME NEW w \in Worlds, NEW to, NEW now, RootEnters(w, to, now)
    PROVE  TreeStands(w, now) /\ TotalsStand(now, {})
<1>1. /\ w.root \in Dirs /\ now = [d \in Dirs |-> now[d]]
      /\ now[w.root] = [NoNode EXCEPT !.live = TRUE]
      /\ \A d \in Dirs \ {w.root} : now[d] = NoNode
  BY ScanAssumption DEF RootEnters
<1>2. \A d \in Dirs : /\ now[d].parent = NoDir /\ now[d].self = 0
                      /\ now[d].live \in BOOLEAN /\ (now[d].live <=> d = w.root)
                      /\ now[d] = NodeRecord(now[d]) /\ now[d].bytes = 0 /\ now[d].files = 0
                      /\ now[d].dirs = 0
  <2> TAKE d \in Dirs
  <2>1. PICK a : a = now[d]
    OBVIOUS
  <2>2. CASE d = w.root
    <3>1. a = [live |-> TRUE, parent |-> NoDir, name |-> 0, self |-> 0,
               bytes |-> 0, files |-> 0, dirs |-> 0, err |-> FALSE]
      BY ONLY <1>1, <2>1, <2>2 DEF NoNode
    <3>2. a = NodeRecord(a)
      BY ONLY <3>1 DEF NodeRecord
    <3>3. a.live /\ a.live \in BOOLEAN /\ a.parent = NoDir /\ a.self = 0 /\ a.bytes = 0
          /\ a.files = 0 /\ a.dirs = 0
      BY ONLY <3>1
    <3> QED
      BY ONLY <2>1, <2>2, <3>2, <3>3
  <2>3. CASE d # w.root
    <3>1. a = [live |-> FALSE, parent |-> NoDir, name |-> 0, self |-> 0,
               bytes |-> 0, files |-> 0, dirs |-> 0, err |-> FALSE]
      BY <1>1, <2>1, <2>3 DEF NoNode
    <3>2. a = NodeRecord(a)
      BY ONLY <3>1 DEF NodeRecord
    <3> QED
      BY <2>1, <2>3, <3>1, <3>2
  <2> QED
    BY <2>2, <2>3
<1>3. Parented(now)
  BY <1>2 DEF Parented
<1>4. Grounded(now)
  BY <1>2 DEF Grounded
<1>5. TreeStands(w, now)
  <2>1. \A d \in Dirs : /\ now[d] = NodeRecord(now[d]) /\ now[d].live \in BOOLEAN
                        /\ ~now[d].live => now[d] = NoNode
    BY <1>1, <1>2
  <2>2. Tree(now)
    <3>1. \A d \in Dirs : now[d].self \in Nat /\ now[d].parent = NoDir
      BY <1>2
    <3> QED
      BY <1>3, <1>4, <3>1 DEF Tree
  <2>3. now[w.root].live /\ now[w.root].parent = NoDir
    BY <1>1, <1>2
  <2>4. \A d \in Dirs : now[d].live => d = w.root
    BY <1>2
  <2> QED
    BY <1>1, <2>1, <2>2, <2>3, <2>4 DEF TreeStands
<1>6. Below(now, w.root) = {w.root}
  <2>1. Below(now, w.root) = {x \in Dirs : now[x].live}
    BY <1>5, RootBelow
  <2> QED
    BY <1>1, <1>2, <2>1
<1>7. LeavesBelow(now, {}, w.root) = {}
  BY DEF LeavesBelow
<1>8. BytesOf({}) = 0 /\ SumOver(SelvesIn(now), {w.root}) = 0
  <2>1. \A f : SumOver(f, {}) = 0
    BY SumStep, FS_EmptySet
  <2>2. BytesOf({}) = SumOver(BytesIn({}), {})
    BY BytesSum, FS_EmptySet
  <2>3. SelvesIn(now)[w.root] = 0
    BY <1>1, <1>2 DEF SelvesIn
  <2>4. Pick({w.root}) = w.root
    BY DEF Pick
  <2>5. SumOver(SelvesIn(now), {w.root}) = SelvesIn(now)[w.root] + SumOver(SelvesIn(now), {})
    <3>1. IsFiniteSet({w.root}) /\ {w.root} # {} /\ {w.root} \ {w.root} = {}
      BY FS_Singleton
    <3>2. \A x \in {w.root} : SelvesIn(now)[x] \in Int
      BY <2>3
    <3> QED
      BY <2>4, <3>1, <3>2, SumStep
  <2> QED
    BY <2>1, <2>2, <2>3, <2>5
<1>9. Cardinality({w.root}) = 1 /\ Cardinality({}) = 0
  BY FS_Singleton, FS_EmptySet
<1>10. {l \in {} : ~l.err} = {}
  OBVIOUS
<1>11. /\ now[w.root].bytes = BytesOf(LeavesBelow(now, {}, w.root))
                               + SumOver(SelvesIn(now), Below(now, w.root))
       /\ now[w.root].files = Cardinality({l \in LeavesBelow(now, {}, w.root) : ~l.err})
       /\ now[w.root].dirs = Cardinality(Below(now, w.root)) - 1
  <2>1. now[w.root].bytes = 0 /\ now[w.root].files = 0 /\ now[w.root].dirs = 0
    BY ONLY <1>1, <1>2
  <2> QED
    BY ONLY <1>6, <1>7, <1>8, <1>9, <1>10, <2>1
<1>12. TotalsStand(now, {})
  BY <1>2, <1>11 DEF TotalsStand
<1> QED
  BY <1>5, <1>12

\* With it the walk begins.
LEMMA WalkBegins ==
    ASSUME NEW w \in Worlds, NEW to, NEW now, RootEnters(w, to, now)
    PROVE  WalkStands(w, to, now, {}, {w.root}, {}, {})
<1>1. TreeStands(w, now) /\ TotalsStand(now, {})
  BY RootAlone
<1>2. /\ w.root \in Dirs /\ to = [d \in Dirs |-> to[d]]
      /\ \E fstype : to[w.root] = [NoFrame EXCEPT !.pc = "begin", !.fstype = fstype]
      /\ \A d \in Dirs \ {w.root} : to[d] = NoFrame
      /\ \A d \in Dirs : (now[d].live <=> d = w.root) /\ now[d].self = 0
  BY ScanAssumption DEF RootEnters, NoNode
<1>3. \A d \in Dirs : /\ to[d] = FrameRecord(to[d]) /\ to[d].unread = {} /\ to[d].batch = {}
                      /\ to[d].plans = {} /\ to[d].todo = {} /\ to[d].caller = NoDir
                      /\ to[d].pc = IF d = w.root THEN "begin" ELSE "idle"
  <2> TAKE d \in Dirs
  <2>1. PICK a : a = to[d]
    OBVIOUS
  <2>2. CASE d = w.root
    <3>1. PICK fstype : a = [NoFrame EXCEPT !.pc = "begin", !.fstype = fstype]
      BY <1>2, <2>1, <2>2
    <3>2. a = [pc |-> "begin", path |-> <<>>, fstype |-> fstype, unread |-> {}, batch |-> {},
               plans |-> {}, todo |-> {}, caller |-> NoDir, spawned |-> FALSE]
      BY ONLY <3>1 DEF NoFrame
    <3>3. a = FrameRecord(a)
      BY ONLY <3>2 DEF FrameRecord
    <3> QED
      BY <2>1, <2>2, <3>2, <3>3
  <2>3. CASE d # w.root
    <3>1. a = [pc |-> "idle", path |-> <<>>, fstype |-> "unknown", unread |-> {}, batch |-> {},
               plans |-> {}, todo |-> {}, caller |-> NoDir, spawned |-> FALSE]
      BY <1>2, <2>1, <2>3 DEF NoFrame
    <3>2. a = FrameRecord(a)
      BY ONLY <3>1 DEF FrameRecord
    <3> QED
      BY <2>1, <2>3, <3>1, <3>2
  <2> QED
    BY <2>2, <2>3
<1>4. FramesStand(w, to)
  BY <1>2, <1>3, FS_EmptySet DEF FramesStand, FrameStands, PlansStand
<1>5. LeavesStand(w, now, {})
  BY FS_EmptySet DEF LeavesStand
<1>6. RecordedOnce(w, to, now, {})
  BY <1>2 DEF RecordedOnce
<1>7. Started(w, to, now)
  BY <1>2, <1>3 DEF Started
<1>8. Called(w, to, now) /\ Waited(w, to, now)
  BY <1>3 DEF Called, Waited, Active
<1>9. Claimed(w, to, now, {w.root})
  <2>1. w.home[w.root] \in Seq(Int)
    BY <1>2, ScanAssumption
  <2>2. Len(w.home[w.root]) <= Len(w.home[w.root])
    BY <2>1
  <2> QED
    BY <1>2, <1>3, <2>2 DEF Claimed
<1>10. EdgesStand(w, now, {})
  BY FS_EmptySet DEF EdgesStand
<1>11. Weighed(w, to, {}, {})
  BY <1>3 DEF Weighed, Weighs
<1> QED
  BY <1>1, <1>4, <1>5, <1>6, <1>7, <1>8, <1>9, <1>10, <1>11 DEF WalkStands

\* When the root's scan is over, so is every other that was begun.
LEMMA AllRest ==
    ASSUME Walking, frame[world.root].pc = "done"
    PROVE  \A d \in Dirs : ~Active(frame[d])
<1>1. TreeStands(world, node) /\ Started(world, frame, node) /\ Called(world, frame, node)
  BY DEF Walking, WalkStands
<1> DEFINE F == {d \in Dirs : ~Active(frame[d])}
<1>2. ASSUME NEW d \in Dirs, node[d].parent \in F \cup {NoDir}
      PROVE  d \in F
  <2> SUFFICES ASSUME Active(frame[d]) PROVE FALSE
    OBVIOUS
  <2>1. d # world.root
    BY DEF Active
  <2>2. node[d].live
    BY <1>1 DEF Started, Active
  <2>3. node[d].parent \in Dirs
    BY <1>1, <2>1, <2>2 DEF TreeStands
  <2>4. node[d].parent \in F
    <3>1. NoDir \notin Dirs
      BY ScanAssumption
    <3> QED
      BY <1>2, <2>3, <3>1
  <2>5. frame[node[d].parent].pc \in {"children", "call"}
    BY <1>1, <2>1 DEF Called
  <2> QED
    BY <2>4, <2>5 DEF Active
<1>3. Dirs \subseteq F
  <2>1. Grounded(node)
    BY <1>1 DEF TreeStands, Tree
  <2> HIDE DEF F
  <2> QED
    BY <1>2, <2>1, Descent
<1> QED
  BY <1>3

\* Whoever moves in a scan is at it, and leaves the rest of it alone.
LEMMA DirMoves ==
    ASSUME NEW d \in Dirs, ScanDir(d), world.maxFaults \in Nat, faults \in 0..world.maxFaults
    PROVE  /\ Active(frame[d]) /\ UNCHANGED <<world, phase, cancelled, shown, settled>>
           /\ faults' \in 0..world.maxFaults
<1>1. faults' = faults \/ Fault
      => faults' \in 0..world.maxFaults
  BY DEF Fault
<1>2. CASE BeginDir(d)
  BY <1>1, <1>2 DEF BeginDir, Active
<1>3. CASE OpenDir(d)
  BY <1>1, <1>3 DEF OpenDir, Active
<1>4. CASE ReadBatch(d)
  BY <1>1, <1>4 DEF ReadBatch, Active
<1>5. CASE Classify(d)
  BY <1>1, <1>5 DEF Classify, Active, ClassifyFails, ClassifyDir, ClassifyFile, ClassifyFiltered
<1>6. CASE RecordBatch(d)
  BY <1>1, <1>6 DEF RecordBatch, Active
<1>7. CASE ScanChild(d)
  BY <1>1, <1>7 DEF ScanChild, Active
<1>8. CASE ChildReturns(d)
  BY <1>1, <1>8 DEF ChildReturns, Active
<1>9. CASE AwaitChildren(d)
  BY <1>1, <1>9 DEF AwaitChildren, Active
<1> QED
  BY <1>2, <1>3, <1>4, <1>5, <1>6, <1>7, <1>8, <1>9 DEF ScanDir

\* The walk goes on with every step of it.
LEMMA DirWalksOn ==
    ASSUME Walking, NEW d \in Dirs, ScanDir(d)
    PROVE  WalksOn
BY BeginWalksOn, OpenWalksOn, ReadWalksOn, ClassifyWalksOn, RecordWalksOn, ChildWalksOn,
   ReturnsWalksOn, AwaitWalksOn DEF ScanDir

-----------------------------------------------------------------------------
(***************************************************************************)
(* What a scan keeps                                                       *)
(***************************************************************************)

\* A snapshot has no more files in the tree than were counted.
SightStands(s) ==
    /\ s.bytes \in Nat /\ s.inTree \in Nat /\ s.files \in Nat /\ s.dirs \in Nat
    /\ s.errors \in Nat /\ s.inTree <= s.files
NotAfter(s, t) ==
    /\ s.bytes <= t.bytes /\ s.inTree <= t.inTree /\ s.files <= t.files
    /\ s.dirs <= t.dirs /\ s.errors <= t.errors

\* The snapshot last delivered is not after the one in the channel, nor this
\* after the tree as it is now.
SightsStand(now, o, s) ==
    /\ SightStands(now)
    /\ o = <<>> \/ \E a : o = <<a>> /\ SightStands(a) /\ NotAfter(a, now)
    /\ s = <<>> \/ \E b : /\ s = <<b>> /\ SightStands(b) /\ NotAfter(b, now)
                          /\ \A a : o = <<a>> => NotAfter(b, a)

Present == Sight(world, node, tally, FALSE)

\* Nothing has happened before the root is admitted, or if it is not.
AtStart ==
    /\ frame = [d \in Dirs |-> NoFrame] /\ node = [d \in Dirs |-> NoNode]
    /\ leaves = {} /\ claimed = {} /\ edges = {} /\ counted = {}
    /\ tally = [files |-> 0, dirs |-> 0, errors |-> 0]
    /\ out = <<>> /\ shown = <<>>

\* When owners are settled every scan is over.
Rested ==
    /\ Agree(world, node, leaves, tally) /\ claimed \subseteq Dirs
    /\ \A d \in Dirs : ~Active(frame[d]) /\ FrameStands(world, d, frame[d])

ScanKeeps ==
    /\ world \in Worlds /\ cancelled \in BOOLEAN /\ faults \in 0..world.maxFaults
    /\ settled \in {"pending", "ok", "failed"}
    /\ phase \in {"start", "walk", "final", "drain", "returned", "refused"}
    /\ phase \in {"start", "refused"} => AtStart
    /\ phase = "walk" => Walking
    /\ phase \in {"final", "drain", "returned"} => Rested
    /\ phase = "returned" => out = <<>>
    /\ SightsStand(Present, out, shown)

\* Where all agrees the tree can be shown.
LEMMA AgreeShows ==
    ASSUME NEW w \in Worlds, NEW nd, NEW ls, NEW t, Agree(w, nd, ls, t), NEW c
    PROVE  SightStands(Sight(w, nd, t, c))
<1>1. w.root \in Dirs
  BY ScanAssumption
<1>2. nd[w.root].bytes \in Nat /\ nd[w.root].files \in Nat
  BY <1>1, CountsStand DEF Agree
<1>3. TallyStands(t) /\ nd[w.root].files <= t.files
  BY DEF Agree
<1> QED
  BY ONLY <1>2, <1>3 DEF SightStands, Sight, TallyStands

\* What grows shows no less, and what was shown stays before it.
LEMMA SightsGrow ==
    ASSUME NEW w, NEW nd, NEW t, NEW o, NEW s, SightsStand(Sight(w, nd, t, FALSE), o, s),
           NEW now, NEW u, NoneLost(w, nd, t, now, u), SightStands(Sight(w, now, u, FALSE)),
           NEW p, p = o \/ (o = <<>> /\ \E c : p = <<Sight(w, now, u, c)>>)
    PROVE  SightsStand(Sight(w, now, u, FALSE), p, s)
<1> PICK was : was = Sight(w, nd, t, FALSE)
  OBVIOUS
<1> PICK is : is = Sight(w, now, u, FALSE)
  OBVIOUS
<1>1. /\ SightStands(was) /\ SightStands(is) /\ NotAfter(was, is)
  <2>1. SightStands(was) /\ SightStands(is)
    BY DEF SightsStand
  <2>2. NotAfter(was, is)
    BY DEF NotAfter, NoneLost, Sight
  <2> QED
    BY <2>1, <2>2
<1>2. ASSUME NEW a, SightStands(a), NotAfter(a, was)
      PROVE  NotAfter(a, is)
  BY ONLY <1>1, <1>2 DEF SightStands, NotAfter
<1>3. SightsStand(was, o, s)
  OBVIOUS
<1>4. p = <<>> \/ \E a : p = <<a>> /\ SightStands(a) /\ NotAfter(a, is)
  <2>1. CASE p = o
    BY ONLY <1>2, <1>3, <2>1 DEF SightsStand
  <2>2. CASE o = <<>> /\ \E c : p = <<Sight(w, now, u, c)>>
    <3>1. PICK c : p = <<Sight(w, now, u, c)>>
      BY <2>2
    <3>2. PICK a : a = Sight(w, now, u, c)
      OBVIOUS
    <3>3. SightStands(a) /\ NotAfter(a, is)
      BY ONLY <1>1, <3>2, is = Sight(w, now, u, FALSE) DEF Sight, SightStands, NotAfter
    <3> QED
      BY <3>1, <3>2, <3>3
  <2> QED
    BY <2>1, <2>2
<1>5. s = <<>> \/ \E b : /\ s = <<b>> /\ SightStands(b) /\ NotAfter(b, is)
                         /\ \A a : p = <<a>> => NotAfter(b, a)
  <2> SUFFICES ASSUME s # <<>>
               PROVE  \E b : /\ s = <<b>> /\ SightStands(b) /\ NotAfter(b, is)
                             /\ \A a : p = <<a>> => NotAfter(b, a)
    OBVIOUS
  <2>1. PICK b : /\ s = <<b>> /\ SightStands(b) /\ NotAfter(b, was)
                 /\ \A a : o = <<a>> => NotAfter(b, a)
    BY ONLY <1>3, s # <<>> DEF SightsStand
  <2>2. NotAfter(b, is)
    BY <1>2, <2>1
  <2>3. ASSUME NEW a, p = <<a>>
        PROVE  NotAfter(b, a)
    <3>1. CASE p = o
      BY <2>1, <2>3, <3>1
    <3>2. CASE o = <<>> /\ \E c : p = <<Sight(w, now, u, c)>>
      <4>1. PICK c : p = <<Sight(w, now, u, c)>>
        BY <3>2
      <4>2. a = Sight(w, now, u, c)
        BY ONLY <2>3, <4>1
      <4> QED
        BY ONLY <2>2, <4>2, is = Sight(w, now, u, FALSE) DEF Sight, NotAfter
    <3> QED
      BY <3>1, <3>2
  <2> QED
    BY <2>1, <2>2, <2>3
<1> QED
  BY ONLY <1>1, <1>4, <1>5, is = Sight(w, now, u, FALSE) DEF SightsStand

\* The consumer is shown what was in the channel.
LEMMA SightsShown ==
    ASSUME NEW now, NEW o, NEW s, SightsStand(now, o, s), o # <<>>
    PROVE  SightsStand(now, <<>>, o)
<1>1. PICK a : o = <<a>> /\ SightStands(a) /\ NotAfter(a, now)
  BY DEF SightsStand
<1>2. \A b : <<>> # <<b>>
  OBVIOUS
<1> QED
  BY <1>1, <1>2 DEF SightsStand

\* A scan begins so.
LEMMA StartKeeps ==
    ASSUME world \in Worlds, AtStart, cancelled = FALSE, faults = 0, settled = "pending",
           phase \in {"start", "refused"}
    PROVE  ScanKeeps
<1>1. world.root \in Dirs /\ world.maxFaults \in Nat
  BY ScanAssumption
<1>2. node[world.root].bytes = 0 /\ node[world.root].files = 0
      /\ tally.files = 0 /\ tally.dirs = 0 /\ tally.errors = 0
  BY <1>1 DEF AtStart, NoNode
<1>3. SightStands(Present)
  BY <1>2 DEF SightStands, Sight, Present
<1>4. SightsStand(Present, out, shown)
  BY <1>3 DEF SightsStand, AtStart
<1>5. faults \in 0..world.maxFaults /\ cancelled \in BOOLEAN
  <2>1. PICK most : most = world.maxFaults
    OBVIOUS
  <2>2. 0 \in 0..most
    BY ONLY <1>1, <2>1
  <2> QED
    BY ONLY <2>1, <2>2, cancelled = FALSE, faults = 0
<1>6. phase \notin {"walk", "final", "drain", "returned"}
  OBVIOUS
<1> QED
  BY ONLY <1>4, <1>5, <1>6, world \in Worlds, AtStart, settled = "pending",
          phase \in {"start", "refused"} DEF ScanKeeps

\* What the tree has come to is shown or not.
LEMMA SightsMove ==
    ASSUME world \in Worlds, world' = world, SightsStand(Present, out, shown), shown' = shown,
           Agree(world, node', leaves', tally'), NoneLost(world, node, tally, node', tally'),
           \/ out' = out
           \/ out = <<>> /\ \E c : out' = <<Sight(world, node', tally', c)>>
    PROVE  SightsStand(Present', out', shown')
<1> PICK now : now = node'
  OBVIOUS
<1> PICK u : u = tally'
  OBVIOUS
<1> PICK ls : ls = leaves'
  OBVIOUS
<1> PICK p : p = out'
  OBVIOUS
<1>1. SightStands(Sight(world, now, u, FALSE))
  <2>1. Agree(world, now, ls, u)
    OBVIOUS
  <2> QED
    BY ONLY <2>1, world \in Worlds, AgreeShows
<1>2. SightsStand(Sight(world, node, tally, FALSE), out, shown)
  BY DEF Present
<1>3. NoneLost(world, node, tally, now, u)
  OBVIOUS
<1>4. p = out \/ (out = <<>> /\ \E c : p = <<Sight(world, now, u, c)>>)
  OBVIOUS
<1>5. SightsStand(Sight(world, now, u, FALSE), p, shown)
  BY ONLY <1>1, <1>2, <1>3, <1>4, SightsGrow
<1> QED
  BY <1>5 DEF Present

\* The root is admitted, and alone in the tree; or it is refused.
LEMMA StartGoesOn ==
    ASSUME ScanKeeps, Start
    PROVE  ScanKeeps'
<1>1. /\ world \in Worlds /\ AtStart /\ world.root \in Dirs
      /\ SightsStand(Present, out, shown) /\ phase = "start"
      /\ cancelled \in BOOLEAN /\ faults \in 0..world.maxFaults
      /\ settled \in {"pending", "ok", "failed"}
  BY ScanAssumption DEF ScanKeeps, Start
<1>2. UNCHANGED <<world, cancelled, faults, leaves, edges, counted, tally, out, shown, settled>>
  BY DEF Start
<1>3. CASE phase' = "refused" /\ UNCHANGED <<frame, node, claimed>>
  <2>1. AtStart' /\ Present' = Present
    BY <1>1, <1>2, <1>3 DEF AtStart, Present
  <2> QED
    BY ONLY <1>1, <1>2, <1>3, <2>1 DEF ScanKeeps
<1>4. CASE /\ phase' = "walk"
           /\ frame' = [frame EXCEPT ![Root].pc = "begin",
                                     ![Root].fstype = FSOf(world.mounts, world.home[Root])]
           /\ node' = [node EXCEPT ![Root].live = TRUE]
           /\ claimed' = {Root}
  <2>1. PICK to : to = frame'
    OBVIOUS
  <2>2. PICK now : now = node'
    OBVIOUS
  <2>3. PICK fstype : fstype = FSOf(world.mounts, world.home[Root])
    OBVIOUS
  <2>4. frame = [d \in Dirs |-> NoFrame] /\ node = [d \in Dirs |-> NoNode]
        /\ leaves = {} /\ edges = {} /\ counted = {}
        /\ tally = [files |-> 0, dirs |-> 0, errors |-> 0] /\ out = <<>> /\ shown = <<>>
    BY <1>1 DEF AtStart
  <2>5. to = [frame EXCEPT ![world.root].pc = "begin", ![world.root].fstype = fstype]
    BY <1>4, <2>1, <2>3 DEF Root
  <2>6. to = [d \in Dirs |-> IF d = world.root
                 THEN [NoFrame EXCEPT !.pc = "begin", !.fstype = fstype] ELSE NoFrame]
    BY ONLY <1>1, <2>4, <2>5
  <2>7. now = [d \in Dirs |-> IF d = world.root THEN [NoNode EXCEPT !.live = TRUE] ELSE NoNode]
    BY <1>1, <1>4, <2>2, <2>4 DEF Root
  <2>8. RootEnters(world, to, now)
    BY ONLY <2>6, <2>7 DEF RootEnters
  <2>9. WalkStands(world, to, now, {}, {world.root}, {}, {})
    BY <1>1, <2>8, WalkBegins
  <2>10. MetCounted(to, {}, tally)
    <3>1. \A d \in Dirs : to[d].plans = {}
      BY ONLY <2>6 DEF NoFrame
    <3>2. Met(to, {}) = {}
      BY ONLY <3>1 DEF Met
    <3>3. tally.files = 0 /\ IsFiniteSet({}) /\ Cardinality({}) = 0
      BY <2>4, FS_EmptySet
    <3> QED
      BY ONLY <3>2, <3>3 DEF MetCounted
  <2>11. TallyStands(tally)
    BY <2>4 DEF TallyStands
  <2>12. Walking'
    BY ONLY <1>1, <1>2, <1>4, <2>1, <2>2, <2>4, <2>9, <2>10, <2>11 DEF Walking, Root
  <2>13. Present' = Present
    <3>1. node'[world.root].bytes = node[world.root].bytes
          /\ node'[world.root].files = node[world.root].files
      BY ONLY <1>1, <2>2, <2>4, <2>7 DEF NoNode
    <3> QED
      BY ONLY <1>2, <3>1 DEF Present, Sight
  <2> QED
    BY ONLY <1>1, <1>2, <1>4, <2>12, <2>13 DEF ScanKeeps
<1> QED
  BY <1>3, <1>4 DEF Start

\* Whoever scans a directory keeps it.
LEMMA DirGoesOn ==
    ASSUME ScanKeeps, NEW d \in Dirs, ScanDir(d)
    PROVE  ScanKeeps'
<1>1. /\ world \in Worlds /\ world.maxFaults \in Nat
      /\ SightsStand(Present, out, shown)
      /\ cancelled \in BOOLEAN /\ faults \in 0..world.maxFaults
      /\ settled \in {"pending", "ok", "failed"}
      /\ phase \in {"start", "walk", "final", "drain", "returned", "refused"}
  BY ScanAssumption DEF ScanKeeps
<1>2. /\ Active(frame[d]) /\ UNCHANGED <<world, phase, cancelled, shown, settled>>
      /\ faults' \in 0..world.maxFaults
  BY <1>1, DirMoves
<1>3. phase = "walk"
  <2>1. CASE phase \in {"start", "refused"}
    <3>1. frame[d] = NoFrame
      BY <2>1 DEF ScanKeeps, AtStart
    <3> QED
      BY <1>2, <3>1 DEF Active, NoFrame
  <2>2. CASE phase \in {"final", "drain", "returned"}
    BY <1>2, <2>2 DEF ScanKeeps, Rested
  <2> QED
    BY <1>1, <2>1, <2>2
<1>4. Walking
  BY <1>3 DEF ScanKeeps
<1>5. WalksOn
  BY <1>4, DirWalksOn
<1>6. Walking'
  BY ONLY <1>1, <1>2, <1>5 DEF Walking, WalksOn
<1>7. Agree(world, node, leaves, tally)'
  BY <1>6, WalkAgrees, PTL
<1>8. SightsStand(Present', out', shown')
  BY ONLY <1>1, <1>2, <1>5, <1>7, SightsMove DEF WalksOn
<1>9. phase' = "walk"
  BY <1>2, <1>3
<1> QED
  BY ONLY <1>1, <1>2, <1>6, <1>8, <1>9 DEF ScanKeeps

\* When the root's scan is over the owners are settled.
LEMMA SettleGoesOn ==
    ASSUME ScanKeeps, Settle
    PROVE  ScanKeeps'
<1>1. /\ phase = "walk" /\ frame[world.root].pc = "done" /\ phase' = "final"
      /\ UNCHANGED <<world, cancelled, faults, frame, claimed, edges, counted, shown>>
  BY DEF Settle, Root
<1>2. /\ world \in Worlds /\ Walking /\ SightsStand(Present, out, shown)
      /\ cancelled \in BOOLEAN /\ faults \in 0..world.maxFaults
  BY <1>1 DEF ScanKeeps
<1>3. /\ Agree(world, node', leaves', tally')
      /\ NoneLost(world, node, tally, node', tally')
      /\ out' = out \/ (out = <<>> /\ out' = <<Sight(world, node', tally', FALSE)>>)
      /\ settled' \in {"ok", "failed"}
  BY <1>2, SettleAgrees
<1>4. SightsStand(Present', out', shown')
  BY ONLY <1>1, <1>2, <1>3, SightsMove
<1>5. claimed \subseteq Dirs /\ FramesStand(world, frame)
  BY <1>2 DEF Walking, WalkStands, Claimed
<1>6. \A d \in Dirs : ~Active(frame[d])
  BY <1>1, <1>2, AllRest
<1>7. Rested'
  BY ONLY <1>1, <1>3, <1>5, <1>6 DEF Rested, FramesStand
<1> QED
  BY ONLY <1>1, <1>2, <1>3, <1>4, <1>7 DEF ScanKeeps

\* What is settled stays so, whatever is shown of it.
LEMMA SettledGoesOn ==
    ASSUME ScanKeeps, EmitFinal \/ Return
    PROVE  ScanKeeps'
<1>1. /\ UNCHANGED <<world, cancelled, faults, frame, node, leaves, claimed, edges, counted,
                     tally, shown, settled>>
      /\ phase \in {"final", "drain"} /\ phase' \in {"drain", "returned"}
      /\ phase' = "returned" => out' = <<>>
      /\ out' = out \/ (out = <<>> /\ \E c : out' = <<Sight(world, node', tally', c)>>)
  <2>1. CASE EmitFinal
    BY <2>1 DEF EmitFinal, Snapshot, Sight, Root
  <2>2. CASE Return
    BY <2>2 DEF Return
  <2> QED
    BY <2>1, <2>2
<1>2. /\ world \in Worlds /\ Rested /\ SightsStand(Present, out, shown)
      /\ cancelled \in BOOLEAN /\ faults \in 0..world.maxFaults
      /\ settled \in {"pending", "ok", "failed"}
  BY <1>1 DEF ScanKeeps
<1>3. Rested'
  BY <1>1, <1>2 DEF Rested
<1>4. Agree(world, node', leaves', tally')
  BY <1>1, <1>3 DEF Rested
<1>5. NoneLost(world, node, tally, node', tally')
  <2>1. SightStands(Present)
    BY <1>2 DEF SightsStand
  <2>2. /\ node[world.root].bytes \in Nat /\ node[world.root].files \in Nat
        /\ tally.files \in Nat /\ tally.dirs \in Nat /\ tally.errors \in Nat
    BY <2>1 DEF SightStands, Present, Sight
  <2> QED
    BY ONLY <1>1, <2>2 DEF NoneLost
<1>6. SightsStand(Present', out', shown')
  BY ONLY <1>1, <1>2, <1>4, <1>5, SightsMove
<1> QED
  BY ONLY <1>1, <1>2, <1>3, <1>6 DEF ScanKeeps

\* The consumer gets what was in the channel, and changes nothing.
LEMMA DeliverGoesOn ==
    ASSUME ScanKeeps, Deliver
    PROVE  ScanKeeps'
<1>1. /\ out # <<>> /\ shown' = out /\ out' = <<>>
      /\ UNCHANGED <<world, phase, cancelled, faults, frame, node, leaves, claimed, edges,
                     counted, tally, settled>>
  BY DEF Deliver
<1>2. SightsStand(Present, out, shown)
  BY DEF ScanKeeps
<1>3. SightsStand(Present, <<>>, out)
  BY <1>1, <1>2, SightsShown
<1>4. Present' = Present
  BY <1>1 DEF Present
<1>5. SightsStand(Present', out', shown')
  BY ONLY <1>1, <1>3, <1>4
<1>6. phase \notin {"start", "refused", "returned"}
  BY <1>1 DEF ScanKeeps, AtStart
<1>7. /\ world \in Worlds /\ cancelled \in BOOLEAN /\ faults \in 0..world.maxFaults
      /\ settled \in {"pending", "ok", "failed"}
      /\ phase \in {"start", "walk", "final", "drain", "returned", "refused"}
      /\ phase = "walk" => Walking
      /\ phase \in {"final", "drain", "returned"} => Rested
  BY DEF ScanKeeps
<1>8. (Walking' <=> Walking) /\ (Rested' <=> Rested)
  BY <1>1 DEF Walking, Rested
<1> QED
  BY ONLY <1>1, <1>5, <1>6, <1>7, <1>8 DEF ScanKeeps

\* So does whoever cancels, and whoever rests.
LEMMA StillGoesOn ==
    ASSUME ScanKeeps, CancelScan \/ UNCHANGED scanVars
    PROVE  ScanKeeps'
<1>1. /\ cancelled' \in {TRUE, cancelled}
      /\ UNCHANGED <<world, phase, faults, frame, node, leaves, claimed, edges, counted, tally,
                     out, shown, settled>>
  BY DEF CancelScan, scanVars
<1>2. /\ (Walking' <=> Walking) /\ (Rested' <=> Rested) /\ (AtStart' <=> AtStart)
      /\ Present' = Present
  BY <1>1 DEF Walking, Rested, AtStart, Present
<1> QED
  BY <1>1, <1>2 DEF ScanKeeps

\* Every step of a scan keeps it.
LEMMA ScanGoesOn ==
    ASSUME ScanKeeps, [ScanNext]_scanVars
    PROVE  ScanKeeps'
BY StartGoesOn, DirGoesOn, SettleGoesOn, SettledGoesOn, DeliverGoesOn, StillGoesOn
   DEF ScanNext, ScanStep

\* The program begins with a scan at its start, or with none.
LEMMA ScanBegins == Init => ScanKeeps
<1> SUFFICES ASSUME Init PROVE ScanKeeps
  OBVIOUS
<1>1. CASE ScanInit
  BY <1>1, StartKeeps DEF ScanInit, AtStart
<1>2. CASE ScanIdles
  <2>1. world \in Worlds
    BY <1>2, ScanAssumption DEF ScanIdles
  <2> QED
    BY <1>2, <2>1, StartKeeps DEF ScanIdles, AtStart
<1> QED
  BY <1>1, <1>2 DEF Init

\* Whatever the command, the scan takes a step of its own or none.
LEMMA ScanMovesAlone == [Next \/ Rests]_vars => [ScanNext]_scanVars
<1>1. CASE Next
  BY <1>1 DEF Next, OnlyMoves
<1>2. CASE UNCHANGED vars
  BY <1>2 DEF vars
<1> QED
  BY <1>1, <1>2 DEF Rests

\* What is kept has the types of a scan.
LEMMA KeepsScanTypes == ScanKeeps => ScanTypeOK
<1> SUFFICES ASSUME ScanKeeps PROVE ScanTypeOK
  OBVIOUS
<1>1. ASSUME NEW d \in Dirs
      PROVE  /\ frame[d].pc \in {"idle", "begin", "open", "read", "classify",
                                 "children", "call", "done"}
             /\ frame[d].caller \in Dirs \cup {NoDir}
             /\ node[d].parent \in Dirs \cup {NoDir}
             /\ node[d].bytes \in Nat /\ node[d].files \in Nat /\ node[d].dirs \in Nat
  <2>1. CASE phase \in {"start", "refused"}
    <3>1. frame[d] = NoFrame /\ node[d] = NoNode
      BY <2>1 DEF ScanKeeps, AtStart
    <3> QED
      BY <3>1 DEF NoFrame, NoNode
  <2>2. CASE phase = "walk"
    <3>1. WalkStands(world, frame, node, leaves, claimed, edges, counted)
      BY <2>2 DEF ScanKeeps, Walking
    <3>2. /\ FrameStands(world, d, frame[d]) /\ TreeStands(world, node)
          /\ LeavesStand(world, node, leaves) /\ TotalsStand(node, leaves)
      BY <3>1 DEF WalkStands, FramesStand
    <3> QED
      BY <3>2, CountsStand DEF FrameStands, TreeStands, Tree, Parented
  <2>3. CASE phase \in {"final", "drain", "returned"}
    <3>1. /\ FrameStands(world, d, frame[d]) /\ TreeStands(world, node)
          /\ LeavesStand(world, node, leaves) /\ TotalsStand(node, leaves)
      BY <2>3 DEF ScanKeeps, Rested, Agree
    <3> QED
      BY <3>1, CountsStand DEF FrameStands, TreeStands, Tree, Parented
  <2> QED
    BY <2>1, <2>2, <2>3 DEF ScanKeeps
<1>2. claimed \subseteq Dirs
  BY DEF ScanKeeps, AtStart, Walking, WalkStands, Claimed, Rested
<1>3. Len(out) <= 1 /\ Len(shown) <= 1
  <2>1. /\ out = <<>> \/ \E a : out = <<a>>
        /\ shown = <<>> \/ \E b : shown = <<b>>
    BY DEF ScanKeeps, SightsStand
  <2>2. Len(<<>>) = 0 /\ \A a : Len(<<a>>) = 1
    OBVIOUS
  <2>3. Len(out) \in {0, 1} /\ Len(shown) \in {0, 1}
    BY ONLY <2>1, <2>2
  <2>4. \A n \in {0, 1} : n <= 1
    OBVIOUS
  <2> QED
    BY <2>3, <2>4
<1> QED
  BY <1>1, <1>2, <1>3 DEF ScanKeeps, ScanTypeOK

\* The totals are what is below, in every regime.
LEMMA KeepsTotals == ScanKeeps => LiveTotals
<1> SUFFICES ASSUME ScanKeeps PROVE LiveTotals
  OBVIOUS
<1>1. /\ TotalsAreRight(leaves)
      /\ \A l, o \in leaves :
            l.bytes > 0 /\ o.bytes > 0 /\ l.id = o.id /\ Deduplicated(l.dir, l.name) => l = o
  <2>1. CASE phase \in {"start", "refused"}
    <3>1. leaves = {} /\ node = [d \in Dirs |-> NoNode]
      BY <2>1 DEF ScanKeeps, AtStart
    <3>2. Live = {}
      BY <3>1 DEF Live, NoNode
    <3> QED
      BY <3>1, <3>2 DEF TotalsAreRight
  <2>2. CASE phase = "walk"
    <3>1. Walking /\ world \in Worlds
      BY <2>2 DEF ScanKeeps
    <3> QED
      BY <3>1, WalkAgrees, AgreeTotals
  <2>3. CASE phase \in {"final", "drain", "returned"}
    <3>1. Agree(world, node, leaves, tally) /\ world \in Worlds
      BY <2>3 DEF ScanKeeps, Rested
    <3> QED
      BY <3>1, AgreeTotals
  <2> QED
    BY <2>1, <2>2, <2>3 DEF ScanKeeps
<1>2. \A s \in ToSet(out) \cup ToSet(shown) : s.inTree <= s.files /\ s.bytes <= node[Root].bytes
  <2> SUFFICES ASSUME NEW s \in ToSet(out) \cup ToSet(shown)
               PROVE  s.inTree <= s.files /\ s.bytes <= node[Root].bytes
    OBVIOUS
  <2>1. SightsStand(Present, out, shown)
    BY DEF ScanKeeps
  <2>2. SightStands(s) /\ NotAfter(s, Present)
    <3>1. \A a : ToSet(<<a>>) = {a}
      BY DEF ToSet
    <3>2. ToSet(<<>>) = {}
      BY DEF ToSet
    <3>3. CASE s \in ToSet(out)
      BY <2>1, <3>1, <3>2, <3>3 DEF SightsStand
    <3>4. CASE s \in ToSet(shown)
      BY <2>1, <3>1, <3>2, <3>4 DEF SightsStand
    <3> QED
      BY <3>3, <3>4
  <2>3. Present.bytes = node[Root].bytes
    BY DEF Present, Sight, Root
  <2> QED
    BY <2>2, <2>3 DEF SightStands, NotAfter
<1> QED
  BY <1>1, <1>2 DEF LiveTotals

\* While a scan runs, at every moment and however the goroutines alternate, the
\* totals of a directory are the sums of what is recorded below it (record,
\* propagateSelf, propagateFile), the bytes of a file with several names are in
\* them once, and a snapshot never shows more than the tree.  When owners are
\* assigned anew (canonicalizeDirectoryOwners, normalizeFileOwners) the totals
\* follow (recomputeDirectory).
THEOREM TotalsAreLive == Spec => []LiveTotals
BY ScanBegins, ScanGoesOn, ScanMovesAlone, KeepsTotals, PTL DEF Spec

\* The snapshots shown are in the order in which they were made, whatever is
\* left out while the channel is full, and none comes after ScanStream has
\* returned (record, emitFinal, pump).
THEOREM ShownInOrder == Spec => SnapshotsInOrder
<1>1. ScanKeeps /\ [ScanNext]_scanVars
      => [shown' # shown =>
            /\ phase # "returned"
            /\ shown # <<>> => \A k \in {"bytes", "inTree", "files", "dirs", "errors"} :
                                   shown[1][k] <= shown'[1][k]]_scanVars
  <2> SUFFICES ASSUME ScanKeeps, ScanNext, shown' # shown
               PROVE  /\ phase # "returned"
                      /\ shown # <<>> => \A k \in {"bytes", "inTree", "files", "dirs", "errors"} :
                                             shown[1][k] <= shown'[1][k]
    OBVIOUS
  <2>1. Deliver
    <3>1. \A d \in Dirs : ScanDir(d) => shown' = shown
      BY ScanAssumption, DirMoves DEF ScanKeeps
    <3> QED
      BY <3>1 DEF ScanNext, ScanStep, Start, Settle, EmitFinal, Return, CancelScan
  <2>2. out # <<>> /\ shown' = out
    BY <2>1 DEF Deliver
  <2>3. SightsStand(Present, out, shown) /\ (phase = "returned" => out = <<>>)
    BY DEF ScanKeeps
  <2>4. ASSUME shown # <<>>
        PROVE  \A k \in {"bytes", "inTree", "files", "dirs", "errors"} :
                   shown[1][k] <= shown'[1][k]
    <3>1. PICK b : shown = <<b>> /\ \A a : out = <<a>> => NotAfter(b, a)
      BY <2>3, <2>4 DEF SightsStand
    <3>2. PICK a : out = <<a>>
      BY <2>2, <2>3 DEF SightsStand
    <3>3. NotAfter(b, a) /\ shown[1] = b /\ shown'[1] = a
      BY <2>2, <3>1, <3>2
    <3> QED
      BY ONLY <3>3 DEF NotAfter
  <2> QED
    BY <2>2, <2>3, <2>4
<1> QED
  BY <1>1, ScanBegins, ScanGoesOn, ScanMovesAlone, PTL DEF Spec, SnapshotsInOrder

-----------------------------------------------------------------------------
(***************************************************************************)
(* The owners of directories: each has the smallest path                   *)
(***************************************************************************)

\* What begins on the way to a path comes before it.
LEMMA LessAppended ==
    ASSUME NEW p \in Seq(Int), NEW n \in Int, NEW q \in Seq(Int)
    PROVE  /\ Appended(p, n) \in Seq(Int) /\ ~PathLess(Appended(p, n), p)
           /\ PathLess(Appended(p, n), q) => PathLess(p, q)
<1>1. /\ Appended(p, n) \in Seq(Int) /\ Len(Appended(p, n)) = Len(p) + 1 /\ Len(p) \in Nat
      /\ \A i \in 1..Len(p) : Appended(p, n)[i] = p[i]
  BY DEF Appended
<1> PICK r : r = Appended(p, n)
  OBVIOUS
<1>2. r \in Seq(Int) /\ Within(p, r) /\ Len(p) < Len(r)
  <2>1. r \in Seq(Int) /\ Len(p) < Len(r) /\ Len(p) <= Len(r) /\ \A i \in 1..Len(p) : r[i] = p[i]
    BY <1>1
  <2> QED
    BY ONLY <2>1, p \in Seq(Int), WithinIs
<1>3. PathLess(p, r)
  BY ONLY <1>2, p \in Seq(Int), LessIs
<1>4. ~PathLess(r, p)
  BY ONLY <1>2, <1>3, p \in Seq(Int), LessThrough, LessIsStrict
<1>5. PathLess(r, q) => PathLess(p, q)
  BY ONLY <1>2, <1>3, p \in Seq(Int), q \in Seq(Int), LessThrough
<1> QED
  BY <1>2, <1>4, <1>5

\* The paths of directories that are where they were, with all above them, are
\* what they were.
LEMMA PathsSame ==
    ASSUME NEW nd, Parented(nd), Grounded(nd), Named(nd),
           NEW to, Parented(to), Grounded(to), Named(to), NEW U \in SUBSET Dirs,
           \A d \in U : /\ to[d].parent = nd[d].parent /\ to[d].name = nd[d].name
                        /\ nd[d].parent \in U \cup {NoDir}
    PROVE  \A d \in U : PathIn(to, d) = PathIn(nd, d)
<1> DEFINE F == {x \in Dirs : x \in U => PathIn(to, x) = PathIn(nd, x)}
<1>1. ASSUME NEW x \in Dirs, nd[x].parent \in F \cup {NoDir}
      PROVE  x \in F
  <2> SUFFICES ASSUME x \in U PROVE PathIn(to, x) = PathIn(nd, x)
    OBVIOUS
  <2>1. PathIn(to, x) = IF nd[x].parent = NoDir THEN <<>>
                        ELSE Append(PathIn(to, nd[x].parent), nd[x].name)
    BY PathIs
  <2>2. PathIn(nd, x) = IF nd[x].parent = NoDir THEN <<>>
                        ELSE Append(PathIn(nd, nd[x].parent), nd[x].name)
    BY PathIs
  <2>3. nd[x].parent # NoDir => PathIn(to, nd[x].parent) = PathIn(nd, nd[x].parent)
    BY <1>1
  <2> QED
    BY ONLY <2>1, <2>2, <2>3
<1>2. Dirs \subseteq F
  <2> HIDE DEF F
  <2> QED
    BY <1>1, Descent
<1> QED
  BY <1>2

\* The edges of directories that have their place.
Used(A) == {e \in edges : e.from \in A}
\* Every directory but the root is where some edge leads to.
PlacedByEdges(w, nd) ==
    \A d \in Dirs : nd[d].live /\ d # w.root =>
        [from |-> nd[d].parent, name |-> nd[d].name, to |-> d] \in edges

\* After k turns: what has its place has it with all above it, at the smallest
\* path on which an edge leads to it; whatever else edges lead to from there is
\* a candidate, on no smaller path than those that have theirs.
TakenInTurn(w, s) ==
    /\ \A d \in s.assigned : s.tree[d].parent \in s.assigned \cup {NoDir}
    /\ \A c \in s.frontier : /\ c.parent \in s.assigned
                             /\ c.path = Append(PathIn(s.tree, c.parent), c.name)
                             /\ [from |-> c.parent, name |-> c.name, to |-> c.group] \in edges
    /\ \A e \in edges : e.from \in s.assigned =>
          \/ e.to \in s.assigned
          \/ \E c \in s.frontier : c.parent = e.from /\ c.name = e.name /\ c.group = e.to
    /\ \A e \in edges : e.from \in s.assigned /\ e.to \in s.assigned /\ s.tree[e.to].live =>
          ~PathLess(Appended(PathIn(s.tree, e.from), e.name), PathIn(s.tree, e.to))
    /\ \A d \in s.assigned : \A c \in s.frontier : s.tree[d].live =>
          ~PathLess(c.path, PathIn(s.tree, d))
    /\ PlacedByEdges(w, s.tree)
InTime(s, k) ==
    s.frontier # {} => k + Cardinality(s.frontier) <= Cardinality(Used(s.assigned))
SettlesWell(w, s, k) ==
    /\ StillSettling(w, node, s) /\ ~s.failed /\ TakenInTurn(w, s) /\ InTime(s, k)

\* There are as many candidates from a directory as edges at most.
LEMMA CandidatesCounted ==
    ASSUME NEW w, NEW nd, EdgesStand(w, nd, edges), NEW A, NEW g, g \notin A, NEW path
    PROVE  /\ IsFiniteSet(EdgesOf(g, path)) /\ IsFiniteSet(Used(A))
           /\ Cardinality(Used(A \cup {g})) >= Cardinality(Used(A)) + Cardinality(EdgesOf(g, path))
<1> DEFINE from == {x \in edges : x.from = g}
           of(e) == [path |-> Append(path, e.name), name |-> e.name, parent |-> g, group |-> e.to]
<1>1. EdgesOf(g, path) = {of(e) : e \in from}
  BY DEF EdgesOf
<1>2. IsFiniteSet(from) /\ IsFiniteSet(Used(A))
  BY FS_Subset DEF EdgesStand, Used
<1>3. IsFiniteSet(EdgesOf(g, path)) /\ Cardinality(EdgesOf(g, path)) <= Cardinality(from)
  <2>1. [e \in from |-> of(e)] \in Surjection(from, EdgesOf(g, path))
    BY <1>1 DEF Surjection
  <2> QED
    BY <1>2, <2>1, FS_Surjection
<1>4. Used(A \cup {g}) = Used(A) \cup from /\ Used(A) \cap from = {}
  BY DEF Used
<1>5. Cardinality(Used(A) \cup from) = Cardinality(Used(A)) + Cardinality(from)
  <2> HIDE DEF from
  <2>1. Cardinality(Used(A) \cup from) = Cardinality(Used(A)) + Cardinality(from)
                                          - Cardinality(Used(A) \cap from)
    BY <1>2, FS_Union
  <2>2. Cardinality(Used(A)) \in Nat /\ Cardinality(from) \in Nat /\ Cardinality({}) = 0
    BY <1>2, FS_CardinalityType, FS_EmptySet
  <2>3. Cardinality(Used(A) \cap from) = 0
    BY ONLY <1>4, <2>2
  <2> QED
    BY ONLY <2>1, <2>2, <2>3
<1>6. Cardinality(Used(A)) \in Nat /\ Cardinality(from) \in Nat
      /\ Cardinality(EdgesOf(g, path)) \in Nat
  BY <1>2, <1>3, FS_CardinalityType
<1> HIDE DEF from
<1>7. Cardinality(Used(A \cup {g})) = Cardinality(Used(A)) + Cardinality(from)
  BY ONLY <1>4, <1>5
<1> QED
  BY ONLY <1>2, <1>3, <1>6, <1>7

\* The candidate with the smallest path gets its place.
LEMMA AssignedWell ==
    ASSUME NEW w \in Worlds, EdgesStand(w, node, edges), NEW k \in Nat, NEW s, SettlesWell(w, s, k),
           NEW c \in s.frontier, \A o \in s.frontier : o = c \/ PathLess(c.path, o.path),
           c.group \notin s.assigned, s.tree[c.group].live,
           NEW to, TreeStands(w, to), OnlyPlaces(node, to),
           to[c.group].parent = c.parent, to[c.group].name = c.name,
           \A d \in Dirs \ {c.group} : to[d].parent = s.tree[d].parent /\ to[d].name = s.tree[d].name
    PROVE  SettlesWell(w, Assigned(s, c, to), k + 1)
<1> DEFINE g == c.group
           new == EdgesOf(g, c.path)
           t == Assigned(s, c, to)
           rest == s.frontier \ {c}
           A == s.assigned
           Was(d) == PathIn(s.tree, d)
           Now(d) == PathIn(to, d)
<1>1. StillSettling(w, node, s) /\ ~s.failed /\ TakenInTurn(w, s) /\ InTime(s, k)
  BY DEF SettlesWell
<1>2. /\ Leads(w, s.tree, c) /\ g \in Dirs /\ A \subseteq Dirs /\ w.root \in A
      /\ TreeStands(w, s.tree) /\ OnlyPlaces(node, s.tree) /\ IsFiniteSet(s.frontier)
  BY <1>1 DEF StillSettling, Leads, Enters
<1>3. StillSettling(w, node, t)
  BY <1>1, AssignedSettles
<1>4. t.frontier = rest \cup new /\ t.assigned = A \cup {g} /\ t.tree = to /\ ~t.failed
  <2>1. s = [frontier |-> s.frontier, assigned |-> s.assigned, tree |-> s.tree,
             failed |-> s.failed]
    BY <1>1 DEF StillSettling
  <2>2. t = [s EXCEPT !.frontier = (s.frontier \ {c}) \cup new,
                      !.assigned = s.assigned \cup {g}, !.tree = to]
    BY DEF Assigned
  <2> HIDE DEF t, new, g
  <2> QED
    BY ONLY <1>1, <2>1, <2>2 DEF rest
<1>5. /\ c.parent \in A /\ c.path = Append(Was(c.parent), c.name) /\ c.parent \in Dirs
      /\ [from |-> c.parent, name |-> c.name, to |-> g] \in edges
      /\ c.name \in Int /\ c.parent # g
  <2>1. c.name \in Names(w, c.parent)
    BY <1>2 DEF Leads
  <2>2. c.name \in Int
    BY <1>2, <2>1, ScanAssumption DEF Leads, Names
  <2> QED
    BY <1>1, <1>2, <2>2 DEF TakenInTurn
<1>6. /\ Parented(s.tree) /\ Grounded(s.tree) /\ Named(s.tree)
      /\ \A d \in Dirs : Was(d) \in Seq(Int)
      /\ Parented(to) /\ Grounded(to) /\ Named(to)
      /\ \A d \in Dirs : Now(d) \in Seq(Int)
  BY <1>2, TreePaths
<1>7. \A d \in A : Now(d) = Was(d)
  <2>1. \A d \in A : /\ to[d].parent = s.tree[d].parent /\ to[d].name = s.tree[d].name
                     /\ s.tree[d].parent \in A \cup {NoDir}
    BY <1>1, <1>2 DEF TakenInTurn
  <2> PICK had : had = s.tree
    OBVIOUS
  <2>2. /\ Parented(had) /\ Grounded(had) /\ Named(had)
        /\ Parented(to) /\ Grounded(to) /\ Named(to) /\ A \in SUBSET Dirs
        /\ \A d \in A : /\ to[d].parent = had[d].parent /\ to[d].name = had[d].name
                       /\ had[d].parent \in A \cup {NoDir}
    BY <1>2, <1>6, <2>1
  <2> HIDE DEF A
  <2>3. \A d \in A : PathIn(to, d) = PathIn(had, d)
    BY ONLY <2>2, PathsSame
  <2> QED
    BY <2>3
<1>8. Now(g) = c.path /\ c.path \in Seq(Int)
  <2>1. Now(g) = IF to[g].parent = NoDir THEN <<>> ELSE Append(Now(to[g].parent), to[g].name)
    BY <1>2, <1>6, PathIs
  <2>2. c.parent # NoDir
    BY <1>5, ScanAssumption
  <2>3. Now(g) = Append(Now(c.parent), c.name)
    BY <2>1, <2>2
  <2>4. Now(g) = c.path
    BY <1>5, <1>7, <2>3
  <2> QED
    BY <1>2, <1>6, <2>4
<1>9. /\ \A x \in new : /\ Leads(w, to, x) /\ x.parent = g /\ x.path = Append(c.path, x.name)
                        /\ [from |-> g, name |-> x.name, to |-> x.group] \in edges
      /\ \A e \in edges : e.from = g =>
            \E x \in new : x.parent = g /\ x.name = e.name /\ x.group = e.to
  <2>1. \A x \in new : Leads(w, to, x) /\ x.parent = g /\ x.path = Append(c.path, x.name)
    BY <1>2, EdgesLead
  <2>2. \A x \in new : \E e \in edges : e.from = g /\ x.name = e.name /\ x.group = e.to
    BY DEF EdgesOf
  <2>3. \A e \in edges : e = [from |-> e.from, name |-> e.name, to |-> e.to]
    BY DEF EdgesStand, EdgeRecord
  <2>4. \A x \in new : [from |-> g, name |-> x.name, to |-> x.group] \in edges
    <3> HIDE DEF g, new
    <3> QED
      BY ONLY <2>2, <2>3
  <2>5. \A e \in edges : e.from = g =>
            \E x \in new : x.parent = g /\ x.name = e.name /\ x.group = e.to
    <3> SUFFICES ASSUME NEW e \in edges, e.from = g
                 PROVE  \E x \in new : x.parent = g /\ x.name = e.name /\ x.group = e.to
      OBVIOUS
    <3>1. PICK x : x = [path |-> Append(c.path, e.name), name |-> e.name, parent |-> g, group |-> e.to]
      OBVIOUS
    <3>2. x \in new
      BY <3>1 DEF EdgesOf
    <3> QED
      BY ONLY <3>1, <3>2
  <2> QED
    BY <2>1, <2>4, <2>5
<1>10. \A d \in Dirs : to[d].live = s.tree[d].live
  BY <1>2 DEF OnlyPlaces
<1>11. \A e \in edges : /\ e.from \in Dirs /\ e.to \in Dirs /\ e.name \in Int
                        /\ e = [from |-> e.from, name |-> e.name, to |-> e.to]
  <2>1. \A d \in Dirs : Names(w, d) \subseteq Int
    BY ScanAssumption DEF Names
  <2> QED
    BY <2>1 DEF EdgesStand, Enters, EdgeRecord
<1> HIDE DEF new, rest, t, Was, Now
<1> PICK had : had = s.tree
  OBVIOUS
<1>12. \A x \in new : /\ x.path \in Seq(Int) /\ ~PathLess(x.path, c.path)
                      /\ \A q \in Seq(Int) : PathLess(x.path, q) => PathLess(c.path, q)
  <2> SUFFICES ASSUME NEW x \in new
               PROVE  /\ x.path \in Seq(Int) /\ ~PathLess(x.path, c.path)
                      /\ \A q \in Seq(Int) : PathLess(x.path, q) => PathLess(c.path, q)
    OBVIOUS
  <2>1. x.path = Appended(c.path, x.name)
    BY <1>9 DEF Appended
  <2>2. x.name \in Int
    BY <1>9, <1>11
  <2> QED
    BY ONLY <1>8, <2>1, <2>2, LessAppended
<1>13. \A d \in A \cup {g} : to[d].parent \in (A \cup {g}) \cup {NoDir}
  BY <1>1, <1>2, <1>5 DEF TakenInTurn
<1>14. \A x \in rest : /\ x.parent \in A /\ x.path = Append(Now(x.parent), x.name)
                       /\ [from |-> x.parent, name |-> x.name, to |-> x.group] \in edges
  BY <1>1, <1>7 DEF TakenInTurn, rest, Was
<1>15. \A e \in edges : e.from \in A \cup {g} =>
          \/ e.to \in A \cup {g}
          \/ \E x \in rest \cup new : x.parent = e.from /\ x.name = e.name /\ x.group = e.to
  <2>1. \A e \in edges : e.from \in A =>
          \/ e.to \in A
          \/ \E x \in s.frontier : x.parent = e.from /\ x.name = e.name /\ x.group = e.to
    BY <1>1 DEF TakenInTurn
  <2> QED
    BY ONLY <1>9, <2>1, s.frontier = s.frontier DEF rest
<1>16. \A e \in edges : e.from \in A \cup {g} /\ e.to \in A \cup {g} /\ to[e.to].live =>
          ~PathLess(Appended(Now(e.from), e.name), Now(e.to))
  <2> SUFFICES ASSUME NEW e \in edges, e.from \in A \cup {g}, e.to \in A \cup {g}, to[e.to].live
               PROVE  ~PathLess(Appended(Now(e.from), e.name), Now(e.to))
    OBVIOUS
  <2>1. CASE e.from = g
    <3>1. PICK x \in new : x.name = e.name
      BY <1>9, <2>1
    <3>2. x.path = Appended(Now(e.from), e.name)
      <4>1. x.path = Append(c.path, e.name)
        BY ONLY <1>9, <3>1
      <4>2. Now(e.from) = c.path
        BY ONLY <1>8, <2>1
      <4> QED
        BY ONLY <4>1, <4>2 DEF Appended
    <3>3. ~PathLess(x.path, Now(e.to))
      <4>1. CASE e.to = g
        BY <1>8, <1>12, <4>1
      <4>2. CASE e.to \in A
        <5>1. ~PathLess(c.path, Was(e.to)) /\ Was(e.to) \in Seq(Int) /\ Now(e.to) = Was(e.to)
          BY <1>1, <1>2, <1>6, <1>7, <1>10, <4>2 DEF TakenInTurn, Was
        <5> QED
          BY <1>12, <5>1
      <4> QED
        BY <4>1, <4>2
    <3> QED
      BY <3>2, <3>3
  <2>2. CASE e.from \in A /\ e.to \in A
    <3>1. ~PathLess(Appended(Was(e.from), e.name), Was(e.to))
      BY <1>1, <1>2, <1>10, <2>2 DEF TakenInTurn, Was
    <3> QED
      BY <1>7, <2>2, <3>1
  <2>3. CASE e.from \in A /\ e.to = g
    <3>1. PICK o \in s.frontier : o.parent = e.from /\ o.name = e.name /\ o.group = e.to
      BY <1>1, <2>3 DEF TakenInTurn
    <3>2. o.path = Appended(Now(e.from), e.name) /\ o.path \in Seq(Int)
      <4>1. o.path = Append(Was(e.from), e.name)
        BY <1>1, <3>1 DEF TakenInTurn, Was
      <4>2. Appended(Was(e.from), e.name) \in Seq(Int)
        BY <1>2, <1>6, <1>11, <2>3, LessAppended
      <4> QED
        BY <1>7, <2>3, <4>1, <4>2 DEF Appended
    <3>3. ~PathLess(o.path, c.path)
      BY <1>8, <3>2, LessIsStrict, LessThrough
    <3> QED
      BY <1>8, <2>3, <3>2, <3>3
  <2> QED
    BY <2>1, <2>2, <2>3
<1>17. \A d \in A \cup {g} : \A x \in rest \cup new : to[d].live => ~PathLess(x.path, Now(d))
  <2> SUFFICES ASSUME NEW d \in A \cup {g}, NEW x \in rest \cup new, to[d].live
               PROVE  ~PathLess(x.path, Now(d))
    OBVIOUS
  <2>1. CASE d = g /\ x \in new
    BY <1>8, <1>12, <2>1
  <2>2. CASE d = g /\ x \in rest
    <3>1. PathLess(c.path, x.path)
      BY <2>2 DEF rest
    <3>2. x.path \in Seq(Int)
      <4>1. x.path = Appended(Now(x.parent), x.name) /\ x.parent \in Dirs
        BY <1>2, <1>14, <2>2 DEF Appended
      <4>2. x.name \in Int
        BY <1>11, <1>14, <2>2
      <4>3. Now(x.parent) \in Seq(Int)
        BY ONLY <1>6, <4>1
      <4>4. Appended(Now(x.parent), x.name) \in Seq(Int)
        BY ONLY <4>2, <4>3, LessAppended
      <4> QED
        BY ONLY <4>1, <4>4
    <3> QED
      BY <1>8, <2>2, <3>1, <3>2, LessIsStrict, LessThrough
  <2>3. CASE d \in A /\ x \in new
    <3>1. ~PathLess(c.path, Was(d)) /\ Was(d) \in Seq(Int) /\ Now(d) = Was(d)
      BY <1>1, <1>2, <1>6, <1>7, <1>10, <2>3 DEF TakenInTurn, Was
    <3> QED
      BY <1>12, <2>3, <3>1
  <2>4. CASE d \in A /\ x \in rest
    <3>1. ~PathLess(x.path, Was(d)) /\ Now(d) = Was(d)
      BY <1>1, <1>2, <1>7, <1>10, <2>4 DEF TakenInTurn, Was, rest
    <3> QED
      BY <3>1
  <2> QED
    BY <2>1, <2>2, <2>3, <2>4
<1>18. PlacedByEdges(w, to)
  BY <1>1, <1>5, <1>10 DEF TakenInTurn, PlacedByEdges
<1>19. \A x \in new : x.parent \in A \cup {g} /\ x.path = Append(Now(x.parent), x.name)
  <2> HIDE DEF g
  <2>1. \A x \in new : x.parent = g /\ x.path = Append(c.path, x.name)
    BY <1>9
  <2>2. g \in A \cup {g}
    OBVIOUS
  <2> HIDE DEF A
  <2>3. ASSUME NEW x \in new
        PROVE  x.path = Append(Now(x.parent), x.name)
    <3>1. x.path = Append(c.path, x.name) /\ Now(x.parent) = c.path
      BY ONLY <1>8, <2>1
    <3> QED
      BY ONLY <3>1
  <2> QED
    BY ONLY <2>1, <2>2, <2>3
<1>20. TakenInTurn(w, t)
  <2>1. \A x \in rest \cup new : /\ x.parent \in A \cup {g}
                                 /\ x.path = Append(PathIn(to, x.parent), x.name)
                                 /\ [from |-> x.parent, name |-> x.name, to |-> x.group] \in edges
    BY <1>9, <1>14, <1>19 DEF Now
  <2> QED
    BY ONLY <1>4, <1>13, <1>15, <1>16, <1>17, <1>18, <2>1 DEF TakenInTurn, Now
<1>21. InTime(t, k + 1)
  <2>1. /\ IsFiniteSet(new) /\ IsFiniteSet(Used(A))
        /\ Cardinality(Used(A \cup {g})) >= Cardinality(Used(A)) + Cardinality(new)
    BY CandidatesCounted DEF new
  <2>2. k + Cardinality(s.frontier) <= Cardinality(Used(A))
    BY <1>1 DEF InTime
  <2>3. IsFiniteSet(rest) /\ Cardinality(rest) = Cardinality(s.frontier) - 1
    BY <1>2, FS_RemoveElement DEF rest
  <2>4. IsFiniteSet(rest \cup new)
        /\ Cardinality(rest \cup new) = Cardinality(rest) + Cardinality(new)
                                         - Cardinality(rest \cap new)
    BY <2>1, <2>3, FS_Union
  <2>5. /\ Cardinality(rest) \in Nat /\ Cardinality(new) \in Nat /\ Cardinality(s.frontier) \in Nat
        /\ Cardinality(rest \cap new) \in Nat /\ Cardinality(Used(A)) \in Nat
    <3>1. IsFiniteSet(rest \cap new)
      BY <2>1, FS_Intersection
    <3> QED
      BY <1>2, <2>1, <2>3, <3>1, FS_CardinalityType
  <2>6. IsFiniteSet(Used(A \cup {g}))
    BY FS_Subset DEF Used, EdgesStand
  <2>7. Cardinality(Used(A \cup {g})) \in Nat
    BY <2>6, FS_CardinalityType
  <2>8. (k + 1) + Cardinality(rest \cup new) <= Cardinality(Used(A \cup {g}))
    BY ONLY <2>1, <2>2, <2>3, <2>4, <2>5, <2>7, k \in Nat
  <2> QED
    BY ONLY <1>4, <2>8 DEF InTime
<1>22. SettlesWell(w, t, k + 1)
  BY ONLY <1>3, <1>4, <1>20, <1>21 DEF SettlesWell
<1> QED
  BY <1>22 DEF t

\* A candidate that leads to what has its place, or is not in the had, is done
\* with.
LEMMA PassedWell ==
    ASSUME NEW w \in Worlds, EdgesStand(w, node, edges), NEW k \in Nat, NEW s, SettlesWell(w, s, k),
           NEW c \in s.frontier, NEW t, StillSettling(w, node, t),
           t.frontier = s.frontier \ {c}, t.tree = s.tree, ~t.failed,
           t.assigned = s.assigned \cup {c.group},
           c.group \in s.assigned \/ ~s.tree[c.group].live
    PROVE  SettlesWell(w, t, k + 1)
<1> DEFINE A == s.assigned
           B == s.assigned \cup {c.group}
           rest == s.frontier \ {c}
<1>1. StillSettling(w, node, s) /\ ~s.failed /\ TakenInTurn(w, s) /\ InTime(s, k)
  BY DEF SettlesWell
<1>2. /\ Leads(w, s.tree, c) /\ c.group \in Dirs /\ A \subseteq Dirs
      /\ TreeStands(w, s.tree) /\ OnlyPlaces(node, s.tree) /\ IsFiniteSet(s.frontier)
  BY <1>1 DEF StillSettling, Leads, Enters
<1>3. ~s.tree[c.group].live => s.tree[c.group].parent = NoDir
  BY <1>2 DEF TreeStands, Tree
<1>4. \A e \in edges : s.tree[e.from].live
  BY <1>2 DEF EdgesStand, OnlyPlaces
<1>5. TakenInTurn(w, t)
  <2>1. \A d \in B : s.tree[d].parent \in B \cup {NoDir}
    BY <1>1, <1>3 DEF TakenInTurn
  <2>2. \A x \in rest : /\ x.parent \in B
                        /\ x.path = Append(PathIn(s.tree, x.parent), x.name)
                        /\ [from |-> x.parent, name |-> x.name, to |-> x.group] \in edges
    BY <1>1 DEF TakenInTurn
  <2>3. \A e \in edges : e.from \in B => e.from \in A
    BY <1>4
  <2>4. \A e \in edges : e.from \in B =>
          \/ e.to \in B
          \/ \E x \in rest : x.parent = e.from /\ x.name = e.name /\ x.group = e.to
    BY <1>1, <2>3 DEF TakenInTurn
  <2>5. \A e \in edges : e.from \in B /\ e.to \in B /\ s.tree[e.to].live =>
          ~PathLess(Appended(PathIn(s.tree, e.from), e.name), PathIn(s.tree, e.to))
    BY <1>1, <2>3 DEF TakenInTurn
  <2>6. \A d \in B : \A x \in rest : s.tree[d].live => ~PathLess(x.path, PathIn(s.tree, d))
    BY <1>1 DEF TakenInTurn
  <2>7. PlacedByEdges(w, s.tree)
    BY <1>1 DEF TakenInTurn
  <2> HIDE DEF A, B, rest
  <2>8. t.assigned = B /\ t.frontier = rest /\ t.tree = s.tree
    BY DEF B, rest
  <2> QED
    BY ONLY <2>1, <2>2, <2>4, <2>5, <2>6, <2>7, <2>8 DEF TakenInTurn
<1>6. InTime(t, k + 1)
  <2>1. k + Cardinality(s.frontier) <= Cardinality(Used(A))
    BY <1>1 DEF InTime
  <2>2. Cardinality(rest) = Cardinality(s.frontier) - 1 /\ Cardinality(s.frontier) \in Nat
    BY <1>2, FS_RemoveElement, FS_CardinalityType
  <2>3. Used(B) = Used(A)
    BY <1>4 DEF Used
  <2>4. IsFiniteSet(Used(A))
    BY FS_Subset DEF Used, EdgesStand
  <2>5. Cardinality(Used(A)) \in Nat
    BY <2>4, FS_CardinalityType
  <2> HIDE DEF A, B, rest
  <2>6. (k + 1) + Cardinality(rest) <= Cardinality(Used(A))
    BY ONLY <2>1, <2>2, <2>5, k \in Nat
  <2>7. t.assigned = B /\ t.frontier = rest
    BY DEF B, rest
  <2> QED
    BY ONLY <2>3, <2>6, <2>7 DEF InTime
<1> QED
  BY ONLY <1>5, <1>6, StillSettling(w, node, t), ~t.failed DEF SettlesWell

\* The move that a candidate asks for is never below itself.
LEMMA MovesGo ==
    ASSUME NEW w \in Worlds, NEW k, NEW s, SettlesWell(w, s, k), NEW c \in s.frontier,
           c.group \notin s.assigned, s.tree[c.group].live
    PROVE  CanMove(s.tree, c.group, c.parent)
<1> DEFINE A == s.assigned
           F == {d \in Dirs : d \in A => Upwards(s.tree, d) \subseteq A}
<1>1. /\ StillSettling(w, node, s) /\ TakenInTurn(w, s)
  BY DEF SettlesWell
<1>2. /\ Leads(w, s.tree, c) /\ c.group \in Dirs /\ w.root \in A /\ TreeStands(w, s.tree)
  BY <1>1 DEF StillSettling, Leads, Enters
<1>3. Parented(s.tree) /\ Grounded(s.tree)
  BY <1>2, TreePaths
<1>4. ASSUME NEW d \in Dirs, s.tree[d].parent \in F \cup {NoDir}
      PROVE  d \in F
  <2> SUFFICES ASSUME d \in A PROVE Upwards(s.tree, d) \subseteq A
    OBVIOUS
  <2>1. s.tree[d].parent \in A \cup {NoDir}
    BY <1>1 DEF TakenInTurn
  <2>2. Above(s.tree, d) = IF s.tree[d].parent = NoDir THEN {}
                           ELSE {s.tree[d].parent} \cup Above(s.tree, s.tree[d].parent)
    BY <1>3, AboveIs
  <2>3. s.tree[d].parent # NoDir => Upwards(s.tree, s.tree[d].parent) \subseteq A
    BY <1>4, <2>1
  <2> QED
    BY <2>2, <2>3 DEF Upwards
<1>5. Dirs \subseteq F
  <2> HIDE DEF F
  <2> QED
    BY <1>3, <1>4, Descent
<1>6. c.parent \in A /\ c.parent \in Dirs
  BY <1>1, <1>2 DEF TakenInTurn, Leads
<1>7. c.group \notin Upwards(s.tree, c.parent)
  BY <1>5, <1>6
<1>8. s.tree[c.group].parent # NoDir
  <2>1. c.group # w.root
    BY <1>2
  <2> QED
    BY <1>2, <2>1, ScanAssumption DEF TreeStands
<1> QED
  BY <1>7, <1>8 DEF CanMove

\* Each turn does well.
LEMMA NextWell ==
    ASSUME NEW w \in Worlds, EdgesStand(w, node, edges), NEW k \in Nat, NEW s, SettlesWell(w, s, k)
    PROVE  SettlesWell(w, NextOwner(s), k + 1)
<1> DEFINE c == CHOOSE x \in s.frontier : \A o \in s.frontier :
                    o = x \/ PathLess(x.path, o.path)
           g == c.group
<1>1. /\ s = [frontier |-> s.frontier, assigned |-> s.assigned, tree |-> s.tree,
              failed |-> s.failed]
      /\ StillSettling(w, node, s) /\ ~s.failed /\ InTime(s, k) /\ TakenInTurn(w, s)
      /\ TreeStands(w, s.tree) /\ OnlyPlaces(node, s.tree) /\ s.assigned \subseteq Dirs
      /\ \A x \in s.frontier : Leads(w, s.tree, x)
  BY DEF SettlesWell, StillSettling
<1>2. CASE s.frontier = {}
  <2>1. NextOwner(s) = s
    BY <1>2 DEF NextOwner
  <2>2. InTime(s, k + 1)
    BY <1>2 DEF InTime
  <2> QED
    BY <1>1, <2>1, <2>2 DEF SettlesWell
<1>3. CASE s.frontier # {}
  <2>1. c \in s.frontier /\ \A o \in s.frontier : o = c \/ PathLess(c.path, o.path)
    BY <1>1, <1>3, SmallestCandidate
  <2>2. NextOwner(s) = Visited(s, c)
    BY <1>1, <1>3 DEF NextOwner
  <2> HIDE DEF c
  <2> DEFINE t == Visited(s, c)
             rest == s.frontier \ {c}
  <2>3. StillSettling(w, node, t)
    BY <1>1, <2>1, VisitedSettles
  <2>4. Leads(w, s.tree, c) /\ g \in Dirs
    BY <1>1, <2>1 DEF Leads, Enters
  <2>5. CASE g \in s.assigned
    <3>1. t = [s EXCEPT !.frontier = rest]
      BY <2>5 DEF Visited
    <3>2. t.frontier = rest /\ t.assigned = s.assigned /\ t.tree = s.tree /\ ~t.failed
      <4> HIDE DEF rest, t
      <4> QED
        BY ONLY <1>1, <3>1
    <3>3. t.assigned = s.assigned \cup {c.group}
      BY <2>5, <3>2
    <3> HIDE DEF t
    <3> QED
      BY <2>1, <2>2, <2>3, <2>5, <3>2, <3>3, PassedWell DEF t
  <2>6. CASE g \notin s.assigned /\ ~s.tree[g].live
    <3>1. t = [s EXCEPT !.frontier = rest, !.assigned = s.assigned \cup {g}]
      BY <2>6 DEF Visited
    <3>2. t.frontier = rest /\ t.assigned = s.assigned \cup {g} /\ t.tree = s.tree /\ ~t.failed
      <4> HIDE DEF rest, t, g
      <4> QED
        BY ONLY <1>1, <3>1
    <3> HIDE DEF t
    <3> QED
      BY <2>1, <2>2, <2>3, <2>6, <3>2, PassedWell DEF t
  <2>7. CASE g \notin s.assigned /\ s.tree[g].live
    <3>1. CanMove(s.tree, g, c.parent)
      BY <2>1, <2>7, MovesGo
    <3>2. CASE s.tree[g].parent = c.parent /\ s.tree[g].name = c.name
      <4>1. t = Assigned(s, c, s.tree)
        BY <2>7, <3>2 DEF Visited
      <4>2. SettlesWell(w, Assigned(s, c, s.tree), k + 1)
        BY <1>1, <2>1, <2>7, <3>2, AssignedWell
      <4> QED
        BY <2>2, <4>1, <4>2
    <3>3. CASE ~(s.tree[g].parent = c.parent /\ s.tree[g].name = c.name)
      <4> DEFINE to == [s.tree EXCEPT ![c.group].parent = c.parent, ![c.group].name = c.name]
      <4>1. t = Assigned(s, c, to)
        BY <2>7, <3>1, <3>3 DEF Visited
      <4>2. TreeStands(w, to) /\ OnlyPlaces(node, to)
        <5>1. s.tree[g].parent # NoDir /\ g \notin Upwards(s.tree, c.parent)
          BY <3>1 DEF CanMove
        <5> QED
          BY <1>1, <2>4, <2>7, <5>1, MoveStands
      <4>3. /\ to[c.group].parent = c.parent /\ to[c.group].name = c.name
            /\ \A d \in Dirs \ {c.group} : /\ to[d].parent = s.tree[d].parent
                                           /\ to[d].name = s.tree[d].name
        <5>1. s.tree = [d \in Dirs |-> s.tree[d]] /\ s.tree[g] = NodeRecord(s.tree[g])
          BY <1>1, <2>4 DEF TreeStands
        <5>2. to[g] = [s.tree[g] EXCEPT !.parent = c.parent, !.name = c.name]
          BY <2>4, <5>1
        <5>3. to[g].parent = c.parent /\ to[g].name = c.name
          <6> HIDE DEF to, g
          <6> QED
            BY ONLY <5>1, <5>2 DEF NodeRecord
        <5>4. \A d \in Dirs \ {g} : to[d] = s.tree[d]
          BY <5>1
        <5> HIDE DEF to
        <5> QED
          BY <5>3, <5>4
      <4> HIDE DEF to
      <4>4. SettlesWell(w, Assigned(s, c, to), k + 1)
        BY <2>1, <2>7, <4>2, <4>3, AssignedWell
      <4> QED
        BY <2>2, <4>1, <4>4
    <3> QED
      BY <3>2, <3>3
  <2> QED
    BY <2>5, <2>6, <2>7
<1> QED
  BY <1>2, <1>3

\* When nothing is left to consider every directory has its place.
LEMMA AllAssigned ==
    ASSUME NEW w \in Worlds, NEW s, StillSettling(w, node, s), TakenInTurn(w, s),
           s.frontier = {}
    PROVE  \A d \in Dirs : s.tree[d].live => d \in s.assigned
<1> DEFINE F == {d \in Dirs : s.tree[d].live => d \in s.assigned}
<1>1. TreeStands(w, s.tree) /\ w.root \in s.assigned
  BY DEF StillSettling
<1>2. Grounded(s.tree)
  BY <1>1, TreePaths
<1>3. ASSUME NEW d \in Dirs, s.tree[d].parent \in F \cup {NoDir}
      PROVE  d \in F
  <2> SUFFICES ASSUME s.tree[d].live, d # w.root PROVE d \in s.assigned
    BY <1>1
  <2>1. PICK e : e = [from |-> s.tree[d].parent, name |-> s.tree[d].name, to |-> d]
    OBVIOUS
  <2>2. e \in edges
    BY <2>1 DEF TakenInTurn, PlacedByEdges
  <2>3. s.tree[d].parent \in Dirs /\ s.tree[s.tree[d].parent].live
    BY <1>1, ScanAssumption DEF TreeStands, Tree
  <2>4. s.tree[d].parent \in s.assigned
    BY <1>3, <2>3, ScanAssumption
  <2>5. e.from \in s.assigned /\ e.to = d
    BY <2>1, <2>4
  <2> QED
    BY <2>2, <2>5 DEF TakenInTurn
<1>4. Dirs \subseteq F
  <2> HIDE DEF F
  <2> QED
    BY <1>2, <1>3, Descent
<1> QED
  BY <1>4

\* Settling the owners does not fail, and no edge leads anywhere on a smaller
\* path than what it leads to has in the end.
LEMMA CanonicalWell ==
    ASSUME world \in Worlds, TreeStands(world, node), EdgesStand(world, node, edges),
           PlacedByEdges(world, node)
    PROVE  /\ Canonical.failed = FALSE /\ PlacedByEdges(world, Canonical.tree)
           /\ \A e \in edges : node[e.to].live =>
                ~PathLess(Appended(PathIn(Canonical.tree, e.from), e.name),
                          PathIn(Canonical.tree, e.to))
<1> DEFINE N == Cardinality(edges)
           it == CHOOSE f : IsInTurnOwners(f, N)
<1>1. N \in Nat /\ IsFiniteSet(edges)
  BY FS_CardinalityType DEF EdgesStand
<1>2. IsInTurnOwners(it, N)
  BY <1>1, TurnsExist
<1>3. OwnersInTurn = it
  BY DEF OwnersInTurn, IsInTurnOwners, AtTheRoot
<1> HIDE DEF it
<1>4. \A k \in 0..N : it[k] = IF k = 0 THEN AtTheRoot ELSE NextOwner(it[k - 1])
  BY <1>2 DEF IsInTurnOwners
<1> DEFINE G == {k \in Nat : k <= N => SettlesWell(world, it[k], k)}
<1>5. world.root \in Dirs /\ node[world.root].live /\ node[world.root].parent = NoDir
      /\ OnlyPlaces(node, node)
  BY ScanAssumption DEF TreeStands, OnlyPlaces
<1>6. SettlesWell(world, AtTheRoot, 0)
  <2> DEFINE P == [d \in Dirs |-> <<>>]
             s == AtTheRoot
             start == EdgesOf(world.root, <<>>)
  <2>1. s = [frontier |-> start, assigned |-> {world.root}, tree |-> node, failed |-> FALSE]
    BY DEF AtTheRoot, Root
  <2>2. IsFiniteSet(start) /\ \A c \in start : /\ Leads(world, node, c)
                                              /\ c.parent = world.root
                                              /\ c.path = Append(<<>>, c.name)
    BY <1>5, EdgesLead
  <2>a. \A c \in start : \E e \in edges : e.from = world.root /\ c.name = e.name /\ c.group = e.to
    BY DEF EdgesOf
  <2>b. \A e \in edges : e.from = world.root =>
            \E c \in start : c.parent = world.root /\ c.name = e.name /\ c.group = e.to
    <3> SUFFICES ASSUME NEW e \in edges, e.from = world.root
                 PROVE  \E c \in start : c.parent = world.root /\ c.name = e.name /\ c.group = e.to
      OBVIOUS
    <3>1. PICK c : c = [path |-> Append(<<>>, e.name), name |-> e.name, parent |-> world.root,
                        group |-> e.to]
      OBVIOUS
    <3>2. c \in start
      BY <3>1 DEF EdgesOf
    <3> QED
      BY ONLY <3>1, <3>2
  <2>c. Cardinality(Used({world.root})) >= Cardinality(Used({})) + Cardinality(start)
        /\ IsFiniteSet(Used({}))
    <3>1. world.root \notin {} /\ {} \cup {world.root} = {world.root}
      OBVIOUS
    <3>2. /\ Cardinality(Used({} \cup {world.root})) >= Cardinality(Used({})) + Cardinality(start)
          /\ IsFiniteSet(Used({}))
      <4> HIDE DEF Used
      <4> QED
        BY ONLY <3>1, EdgesStand(world, node, edges), CandidatesCounted
    <3> QED
      BY <3>1, <3>2
  <2>d. IsFiniteSet(Used({world.root}))
    BY <1>1, FS_Subset DEF Used
  <2> HIDE DEF start
  <2>3. PathsLead(world, node, start, {world.root}, P)
    <3>1. P[world.root] = <<>> /\ <<>> \in Seq(Int)
      BY <1>5
    <3> HIDE DEF P
    <3> QED
      BY <2>2, <3>1 DEF PathsLead
  <2> HIDE DEF s, P
  <2>4. /\ s.frontier = start /\ s.assigned = {world.root} /\ s.tree = node /\ ~s.failed
        /\ s = [frontier |-> s.frontier, assigned |-> s.assigned, tree |-> s.tree,
                failed |-> s.failed]
    BY ONLY <2>1
  <2>5. \E Q : PathsLead(world, node, start, {world.root}, Q)
    BY <2>3
  <2>6. StillSettling(world, node, s)
    BY ONLY <1>5, <2>2, <2>4, <2>5, TreeStands(world, node) DEF StillSettling
  <2>7. PathIn(node, world.root) = <<>> /\ <<>> \in Seq(Int)
    BY <1>5, TreePaths, PathIs
  <2>8. \A e \in edges : /\ e = [from |-> e.from, name |-> e.name, to |-> e.to] /\ e.name \in Int
    <3>1. \A d \in Dirs : Names(world, d) \subseteq Int
      BY ScanAssumption DEF Names
    <3> QED
      BY <3>1 DEF EdgesStand, EdgeRecord
  <2>9. \A e \in edges : e.from = world.root => ~PathLess(Appended(<<>>, e.name), <<>>)
    BY <2>7, <2>8, LessAppended
  <2>10. \A c \in start : ~PathLess(c.path, <<>>)
    BY <2>2, <2>9, <2>a DEF Appended
  <2>11. \A c \in start : [from |-> c.parent, name |-> c.name, to |-> c.group] \in edges
    BY ONLY <2>2, <2>8, <2>a
  <2>12. TakenInTurn(world, s)
    BY ONLY <1>5, <2>2, <2>4, <2>7, <2>9, <2>10, <2>11, <2>b, PlacedByEdges(world, node)
       DEF TakenInTurn
  <2>13. InTime(s, 0)
    <3>1. Cardinality(Used({})) \in Nat /\ Cardinality(start) \in Nat
          /\ Cardinality(Used({world.root})) \in Nat
      BY <2>2, <2>c, <2>d, FS_CardinalityType
    <3>2. 0 + Cardinality(start) <= Cardinality(Used({world.root}))
      BY ONLY <2>c, <3>1
    <3> QED
      BY ONLY <2>4, <3>2 DEF InTime
  <2>14. SettlesWell(world, s, 0)
    BY ONLY <2>4, <2>6, <2>12, <2>13 DEF SettlesWell
  <2> QED
    BY <2>14 DEF s
<1>7. 0 \in G
  BY <1>1, <1>4, <1>6
<1>8. ASSUME NEW k \in Nat, k \in G
      PROVE  k + 1 \in G
  <2> SUFFICES ASSUME k + 1 <= N PROVE SettlesWell(world, it[k + 1], k + 1)
    OBVIOUS
  <2>1. SettlesWell(world, it[k], k)
    BY <1>1, <1>8
  <2>2. k + 1 \in 0..N /\ k + 1 # 0 /\ (k + 1) - 1 = k
    BY <1>1
  <2>3. it[k + 1] = NextOwner(it[k])
    BY <1>4, <2>2
  <2> QED
    BY <2>1, <2>3, NextWell
<1>9. Nat \subseteq G
  <2> HIDE DEF G
  <2> QED
    BY <1>7, <1>8, Induction
<1> DEFINE s == it[N]
<1>10. SettlesWell(world, s, N)
  BY <1>1, <1>9
<1>11. StillSettling(world, node, s) /\ ~s.failed /\ TakenInTurn(world, s) /\ InTime(s, N)
       /\ OnlyPlaces(node, s.tree)
  BY <1>10 DEF SettlesWell, StillSettling
<1>12. Canonical.tree = s.tree
       /\ Canonical.failed = (s.failed \/ \E d \in Dirs : node[d].live /\ d \notin s.assigned)
  BY <1>3 DEF Canonical
<1> HIDE DEF s
<1>13. s.frontier = {}
  <2> SUFFICES ASSUME s.frontier # {} PROVE FALSE
    OBVIOUS
  <2>1. N + Cardinality(s.frontier) <= Cardinality(Used(s.assigned))
    BY <1>11 DEF InTime
  <2>2. Used(s.assigned) \subseteq edges
    BY DEF Used
  <2>3. Cardinality(Used(s.assigned)) <= N
    BY <1>1, <2>2, FS_Subset
  <2>4. IsFiniteSet(s.frontier)
    BY <1>11 DEF StillSettling
  <2>5. Cardinality(s.frontier) \in Nat /\ Cardinality(s.frontier) # 0
    BY <2>4, FS_CardinalityType, FS_EmptySet
  <2>6. IsFiniteSet(Used(s.assigned))
    BY <1>1, <2>2, FS_Subset
  <2>7. Cardinality(Used(s.assigned)) \in Nat
    BY <2>6, FS_CardinalityType
  <2> QED
    BY ONLY <1>1, <2>1, <2>3, <2>5, <2>7
<1>14. \A d \in Dirs : node[d].live => d \in s.assigned
  <2>1. \A d \in Dirs : s.tree[d].live => d \in s.assigned
    BY <1>11, <1>13, AllAssigned
  <2> QED
    BY <1>11, <2>1 DEF OnlyPlaces
<1>15. Canonical.failed = FALSE
  BY <1>11, <1>12, <1>14 DEF StillSettling
<1>16. \A e \in edges : e.from \in Dirs /\ node[e.from].live /\ e.to \in Dirs
  BY DEF EdgesStand, Enters
<1>17. \A e \in edges : node[e.to].live =>
          ~PathLess(Appended(PathIn(s.tree, e.from), e.name), PathIn(s.tree, e.to))
  BY <1>11, <1>14, <1>16 DEF TakenInTurn, OnlyPlaces
<1> QED
  BY <1>11, <1>12, <1>15, <1>17 DEF TakenInTurn

-----------------------------------------------------------------------------
(***************************************************************************)
(* A walk: what edges lead to                                              *)
(***************************************************************************)

\* Where aliases are followed every directory of the tree has the edge it was
\* entered by, and what an edge or a plan leads to was claimed, for it is in
\* the tree or about to be.
Reached(w, fr, nd, cl, ed) ==
    IF ~w.follow THEN ed = {}
    ELSE /\ \A d \in Dirs : nd[d].live /\ d # w.root =>
               [from |-> nd[d].parent, name |-> nd[d].name, to |-> d] \in ed
         /\ \A e \in ed : e.to \in cl
         /\ \A d \in Dirs : \A p \in fr[d].plans :
               p.kind \in {"dir", "seen"} => Goal(w, d, p.name) \in cl
         /\ \A c \in cl : nd[c].live \/ \E d \in Dirs : \E p \in fr[d].plans :
                              p.kind = "dir" /\ Goal(w, d, p.name) = c

\* A step that neither plans, claims nor records anything.
SamePlan(fr, to) == \A d \in Dirs : to[d].plans = fr[d].plans
SamePlace(nd, now) ==
    \A d \in Dirs : /\ now[d].live = nd[d].live /\ now[d].parent = nd[d].parent
                    /\ now[d].name = nd[d].name

LEMMA ReachedSame ==
    ASSUME NEW w, NEW fr, NEW nd, NEW cl \in SUBSET Dirs, NEW ed, Reached(w, fr, nd, cl, ed),
           NEW to, SamePlan(fr, to), NEW now, SamePlace(nd, now)
    PROVE  Reached(w, to, now, cl, ed)
<1>1. \A c \in cl : c \in Dirs
  OBVIOUS
<1> QED
  BY <1>1 DEF Reached, SamePlan, SamePlace

\* A mark is no other place.
LEMMA MarkedSame ==
    ASSUME NEW w, NEW nd, TreeStands(w, nd), NEW d
    PROVE  SamePlace(nd, MarkFailed(nd, d))
<1> PICK now : now = MarkFailed(nd, d)
  OBVIOUS
<1>1. ASSUME NEW x \in Dirs
      PROVE  /\ now[x].live = nd[x].live /\ now[x].parent = nd[x].parent
             /\ now[x].name = nd[x].name
  <2> PICK a : a = nd[x]
    OBVIOUS
  <2> PICK b : b = now[x]
    OBVIOUS
  <2>1. a = NodeRecord(a) /\ (b = a \/ b = [a EXCEPT !.err = TRUE])
    BY DEF TreeStands, MarkFailed
  <2>2. b.live = a.live /\ b.parent = a.parent /\ b.name = a.name
    BY ONLY <2>1 DEF NodeRecord
  <2> QED
    BY <2>2
<1> QED
  BY <1>1 DEF SamePlace

\* The frame of d gets another pc.
LEMMA GotoSame ==
    ASSUME NEW w, NEW fr, FramesStand(w, fr), NEW d \in Dirs, NEW pc, NEW to, GoesTo(fr, to, d, pc)
    PROVE  /\ \A x \in Dirs : /\ to[x].plans = fr[x].plans /\ to[x].path = fr[x].path
                              /\ to[x].fstype = fr[x].fstype /\ to[x].unread = fr[x].unread
                              /\ to[x].batch = fr[x].batch /\ to[x].todo = fr[x].todo
                              /\ to[x].pc = IF x = d THEN pc ELSE fr[x].pc
<1>1. ASSUME NEW x \in Dirs
      PROVE  /\ to[x].plans = fr[x].plans /\ to[x].path = fr[x].path
             /\ to[x].fstype = fr[x].fstype /\ to[x].unread = fr[x].unread
             /\ to[x].batch = fr[x].batch /\ to[x].todo = fr[x].todo
             /\ to[x].pc = IF x = d THEN pc ELSE fr[x].pc
  <2> PICK f : f = fr[x]
    OBVIOUS
  <2> PICK g : g = to[x]
    OBVIOUS
  <2>1. f = FrameRecord(f) /\ g = IF x = d THEN [f EXCEPT !.pc = pc] ELSE f
    BY DEF FramesStand, FrameStands, GoesTo
  <2>2. /\ g.plans = f.plans /\ g.path = f.path /\ g.fstype = f.fstype /\ g.unread = f.unread
        /\ g.batch = f.batch /\ g.todo = f.todo /\ g.pc = IF x = d THEN pc ELSE f.pc
    BY ONLY <2>1 DEF FrameRecord
  <2> QED
    BY <2>2
<1> QED
  BY <1>1

\* What does not change while nothing is classified or recorded.
Still == /\ SamePlan(frame, frame') /\ SamePlace(node, node')
         /\ UNCHANGED <<leaves, claimed, edges, counted>>

LEMMA AbandonStill ==
    ASSUME Walking, NEW d \in Dirs, NEW t, Abandon(d, t),
           UNCHANGED <<leaves, claimed, edges, counted>>
    PROVE  Still
<1>1. TreeStands(world, node) /\ FramesStand(world, frame)
  BY DEF Walking, WalkStands
<1>2. node' = MarkFailed(node, d) /\ GoesTo(frame, frame', d, "done")
  BY DEF Abandon, Record, Goto, GoesTo
<1>3. SamePlace(node, node')
  BY <1>1, <1>2, MarkedSame
<1>4. SamePlan(frame, frame')
  BY <1>1, <1>2, GotoSame DEF SamePlan
<1> QED
  BY <1>3, <1>4 DEF Still

LEMMA GotoStill ==
    ASSUME Walking, NEW d \in Dirs, NEW pc, Goto(d, pc), node' = node,
           UNCHANGED <<leaves, claimed, edges, counted>>
    PROVE  Still
<1>1. FramesStand(world, frame) /\ GoesTo(frame, frame', d, pc)
  BY DEF Walking, WalkStands, Goto, GoesTo
<1>2. SamePlan(frame, frame')
  BY <1>1, GotoSame DEF SamePlan
<1> QED
  BY <1>2 DEF Still, SamePlace

\* The steps of a scan that leave the tree's places and the plans alone.
LEMMA StillSteps ==
    ASSUME Walking, NEW d \in Dirs,
           \/ BeginDir(d) \/ OpenDir(d) \/ ReadBatch(d)
           \/ ScanChild(d) \/ ChildReturns(d) \/ AwaitChildren(d)
    PROVE  Still
<1>1. TreeStands(world, node) /\ FramesStand(world, frame) /\ FrameStands(world, d, frame[d])
      /\ Waited(world, frame, node) /\ frame[d] = FrameRecord(frame[d])
  BY DEF Walking, WalkStands, FramesStand, FrameStands
<1>2. CASE BeginDir(d)
  <2> PICK size : size = world.size[d]
    OBVIOUS
  <2> PICK now : now = Propagate([node EXCEPT ![d].self = size], d, size, 0, 0)
    OBVIOUS
  <2>1. /\ frame[d].pc = "begin" /\ GoesTo(frame, frame', d, "open") /\ node' = now
        /\ UNCHANGED <<leaves, claimed, edges, counted>>
    BY <1>2 DEF BeginDir, Goto, GoesTo, Record
  <2>2. SamePlan(frame, frame')
    BY <1>1, <2>1, GotoSame DEF SamePlan
  <2>3. /\ world.root \in Dirs /\ node[d].live /\ LeavesStand(world, node, leaves)
        /\ TotalsStand(node, leaves) /\ node[d].self = 0 /\ size \in Nat
    BY <2>1, ScanAssumption DEF Walking, WalkStands, Started
  <2>4. JustBegun(node, now, d, size)
    BY DEF JustBegun
  <2>5. StaysIn(node, now, d)
    BY ONLY <1>1, <2>3, <2>4, BegunStands, d \in Dirs
  <2> QED
    BY <2>1, <2>2, <2>5 DEF Still, SamePlace, StaysIn
<1>3. CASE OpenDir(d)
  <2>1. UNCHANGED <<leaves, claimed, edges, counted>> /\ frame[d].pc = "open"
    BY <1>3 DEF OpenDir
  <2>2. CASE Abandon(d, tally) \/ Abandon(d, OneMoreError)
    BY <2>1, <2>2, AbandonStill
  <2>3. CASE /\ frame' = [frame EXCEPT ![d].pc = "read", ![d].unread = DOMAIN world.entries[d]]
             /\ node' = node
    <3> PICK f : f = frame[d]
      OBVIOUS
    <3> PICK g : g = frame'[d]
      OBVIOUS
    <3>1. /\ f = FrameRecord(f) /\ g = [f EXCEPT !.pc = "read", !.unread = Names(world, d)]
          /\ \A x \in Dirs \ {d} : frame'[x] = frame[x]
      BY <1>1, <2>3 DEF FramesStand, Names
    <3>2. g.plans = f.plans
      BY ONLY <3>1 DEF FrameRecord
    <3> QED
      BY <2>1, <2>3, <3>1, <3>2 DEF Still, SamePlan, SamePlace
  <2> QED
    BY <1>3, <2>2, <2>3 DEF OpenDir
<1>4. CASE ReadBatch(d)
  <2>1. UNCHANGED <<leaves, claimed, edges, counted>> /\ frame[d].pc = "read"
    BY <1>4 DEF ReadBatch
  <2>2. CASE Abandon(d, tally) \/ Abandon(d, OneMoreError)
    BY <2>1, <2>2, AbandonStill
  <2>3. CASE Goto(d, "done") /\ Record(node, tally)
    BY <2>1, <2>3, GotoStill DEF Record
  <2>4. ASSUME NEW unread, NEW batch, node' = node,
               frame' = [frame EXCEPT ![d].pc = "classify", ![d].unread = unread, ![d].plans = {},
                                      ![d].batch = batch]
        PROVE  Still
    <3> PICK f : f = frame[d]
      OBVIOUS
    <3> PICK g : g = frame'[d]
      OBVIOUS
    <3>1. /\ f = FrameRecord(f) /\ \A x \in Dirs \ {d} : frame'[x] = frame[x]
          /\ g = [f EXCEPT !.pc = "classify", !.unread = unread, !.plans = {}, !.batch = batch]
      BY <1>1, <2>4 DEF FramesStand
    <3>2. g.plans = {}
      BY ONLY <3>1 DEF FrameRecord
    <3>3. f.plans = {}
      BY <1>1, <2>1 DEF FrameStands
    <3> QED
      BY <2>1, <2>4, <3>1, <3>2, <3>3 DEF Still, SamePlan, SamePlace
  <2> QED
    BY <1>4, <2>2, <2>3, <2>4 DEF ReadBatch
<1>5. CASE ScanChild(d)
  <2>1. UNCHANGED <<leaves, claimed, edges, counted>> /\ frame[d].pc = "children"
    BY <1>5 DEF ScanChild
  <2>2. PICK n \in frame[d].todo :
          LET c == Target(d, n)
              free == Cardinality(Running) < world.slots
              rest == [frame EXCEPT ![d].todo = @ \ {n}]
          IN
          \/ frame' = rest /\ Record(MarkFailed(node, c), tally)
          \/ /\ frame' = [rest EXCEPT
                    ![d].pc = IF free THEN "children" ELSE "call",
                    ![c] = [NoFrame EXCEPT !.pc = "begin", !.caller = d,
                              !.spawned = free,
                              !.path = Append(frame[d].path, n),
                              !.fstype = IF world.device[c] # world.device[d] \/ IsAlias(d, n)
                                         THEN FSOf(world.mounts, Physical(d, n))
                                         ELSE frame[d].fstype]]
             /\ UNCHANGED <<node, tally, out>>
    BY <1>5 DEF ScanChild
  <2> PICK c : c = Goal(world, d, n)
    OBVIOUS
  <2> PICK rest : rest = [frame EXCEPT ![d].todo = @ \ {n}]
    OBVIOUS
  <2>3. c \in Dirs /\ frame[c].pc = "idle" /\ c # d /\ Target(d, n) = c
    BY <1>1, <2>1 DEF Waited, Target, Goal
  <2>4. frame[c].plans = {} /\ frame[d].plans = {}
    BY <1>1, <2>1, <2>3 DEF FramesStand, FrameStands
  <2> PICK f : f = frame[d]
    OBVIOUS
  <2> PICK r : r = rest[d]
    OBVIOUS
  <2>5. f = FrameRecord(f) /\ r = [f EXCEPT !.todo = @ \ {n}] /\ rest = [x \in Dirs |-> rest[x]]
        /\ \A x \in Dirs \ {d} : rest[x] = frame[x]
    BY <1>1 DEF FramesStand
  <2>6. r = FrameRecord(r) /\ r.plans = f.plans
    BY ONLY <2>5 DEF FrameRecord
  <2>7. CASE frame' = rest /\ Record(MarkFailed(node, c), tally)
    <3>1. node' = MarkFailed(node, c)
      BY <2>7 DEF Record
    <3>2. SamePlace(node, node')
      BY <1>1, <3>1, MarkedSame
    <3>3. SamePlan(frame, frame')
      BY <2>5, <2>6, <2>7 DEF SamePlan
    <3> QED
      BY <2>1, <3>2, <3>3 DEF Still
  <2>8. ASSUME NEW pc, NEW free, NEW path, NEW fstype, node' = node,
               frame' = [rest EXCEPT ![d].pc = pc,
                    ![c] = [NoFrame EXCEPT !.pc = "begin", !.caller = d, !.spawned = free,
                                           !.path = path, !.fstype = fstype]]
        PROVE  Still
    <3> PICK g : g = frame'[d]
      OBVIOUS
    <3> PICK h : h = frame'[c]
      OBVIOUS
    <3>1. /\ g = [r EXCEPT !.pc = pc] /\ \A x \in Dirs \ {c, d} : frame'[x] = frame[x]
          /\ h = [NoFrame EXCEPT !.pc = "begin", !.caller = d, !.spawned = free,
                                 !.path = path, !.fstype = fstype]
      BY <2>3, <2>5, <2>8
    <3>2. g.plans = r.plans
      BY ONLY <2>6, <3>1 DEF FrameRecord
    <3>3. h.plans = {}
      BY ONLY <3>1 DEF NoFrame
    <3>4. SamePlan(frame, frame')
      BY <2>4, <2>6, <3>1, <3>2, <3>3 DEF SamePlan
    <3> QED
      BY <2>1, <2>8, <3>4 DEF Still, SamePlace
  <2>9. CASE ~(frame' = rest /\ Record(MarkFailed(node, c), tally))
    <3> DEFINE free == Cardinality(Running) < world.slots
               pc == IF free THEN "children" ELSE "call"
               path == Append(frame[d].path, n)
               fstype == IF world.device[c] # world.device[d] \/ IsAlias(d, n)
                         THEN FSOf(world.mounts, Physical(d, n)) ELSE frame[d].fstype
    <3>1. /\ frame' = [rest EXCEPT ![d].pc = pc,
                    ![c] = [NoFrame EXCEPT !.pc = "begin", !.caller = d, !.spawned = free,
                                           !.path = path, !.fstype = fstype]]
          /\ node' = node
      BY <2>2, <2>3, <2>9
    <3> HIDE DEF free, pc, path, fstype
    <3> QED
      BY <2>8, <3>1
  <2> QED
    BY <2>7, <2>9
<1>6. CASE ChildReturns(d)
  BY <1>6, GotoStill DEF ChildReturns
<1>7. CASE AwaitChildren(d)
  <2>1. UNCHANGED <<leaves, claimed, edges, counted>>
    BY <1>7 DEF AwaitChildren
  <2>2. Abandon(d, tally) \/ (Goto(d, "read") /\ node' = node)
    BY <1>7 DEF AwaitChildren
  <2> QED
    BY <2>1, <2>2, AbandonStill, GotoStill
<1> QED
  BY <1>2, <1>3, <1>4, <1>5, <1>6, <1>7

\* One entry is classified, and a directory claimed for it at most.
LEMMA ReachedClassify ==
    ASSUME Walking, Reached(world, frame, node, claimed, edges), NEW d \in Dirs, Classify(d)
    PROVE  Reached(world, frame', node', claimed', edges')
<1>1. /\ FramesStand(world, frame) /\ claimed \subseteq Dirs /\ FrameStands(world, d, frame[d])
      /\ frame[d].pc = "classify" /\ UNCHANGED <<node, leaves, edges>>
  BY DEF Walking, WalkStands, Claimed, Classify, FramesStand
<1>2. PICK n \in frame[d].batch :
          \/ ClassifyFails(d, n) \/ ClassifyDir(d, n)
          \/ ClassifyFile(d, n) \/ ClassifyFiltered(d, n)
  BY DEF Classify
<1>3. Target(d, n) = Goal(world, d, n) /\ (ReachesDir(d, n) => Goal(world, d, n) \in Dirs)
  BY DEF Target, Goal, ReachesDir
<1>4. ASSUME NEW P, Planned(d, n, P)
      PROVE  /\ frame'[d].plans = frame[d].plans \cup P
             /\ \A x \in Dirs \ {d} : frame'[x].plans = frame[x].plans
  <2> PICK f : f = frame[d]
    OBVIOUS
  <2> PICK g : g = frame'[d]
    OBVIOUS
  <2>1. /\ f = FrameRecord(f) /\ g = [f EXCEPT !.batch = @ \ {n}, !.plans = @ \cup P]
        /\ \A x \in Dirs \ {d} : frame'[x] = frame[x]
    BY <1>1, <1>4 DEF Planned, FramesStand, FrameStands
  <2>2. g.plans = f.plans \cup P
    BY ONLY <2>1 DEF FrameRecord
  <2> QED
    BY <2>1, <2>2
<1>5. ASSUME NEW P, Planned(d, n, P), claimed' = claimed, \A p \in P : p.kind \in {"file", "error"}
      PROVE  Reached(world, frame', node', claimed', edges')
  <2>1. /\ frame'[d].plans = frame[d].plans \cup P
        /\ \A x \in Dirs \ {d} : frame'[x].plans = frame[x].plans
    BY <1>4, <1>5
  <2>2. \A x \in Dirs : \A p \in frame'[x].plans :
            p \in frame[x].plans \/ p.kind \in {"file", "error"}
    BY <1>5, <2>1
  <2>3. \A x \in Dirs : frame[x].plans \subseteq frame'[x].plans
    BY <2>1
  <2> QED
    BY <1>1, <1>5, <2>2, <2>3 DEF Reached
<1>6. CASE ClassifyFails(d, n)
  <2> DEFINE p == Plan(d, n, "error", 0, FALSE)
  <2>1. Planned(d, n, {p}) /\ claimed' = claimed
    BY <1>6 DEF ClassifyFails
  <2>2. p.kind = "error"
    BY DEF Plan
  <2> HIDE DEF p
  <2> QED
    BY <1>5, <2>1, <2>2
<1>7. CASE ClassifyDir(d, n)
  <2> DEFINE first == ~Follow \/ Target(d, n) \notin claimed
             p == Plan(d, n, IF first THEN "dir" ELSE "seen", 0, FALSE)
  <2>1. p.name = n /\ p.kind = (IF first THEN "dir" ELSE "seen")
    BY DEF Plan
  <2>2. /\ Planned(d, n, {p}) /\ Goal(world, d, n) \in Dirs
        /\ claimed' = IF world.follow THEN claimed \cup {Goal(world, d, n)} ELSE claimed
    BY <1>3, <1>7 DEF ClassifyDir, Follow
  <2>3. world.follow /\ Goal(world, d, n) \notin claimed => p.kind = "dir"
    BY <1>3, <2>1 DEF Follow
  <2> HIDE DEF first, p
  <2>4. /\ frame'[d].plans = frame[d].plans \cup {p}
        /\ \A x \in Dirs \ {d} : frame'[x].plans = frame[x].plans
    BY <1>4, <2>2
  <2>5. \A x \in Dirs : frame[x].plans \subseteq frame'[x].plans
    BY <2>4
  <2>6. \A x \in Dirs : \A q \in frame'[x].plans : q \in frame[x].plans \/ (x = d /\ q = p)
    BY <2>4
  <2> SUFFICES ASSUME world.follow
               PROVE  Reached(world, frame', node', claimed', edges')
    BY <1>1 DEF Reached
  <2>7. \A x \in Dirs : \A q \in frame'[x].plans :
            q.kind \in {"dir", "seen"} => Goal(world, x, q.name) \in claimed'
    BY <2>1, <2>2, <2>6 DEF Reached
  <2>8. \A c \in claimed' : node[c].live \/ \E x \in Dirs : \E q \in frame'[x].plans :
                              q.kind = "dir" /\ Goal(world, x, q.name) = c
    <3> SUFFICES ASSUME NEW c \in claimed'
                 PROVE  node[c].live \/ \E x \in Dirs : \E q \in frame'[x].plans :
                              q.kind = "dir" /\ Goal(world, x, q.name) = c
      OBVIOUS
    <3>1. CASE c \in claimed
      BY <2>5, <3>1 DEF Reached
    <3>2. CASE c \notin claimed
      <4>1. c = Goal(world, d, n) /\ p.kind = "dir" /\ p.name = n /\ p \in frame'[d].plans
        BY <2>1, <2>2, <2>3, <2>4, <3>2
      <4> QED
        BY <4>1
    <3> QED
      BY <3>1, <3>2
  <2>9. \A e \in edges : e.to \in claimed'
    BY <2>2 DEF Reached
  <2>10. \A x \in Dirs : node[x].live /\ x # world.root =>
               [from |-> node[x].parent, name |-> node[x].name, to |-> x] \in edges
    BY DEF Reached
  <2> QED
    BY <1>1, <2>7, <2>8, <2>9, <2>10 DEF Reached
<1>8. CASE ClassifyFile(d, n)
  <2> DEFINE again == Deduplicated(d, n) /\ Identity(d, n) \in counted
             p == Plan(d, n, "file", IF again THEN 0 ELSE SizeOf(d, n), again)
  <2>1. Planned(d, n, {p}) /\ claimed' = claimed
    BY <1>8 DEF ClassifyFile
  <2>2. p.kind = "file"
    BY DEF Plan
  <2> HIDE DEF p
  <2> QED
    BY <1>5, <2>1, <2>2
<1>9. CASE ClassifyFiltered(d, n)
  BY <1>5, <1>9 DEF ClassifyFiltered
<1> QED
  BY <1>2, <1>6, <1>7, <1>8, <1>9

\* The batch is recorded: what was planned to be entered is in the tree, with
\* its edge.
LEMMA ReachedRecord ==
    ASSUME Walking, Reached(world, frame, node, claimed, edges), NEW d \in Dirs, RecordBatch(d)
    PROVE  Reached(world, frame', node', claimed', edges')
<1> PICK f : f = frame[d]
  OBVIOUS
<1> PICK K : K = NewChildren(world, d, f)
  OBVIOUS
<1>1. /\ Recording(world, frame, frame', node, node', d)
      /\ edges' = IF world.follow THEN edges \cup NewEdges(world, d, f) ELSE edges
      /\ claimed' = claimed
  BY RecordWalksOn
<1>2. /\ WalkStands(world, frame, node, leaves, claimed, edges, counted)
      /\ world.root \in Dirs /\ world \in Worlds /\ FrameStands(world, d, f)
      /\ claimed \subseteq Dirs /\ TreeStands(world, node)
  BY ScanAssumption DEF Walking, WalkStands, FramesStand, Claimed
<1>3. /\ \A x \in Dirs \ {d} : frame'[x] = frame[x]
      /\ frame'[d].plans = {} /\ f.pc = "classify"
      /\ \A x \in K : node'[x].live /\ node'[x].parent = d
      /\ \A x \in Dirs \ K : /\ node'[x].live = node[x].live /\ node'[x].parent = node[x].parent
                             /\ node'[x].name = node[x].name
      /\ \A p \in ToEnter(f) : node'[Goal(world, d, p.name)].name = p.name
      /\ K \subseteq Dirs
  <2>1. K \subseteq Dirs
    BY <1>1, <1>2, NewIs DEF Recording
  <2> QED
    BY <1>1, <2>1 DEF Recording, Grown
<1> SUFFICES ASSUME world.follow
             PROVE  Reached(world, frame', node', claimed', edges')
  BY <1>1 DEF Reached
<1>4. edges' = edges \cup NewEdges(world, d, f)
  BY <1>1
<1>5. \A x \in Dirs : node'[x].live /\ x # world.root =>
               [from |-> node'[x].parent, name |-> node'[x].name, to |-> x] \in edges'
  <2> SUFFICES ASSUME NEW x \in Dirs, node'[x].live, x # world.root
               PROVE  [from |-> node'[x].parent, name |-> node'[x].name, to |-> x] \in edges'
    OBVIOUS
  <2>1. CASE x \in K
    <3>1. PICK p \in ToEnter(f) : x = Goal(world, d, p.name)
      BY <2>1 DEF NewChildren
    <3>2. p \in f.plans \ ToAdd(f)
      BY <3>1 DEF ToEnter, ToAdd
    <3>3. [from |-> d, name |-> p.name, to |-> x] \in NewEdges(world, d, f)
      BY <3>1, <3>2 DEF NewEdges
    <3> QED
      BY <1>3, <1>4, <2>1, <3>1, <3>3
  <2>2. CASE x \notin K
    <3>1. [from |-> node[x].parent, name |-> node[x].name, to |-> x] \in edges
      BY <1>3, <2>2 DEF Reached
    <3> QED
      BY <1>3, <1>4, <2>2, <3>1
  <2> QED
    BY <2>1, <2>2
<1>6. \A e \in edges' : e.to \in claimed
  <2> SUFFICES ASSUME NEW e \in NewEdges(world, d, f) PROVE e.to \in claimed
    BY <1>4 DEF Reached
  <2>1. PICK p \in f.plans \ ToAdd(f) : e = [from |-> d, name |-> p.name, to |-> Goal(world, d, p.name)]
    BY DEF NewEdges
  <2>2. p.kind \in {"dir", "seen"}
    BY <1>2, <2>1 DEF FrameStands, PlansStand, ToAdd
  <2> QED
    BY <2>1, <2>2 DEF Reached
<1>7. \A x \in Dirs : \A p \in frame'[x].plans :
               p.kind \in {"dir", "seen"} => Goal(world, x, p.name) \in claimed
  BY <1>3 DEF Reached
<1>8. \A c \in claimed : node'[c].live \/ \E x \in Dirs : \E p \in frame'[x].plans :
                              p.kind = "dir" /\ Goal(world, x, p.name) = c
  <2> SUFFICES ASSUME NEW c \in claimed
               PROVE  node'[c].live \/ \E x \in Dirs : \E p \in frame'[x].plans :
                              p.kind = "dir" /\ Goal(world, x, p.name) = c
    OBVIOUS
  <2>1. CASE node[c].live
    BY <1>2, <1>3, <2>1
  <2>2. ASSUME NEW x \in Dirs, NEW p \in frame[x].plans, p.kind = "dir", Goal(world, x, p.name) = c
        PROVE  node'[c].live \/ \E y \in Dirs : \E q \in frame'[y].plans :
                              q.kind = "dir" /\ Goal(world, y, q.name) = c
    <3>1. CASE x = d
      BY <1>3, <2>2, <3>1 DEF NewChildren, ToEnter
    <3>2. CASE x # d
      BY <1>3, <2>2, <3>2
    <3> QED
      BY <3>1, <3>2
  <2> QED
    BY <2>1, <2>2 DEF Reached
<1> QED
  BY <1>1, <1>5, <1>6, <1>7, <1>8 DEF Reached

\* Each step of the walk keeps it.
LEMMA DirReaches ==
    ASSUME Walking, Reached(world, frame, node, claimed, edges), NEW d \in Dirs, ScanDir(d)
    PROVE  Reached(world, frame', node', claimed', edges')
<1>1. claimed \subseteq Dirs
  BY DEF Walking, WalkStands, Claimed
<1>2. CASE Classify(d)
  BY <1>2, ReachedClassify
<1>3. CASE RecordBatch(d)
  BY <1>3, ReachedRecord
<1>4. CASE ~Classify(d) /\ ~RecordBatch(d)
  <2>1. Still
    BY <1>4, StillSteps DEF ScanDir
  <2>2. SamePlan(frame, frame') /\ SamePlace(node, node') /\ claimed' = claimed /\ edges' = edges
    BY <2>1 DEF Still
  <2> QED
    BY <1>1, <2>2, ReachedSame
<1> QED
  BY <1>2, <1>3, <1>4

\* The root is claimed and alone.
LEMMA ReachedBegins ==
    ASSUME NEW w \in Worlds, NEW to, NEW now, RootEnters(w, to, now)
    PROVE  Reached(w, to, now, {w.root}, {})
<1>1. /\ \A d \in Dirs : to[d].plans = {}
      /\ \A d \in Dirs : now[d].live <=> d = w.root
      /\ w.root \in Dirs
  BY ScanAssumption DEF RootEnters, NoNode, NoFrame
<1> QED
  BY <1>1 DEF Reached

-----------------------------------------------------------------------------
(***************************************************************************)
(* The owners once they are settled                                        *)
(***************************************************************************)

\* Totals are no places.
LEMMA TotalsOnly ==
    ASSUME NEW w, NEW tr, TreeStands(w, tr), NEW now, NEW ls,
           now = Recomputed(tr, ls) \/ now = Moved(tr, ls)
    PROVE  SamePlace(tr, now)
<1>1. ASSUME NEW x \in Dirs
      PROVE  /\ now[x].live = tr[x].live /\ now[x].parent = tr[x].parent
             /\ now[x].name = tr[x].name
  <2> PICK a : a = tr[x]
    OBVIOUS
  <2> PICK b : b = now[x]
    OBVIOUS
  <2>0. a = NodeRecord(a)
    BY DEF TreeStands
  <2>1. CASE now = Recomputed(tr, ls)
    <3> DEFINE m == Measured(tr, ls, x)
    <3>1. b = IF ~tr[x].live THEN tr[x]
              ELSE [tr[x] EXCEPT !.bytes = m.bytes, !.files = m.files, !.dirs = m.dirs]
      BY <2>1 DEF Recomputed
    <3> HIDE DEF m
    <3>2. b.live = a.live /\ b.parent = a.parent /\ b.name = a.name
      BY ONLY <2>0, <3>1, a = tr[x] DEF NodeRecord
    <3> QED
      BY <3>2
  <2>2. CASE now = Moved(tr, ls)
    <3>1. PICK bytes : b = [tr[x] EXCEPT !.bytes = bytes]
      BY <2>2 DEF Moved
    <3>2. b.live = a.live /\ b.parent = a.parent /\ b.name = a.name
      BY ONLY <2>0, <3>1, a = tr[x] DEF NodeRecord
    <3> QED
      BY <3>2
  <2> QED
    BY <2>1, <2>2
<1> QED
  BY <1>1 DEF SamePlace

\* So the paths are the same.
LEMMA SamePaths ==
    ASSUME NEW w \in Worlds, NEW nd, TreeStands(w, nd), NEW to, TreeStands(w, to),
           SamePlace(nd, to)
    PROVE  \A d \in Dirs : PathIn(to, d) = PathIn(nd, d)
<1>1. /\ Parented(nd) /\ Grounded(nd) /\ Named(nd) /\ Parented(to) /\ Grounded(to) /\ Named(to)
  BY TreePaths
<1>2. \A d \in Dirs : /\ to[d].parent = nd[d].parent /\ to[d].name = nd[d].name
                      /\ nd[d].parent \in Dirs \cup {NoDir}
  BY <1>1 DEF SamePlace, Parented
<1> QED
  BY ONLY <1>1, <1>2, PathsSame, Dirs \in SUBSET Dirs

\* When every scan is over nothing is planned any more.
LEMMA NothingPlanned ==
    ASSUME Walking, frame[world.root].pc = "done"
    PROVE  \A d \in Dirs : ~Active(frame[d]) /\ frame[d].plans = {} /\ frame[d].batch = {}
<1>1. \A d \in Dirs : ~Active(frame[d])
  BY AllRest
<1>2. \A d \in Dirs : FrameStands(world, d, frame[d])
  BY DEF Walking, WalkStands, FramesStand
<1> QED
  BY <1>1, <1>2 DEF FrameStands, Active

\* What the settling makes of the tree: tr is the tree with its owners.
LEMMA SettledAs ==
    ASSUME Walking, Reached(world, frame, node, claimed, edges), Settle
    PROVE  \E tr : /\ TreeStands(world, tr) /\ OnlyPlaces(node, tr)
                   /\ leaves' = Normalized(tr) /\ settled' = "ok" /\ tally' = tally
                   /\ TreeStands(world, node') /\ SamePlace(tr, node')
                   /\ \A d \in Dirs : PathIn(node', d) = PathIn(tr, d)
                   /\ IF world.follow THEN PlacedByEdges(world, tr) ELSE tr = node
                   /\ \A e \in edges : /\ tr[e.to].live
                                       /\ ~PathLess(Appended(PathIn(tr, e.from), e.name),
                                                    PathIn(tr, e.to))
<1>1. /\ TreeStands(world, node) /\ EdgesStand(world, node, edges) /\ world \in Worlds
      /\ OnlyPlaces(node, node) /\ claimed \subseteq Dirs
  BY DEF Walking, WalkStands, TreeStands, OnlyPlaces, Claimed
<1>2. \A d \in Dirs : frame[d].plans = {}
  BY NothingPlanned DEF Settle, Root
<1>3. PICK canon \in {IF Follow THEN Canonical ELSE [tree |-> node, failed |-> FALSE]} :
       \E nd \in {IF canon.failed THEN MarkFailed(canon.tree, Root) ELSE canon.tree} :
          /\ leaves' = Normalized(nd)
          /\ settled' = IF canon.failed THEN "failed" ELSE "ok"
          /\ Record(IF Follow THEN Recomputed(nd, leaves') ELSE Moved(nd, leaves'),
                    IF canon.failed THEN OneMoreError ELSE tally)
  BY DEF Settle
<1>4. /\ ~canon.failed /\ TreeStands(world, canon.tree) /\ OnlyPlaces(node, canon.tree)
      /\ IF world.follow THEN PlacedByEdges(world, canon.tree) ELSE canon.tree = node
      /\ \A e \in edges : /\ canon.tree[e.to].live
                          /\ ~PathLess(Appended(PathIn(canon.tree, e.from), e.name),
                                       PathIn(canon.tree, e.to))
  <2>1. CASE Follow
    <3>1. canon = Canonical /\ world.follow
      BY <1>3, <2>1 DEF Follow
    <3>2. PlacedByEdges(world, node)
      BY <3>1 DEF Reached, PlacedByEdges
    <3>3. \A e \in edges : node[e.to].live
      BY <1>2, <3>1 DEF Reached
    <3>4. TreeStands(world, Canonical.tree) /\ OnlyPlaces(node, Canonical.tree)
      BY <1>1, CanonicalStands
    <3>5. /\ Canonical.failed = FALSE /\ PlacedByEdges(world, Canonical.tree)
          /\ \A e \in edges : node[e.to].live =>
                ~PathLess(Appended(PathIn(Canonical.tree, e.from), e.name),
                          PathIn(Canonical.tree, e.to))
      BY <1>1, <3>2, CanonicalWell
    <3>6. \A e \in edges : e.to \in Dirs
      BY <1>1, <3>1 DEF Reached
    <3>7. \A e \in edges : Canonical.tree[e.to].live
      BY <3>3, <3>4, <3>6 DEF OnlyPlaces
    <3> QED
      BY ONLY <3>1, <3>3, <3>4, <3>5, <3>7
  <2>2. CASE ~Follow
    <3>1. canon = [tree |-> node, failed |-> FALSE] /\ ~world.follow
      BY <1>3, <2>2 DEF Follow
    <3>2. canon.tree = node /\ ~canon.failed
      BY <3>1
    <3>3. edges = {}
      BY <3>1 DEF Reached
    <3> QED
      BY ONLY <1>1, <3>1, <3>2, <3>3
  <2> QED
    BY <2>1, <2>2
<1> PICK tr : tr = canon.tree
  OBVIOUS
<1>5. /\ leaves' = Normalized(tr) /\ settled' = "ok"
      /\ Record(IF Follow THEN Recomputed(tr, leaves') ELSE Moved(tr, leaves'), tally)
  BY <1>3, <1>4
<1>6. tally' = tally /\ (node' = Recomputed(tr, leaves') \/ node' = Moved(tr, leaves'))
  BY <1>5 DEF Record
<1>7. SamePlace(tr, node')
  BY <1>4, <1>6, TotalsOnly
<1>8. TreeStands(world, node')
  BY SettleAgrees DEF Agree
<1>9. \A d \in Dirs : PathIn(node', d) = PathIn(tr, d)
  BY <1>1, <1>4, <1>7, <1>8, SamePaths
<1> QED
  BY <1>4, <1>5, <1>6, <1>7, <1>8, <1>9

\* Of a file met under several names the smallest path has the bytes.
LEMMA OwnerIsFirst ==
    ASSUME Walking, NEW tr, TreeStands(world, tr), OnlyPlaces(node, tr),
           NEW l \in Normalized(tr), NEW o \in Normalized(tr),
           l.bytes > 0, o # l, ~o.err, o.id = l.id, Multiple(world, l.dir, l.name)
    PROVE  PathLess(LeafPath(tr, l), LeafPath(tr, o))
<1>1. PICK a \in leaves : l = Renewed(tr, a)
  BY NormalizedIs
<1>2. PICK b \in leaves : o = Renewed(tr, b)
  BY NormalizedIs
<1>3. /\ l.dir = a.dir /\ l.name = a.name /\ l.id = a.id /\ l.err = a.err
      /\ o.dir = b.dir /\ o.name = b.name /\ o.id = b.id /\ o.err = b.err
  BY <1>1, <1>2, RenewedIs
<1>4. a # b
  BY <1>1, <1>2
<1>5. /\ LeavesStand(world, node, leaves) /\ world \in Worlds
  BY DEF Walking, WalkStands
<1>6. /\ a.dir \in Dirs /\ a.name \in Names(world, a.dir) /\ a.id = IdOf(world, a.dir, a.name)
      /\ b.dir \in Dirs /\ b.name \in Names(world, b.dir) /\ b.id = IdOf(world, b.dir, b.name)
      /\ (a.err => a.bytes = 0) /\ a.err \in BOOLEAN /\ b.err \in BOOLEAN
  BY <1>5 DEF LeavesStand
<1>7. ~a.err
  <2> SUFFICES ASSUME a.err PROVE FALSE
    OBVIOUS
  <2>1. a \notin Shared(a)
    BY DEF Shared
  <2>2. l = a
    BY <1>1, <2>1 DEF Renewed
  <2> QED
    BY <1>6, <2>2
<1>8. Multiple(world, a.dir, a.name) /\ Multiple(world, b.dir, b.name)
  BY <1>3, <1>5, <1>6, SameMultiple
<1>9. a \in Shared(a) /\ b \in Shared(a) /\ IsFiniteSet(Shared(a))
  <2>1. /\ Deduplicated(a.dir, a.name) <=> Multiple(world, a.dir, a.name)
        /\ Deduplicated(b.dir, b.name) <=> Multiple(world, b.dir, b.name)
    BY <1>6, EntryIs
  <2> QED
    BY <1>3, <1>7, <1>8, <2>1, SharedAre DEF Shared
<1>10. ~(Cardinality(Shared(a)) < 2)
  <2>1. {a, b} \subseteq Shared(a)
    BY <1>9
  <2>2. Cardinality({a, b}) = 2 /\ IsFiniteSet({a, b})
    <3>1. IsFiniteSet({a}) /\ Cardinality({a}) = 1
      BY FS_Singleton
    <3>2. b \notin {a} /\ {a, b} = {a} \cup {b}
      BY <1>4
    <3>3. /\ IsFiniteSet({a} \cup {b})
          /\ Cardinality({a} \cup {b}) = Cardinality({a}) + 1
      BY ONLY <3>1, <3>2, FS_AddElement
    <3> QED
      BY ONLY <3>1, <3>2, <3>3
  <2>3. Cardinality({a, b}) <= Cardinality(Shared(a)) /\ Cardinality(Shared(a)) \in Nat
    BY <1>9, <2>1, FS_Subset, FS_CardinalityType
  <2> QED
    BY ONLY <2>2, <2>3
<1>11. l.bytes = IF Owner(tr, a) = a THEN BytesOf(Shared(a)) ELSE 0
  BY <1>1, <1>9, <1>10, RenewedIs
<1>12. Owner(tr, a) = a
  BY <1>11
<1>13. PathLess(LeafPath(tr, a), LeafPath(tr, b))
  BY <1>4, <1>9, <1>12, OwnerIsOne
<1> QED
  BY <1>3, <1>13 DEF LeafPath

\* What is settled: the edges lead to directories of the tree, which are on no
\* greater path than theirs, and whoever has the bytes of a file comes first.
OwnersStand(w, nd, ls, ed) ==
    /\ \A e \in ed : /\ e.to \in Dirs /\ nd[e.to].live
                     /\ ~PathLess(Appended(PathIn(nd, e.from), e.name), PathIn(nd, e.to))
    /\ \A l, o \in ls :
          l.bytes > 0 /\ o # l /\ ~o.err /\ o.id = l.id /\ Multiple(w, l.dir, l.name)
             => PathLess(LeafPath(nd, l), LeafPath(nd, o))

LEMMA SettlesOwners ==
    ASSUME Walking, Reached(world, frame, node, claimed, edges), Settle
    PROVE  settled' = "ok" /\ OwnersStand(world, node', leaves', edges')
<1>1. PICK tr : /\ TreeStands(world, tr) /\ OnlyPlaces(node, tr)
                /\ leaves' = Normalized(tr) /\ settled' = "ok"
                /\ SamePlace(tr, node')
                /\ \A d \in Dirs : PathIn(node', d) = PathIn(tr, d)
                /\ \A e \in edges : /\ tr[e.to].live
                                    /\ ~PathLess(Appended(PathIn(tr, e.from), e.name),
                                                 PathIn(tr, e.to))
  BY SettledAs
<1>2. edges' = edges
  BY DEF Settle
<1>3. \A e \in edges : e.from \in Dirs /\ e.to \in Dirs
  BY DEF Walking, WalkStands, EdgesStand, Enters
<1>4. \A e \in edges' : /\ e.to \in Dirs /\ node'[e.to].live
                        /\ ~PathLess(Appended(PathIn(node', e.from), e.name), PathIn(node', e.to))
  BY <1>1, <1>2, <1>3 DEF SamePlace
<1>5. \A l \in leaves' : LeafPath(node', l) = LeafPath(tr, l)
  <2>1. \A l \in leaves' : l.dir \in Dirs
    BY <1>1, NormalizedIs DEF LeavesStand
  <2> QED
    BY <1>1, <2>1 DEF LeafPath
<1>6. \A l, o \in leaves' :
          l.bytes > 0 /\ o # l /\ ~o.err /\ o.id = l.id /\ Multiple(world, l.dir, l.name)
             => PathLess(LeafPath(tr, l), LeafPath(tr, o))
  BY <1>1, OwnerIsFirst
<1>7. \A l, o \in leaves' :
          l.bytes > 0 /\ o # l /\ ~o.err /\ o.id = l.id /\ Multiple(world, l.dir, l.name)
             => PathLess(LeafPath(node', l), LeafPath(node', o))
  BY <1>5, <1>6
<1> QED
  BY <1>1, <1>4, <1>7 DEF OwnersStand

\* What a scan keeps of this, from its start to its return.
OwnersKept ==
    /\ phase \in {"start", "refused"} => settled = "pending"
    /\ phase = "walk" => /\ settled = "pending"
                         /\ Reached(world, frame, node, claimed, edges)
    /\ phase \in {"final", "drain", "returned"} =>
          settled = "ok" /\ OwnersStand(world, node, leaves, edges)

LEMMA OwnersGoOn ==
    ASSUME ScanKeeps, OwnersKept, [ScanNext]_scanVars
    PROVE  OwnersKept'
<1>1. CASE Start
  <2>1. /\ phase = "start" /\ AtStart /\ world \in Worlds /\ world.root \in Dirs
        /\ UNCHANGED <<world, settled, edges>> /\ settled = "pending" /\ edges = {}
    BY <1>1, ScanAssumption DEF Start, ScanKeeps, AtStart, OwnersKept
  <2>2. CASE phase' = "refused"
    BY <2>1, <2>2 DEF OwnersKept
  <2>3. CASE /\ phase' = "walk"
             /\ frame' = [frame EXCEPT ![Root].pc = "begin",
                                       ![Root].fstype = FSOf(world.mounts, world.home[Root])]
             /\ node' = [node EXCEPT ![Root].live = TRUE]
             /\ claimed' = {Root}
    <3> PICK to : to = frame'
      OBVIOUS
    <3> PICK now : now = node'
      OBVIOUS
    <3> PICK fstype : fstype = FSOf(world.mounts, world.home[Root])
      OBVIOUS
    <3>1. frame = [d \in Dirs |-> NoFrame] /\ node = [d \in Dirs |-> NoNode]
      BY <2>1 DEF AtStart
    <3>2. to = [d \in Dirs |-> IF d = world.root
                   THEN [NoFrame EXCEPT !.pc = "begin", !.fstype = fstype] ELSE NoFrame]
      <4>1. to = [frame EXCEPT ![world.root].pc = "begin", ![world.root].fstype = fstype]
        BY <2>3 DEF Root
      <4> QED
        BY ONLY <2>1, <3>1, <4>1
    <3>3. now = [d \in Dirs |-> IF d = world.root THEN [NoNode EXCEPT !.live = TRUE] ELSE NoNode]
      BY <2>1, <2>3, <3>1 DEF Root
    <3>4. RootEnters(world, to, now)
      BY ONLY <3>2, <3>3 DEF RootEnters
    <3>5. Reached(world, to, now, {world.root}, {})
      BY <2>1, <3>4, ReachedBegins
    <3> QED
      BY <2>1, <2>3, <3>5 DEF OwnersKept, Root
  <2> QED
    BY <1>1, <2>2, <2>3 DEF Start
<1>2. ASSUME NEW d \in Dirs, ScanDir(d)
      PROVE  OwnersKept'
  <2>1. world.maxFaults \in Nat /\ faults \in 0..world.maxFaults /\ world \in Worlds
    BY ScanAssumption DEF ScanKeeps
  <2>2. Active(frame[d]) /\ UNCHANGED <<world, phase, settled>>
    BY <1>2, <2>1, DirMoves
  <2>3. phase = "walk"
    <3>1. CASE phase \in {"start", "refused"}
      <4>1. frame[d] = NoFrame
        BY <3>1 DEF ScanKeeps, AtStart
      <4> QED
        BY <2>2, <4>1 DEF Active, NoFrame
    <3>2. CASE phase \in {"final", "drain", "returned"}
      BY <2>2, <3>2 DEF ScanKeeps, Rested
    <3> QED
      BY <3>1, <3>2 DEF ScanKeeps
  <2>4. Walking /\ Reached(world, frame, node, claimed, edges) /\ settled = "pending"
    BY <2>3 DEF ScanKeeps, OwnersKept
  <2>5. Reached(world, frame', node', claimed', edges')
    BY <1>2, <2>4, DirReaches
  <2> QED
    BY <2>2, <2>3, <2>4, <2>5 DEF OwnersKept
<1>3. CASE Settle
  <2>1. phase = "walk" /\ phase' = "final" /\ world' = world
    BY <1>3 DEF Settle
  <2>2. settled' = "ok" /\ OwnersStand(world, node', leaves', edges')
    BY <1>3, <2>1, SettlesOwners DEF ScanKeeps, OwnersKept
  <2> QED
    BY <2>1, <2>2 DEF OwnersKept
<1>4. CASE EmitFinal \/ Return
  <2>1. /\ UNCHANGED <<world, node, leaves, edges, settled>>
        /\ phase \in {"final", "drain"} /\ phase' \in {"drain", "returned"}
    BY <1>4 DEF EmitFinal, Return
  <2> QED
    BY <2>1 DEF OwnersKept
<1>5. CASE Deliver \/ CancelScan \/ UNCHANGED scanVars
  <2>1. UNCHANGED <<world, phase, frame, node, leaves, claimed, edges, settled>>
    BY <1>5 DEF Deliver, CancelScan, scanVars
  <2> QED
    BY <2>1 DEF OwnersKept
<1> QED
  BY <1>1, <1>2, <1>3, <1>4, <1>5 DEF ScanNext, ScanStep

LEMMA OwnersBegin == Init => OwnersKept
BY DEF Init, ScanInit, ScanIdles, OwnersKept

\* So the property holds.
LEMMA KeepsOwners == ScanKeeps /\ OwnersKept => OwnersAreFirst
<1> SUFFICES ASSUME ScanKeeps, OwnersKept PROVE OwnersAreFirst
  OBVIOUS
<1>1. phase \in {"start", "walk", "final", "drain", "returned", "refused"}
  BY DEF ScanKeeps
<1>2. settled # "failed"
  BY <1>1 DEF OwnersKept
<1>3. ASSUME settled = "ok"
      PROVE  OwnersStand(world, node, leaves, edges)
  BY <1>1, <1>3 DEF OwnersKept
<1>4. \A l \in leaves : Deduplicated(l.dir, l.name) => Multiple(world, l.dir, l.name)
  BY DEF Deduplicated, Multiple, Follow, IsAlias, Target, Goal
<1> QED
  BY <1>2, <1>3, <1>4 DEF OwnersAreFirst, OwnersStand, Live, Appended

\* However far a scan came and whatever failed in it, the settling of owners
\* does not fail, and every directory and every file is owned by the smallest
\* of the paths on which the scan met it.
THEOREM OwnersAreSettled == Spec => []OwnersAreFirst
<1>1. Init => ScanKeeps /\ OwnersKept
  BY ScanBegins, OwnersBegin
<1>2. ScanKeeps /\ OwnersKept /\ [Next \/ Rests]_vars => (ScanKeeps /\ OwnersKept)'
  BY ScanMovesAlone, ScanGoesOn, OwnersGoOn
<1> QED
  BY <1>1, <1>2, KeepsOwners, PTL DEF Spec

-----------------------------------------------------------------------------
(***************************************************************************)
(* The program                                                             *)
(***************************************************************************)

\* Whatever the command, each component begins as it does alone, and moves as
\* it does alone or not at all.
LEMMA ComponentsMove ==
    /\ Init => SessionInit /\ IndexInit /\ SkillsInit
    /\ [Next \/ Rests]_vars =>
          /\ [SessionNext \/ SessionRests]_sessionVars
          /\ [IndexNext \/ IndexRests]_indexVars
          /\ [SkillsNext \/ SkillsRest]_skillVars
<1>1. Init => SessionInit /\ IndexInit /\ SkillsInit
  BY DEF Init, SessionIdles, IndexIdles
<1>2. ASSUME [Next \/ Rests]_vars
      PROVE  /\ [SessionNext \/ SessionRests]_sessionVars
             /\ [IndexNext \/ IndexRests]_indexVars
             /\ [SkillsNext \/ SkillsRest]_skillVars
  <2>1. CASE UNCHANGED vars
    <3>1. UNCHANGED sessionVars /\ UNCHANGED indexVars /\ UNCHANGED skillVars
      BY <2>1 DEF vars
    <3> QED
      BY <3>1
  <2>2. CASE Next
    BY <2>2 DEF Next, OnlyMoves
  <2> QED
    BY <1>2, <2>1, <2>2 DEF Rests
<1> QED
  BY <1>1, <1>2

\* The program runs each of its components as that component is specified: the
\* theorems about the session, the cached scans and the skill files are
\* theorems about the program.
THEOREM ProgramRunsSession == Spec => SessionSpec
BY ComponentsMove, PTL DEF Spec, SessionSpec

\* The same of the cached scans.
THEOREM ProgramRunsIndex == Spec => IndexSpec
BY ComponentsMove, PTL DEF Spec, IndexSpec

\* The same of the skill files.
THEOREM ProgramRunsSkills == Spec => SkillsSpec
BY ComponentsMove, PTL DEF Spec, SkillsSpec

\* The command is one of the four.
LEMMA CommandStays == Spec => [](command \in CommandNames)
<1>1. Init => command \in CommandNames
  BY DEF Init, CommandNames
<1>2. command \in CommandNames /\ [Next \/ Rests]_vars => (command \in CommandNames)'
  <2>1. [Next \/ Rests]_vars => command' = command
    BY DEF Next, OnlyMoves, Rests, vars
  <2> QED
    BY <2>1
<1> QED
  BY <1>1, <1>2, PTL DEF Spec

\* The scan stays within its types: every frame of scanDir and every node of the
\* tree, and never more than one snapshot in the channel (record, emitFinal).
THEOREM ScanTypes == Spec => []ScanTypeOK
BY ScanBegins, ScanGoesOn, ScanMovesAlone, KeepsScanTypes, PTL DEF Spec

\* Whatever the command, every part of the program stays within its types, those
\* that it does not use included.
THEOREM ProgramTypes == Spec => []TypeOK
BY CommandStays, ScanTypes, SessionTypes, IndexTypes, SkillsTypes,
   ProgramRunsSession, ProgramRunsIndex, ProgramRunsSkills, PTL DEF TypeOK

=============================================================================
