------------------------------- MODULE Skills -------------------------------
(***************************************************************************)
(* Installing and removing the skill files of the agents                   *)
(* (internal/skills/skills.go and internal/cli/skills.go): a command names *)
(* targets and profiles, resolves them to files, looks at all of them,     *)
(* refuses what somebody has changed, and then writes or removes one after *)
(* another, without a lock.  The user edits the files whenever he likes,   *)
(* and a command may fail or die between two of them.  A file is the name  *)
(* of its path; its text is a managed definition, recognised by the hash   *)
(* in its marker, or something the user wrote.                             *)
(***************************************************************************)
EXTENDS Integers, Sequences, SequencesExt, FiniteSets

CONSTANTS
    Commands,              \* the commands that run
    Requests,              \* what a command may be asked
    MaxEdits, MaxFailures  \* bounds

Targets == <<"codex", "claude">>
Profiles == <<"read-only", "operator", "administrator">>
NoExact == "default"

\* Where a target's skill of a profile is: a path of its own, or the exact one
\* the user has named for the target.
PathOf(request, t, p) ==
    IF request.exact[t] = NoExact THEN <<t, p>> ELSE <<"exact", request.exact[t]>>

Pairs(request) ==
    {x \in (1..Len(Targets)) \X (1..Len(Profiles)) :
        Targets[x[1]] \in request.targets /\ Profiles[x[2]] \in request.profiles}
Locations(request) ==
    LET before(x, y) == x[1] < y[1] \/ (x[1] = y[1] /\ x[2] < y[2])
    IN [k \in 1..Cardinality(Pairs(request)) |->
          LET x == SetToSortSeq(Pairs(request), before)[k]
          IN [path |-> PathOf(request, Targets[x[1]], Profiles[x[2]]), profile |-> Profiles[x[2]]]]

ToSetOfPaths(locations) == {locations[k].path : k \in DOMAIN locations}

\* resolveSkillLocations and uniqueLocations.
Resolvable(request) ==
    LET exact == {t \in ToSet(Targets) : request.exact[t] # NoExact} IN
    /\ exact \subseteq request.targets
    /\ exact # {} => Cardinality(request.profiles) = 1
    /\ Cardinality(ToSetOfPaths(Locations(request))) = Len(Locations(request))

\* loadSkillRules: the administrator's skill needs rules, and nobody else's
\* takes any.  A template nobody has edited is refused later, by Definition.
RulesFit(request) ==
    request.op = "install" =>
        ("administrator" \in request.profiles <=> request.rules # "none")
Definable(request) == request.rules # "template"

ASSUME SkillsAssumption ==
    /\ IsFiniteSet(Commands) /\ MaxEdits \in Nat /\ MaxFailures \in Nat
    /\ \A r \in Requests :
        /\ r.op \in {"install", "remove"} /\ r.force \in BOOLEAN
        /\ r.targets # {} /\ r.targets \subseteq ToSet(Targets)
        /\ r.profiles # {} /\ r.profiles \subseteq ToSet(Profiles)
        /\ DOMAIN r.exact = ToSet(Targets)

Paths == UNION {ToSetOfPaths(Locations(r)) : r \in Requests}

\* Definition: what an installation writes.
Definition(request, profile) ==
    [kind |-> "managed", profile |-> profile,
     rules |-> IF profile = "administrator" THEN request.rules ELSE "none"]

Missing == [kind |-> "missing", profile |-> "none", rules |-> "none"]
Edited == [kind |-> "edited", profile |-> "none", rules |-> "none"]

\* stateAt and managedState: another profile's definition is not this one's.
StateOf(text, profile) ==
    IF text.kind = "missing" THEN "missing"
    ELSE IF text.kind = "managed" /\ text.profile = profile THEN "installed"
    ELSE "modified"

VARIABLES
    file,       \* the text at each path
    asked,      \* the command each of Commands runs
    edits, failures,
    \* What the properties remember.
    crossed,    \* the files others have changed since a command looked at them
    wrote,      \* the files a command has changed
    handmade    \* the files the user has ever changed

skillVars == <<file, asked, edits, failures, crossed, wrote, handmade>>

NoRequest == [op |-> "none", targets |-> {}, profiles |-> {}, exact |-> <<>>,
              rules |-> "none", force |-> FALSE]
Unasked == [pc |-> "idle", request |-> NoRequest, at |-> 1, seen |-> <<>>, result |-> "none"]

PlaceOf(c) == Locations(asked[c].request)[asked[c].at]
Failure == failures < MaxFailures /\ failures' = failures + 1
Moves(c, pc) == asked' = [asked EXCEPT ![c].pc = pc]
Ends(c, result) == asked' = [asked EXCEPT ![c].pc = "over", ![c].result = result]
Advances(c) ==
    asked' = IF asked[c].at = Len(Locations(asked[c].request))
             THEN [asked EXCEPT ![c].pc = "over", ![c].result = "ok"]
             ELSE [asked EXCEPT ![c].pc = "next", ![c].at = @ + 1]

\* Command c changes a file, or leaves it: every other command that has looked
\* at it is crossed.
Writes(c, path, text) ==
    /\ file' = [file EXCEPT ![path] = text]
    /\ wrote' = IF file[path] = text THEN wrote ELSE [wrote EXCEPT ![c] = @ \cup {path}]
    /\ crossed' = [d \in Commands |->
                     IF d # c /\ file[path] # text THEN crossed[d] \cup {path} ELSE crossed[d]]
Leaves == UNCHANGED <<file, wrote, crossed>>

-----------------------------------------------------------------------------

\* The command line is read, the paths are resolved, the rules loaded.
AskFor(c) ==
    /\ asked[c].pc = "idle"
    /\ \E r \in Requests :
          asked' = [asked EXCEPT
            ![c].request = r,
            ![c].pc = IF Resolvable(r) /\ RulesFit(r) THEN "status" ELSE "over",
            ![c].result = IF Resolvable(r) /\ RulesFit(r) THEN "none" ELSE "invalid"]
    /\ Leaves /\ UNCHANGED <<edits, failures, handmade>>

\* Status: one file after another.  What others do before a file is looked at
\* is no matter.
Look(c) ==
    /\ asked[c].pc = "status"
    /\ \/ /\ asked' = [asked EXCEPT
                ![c].seen = Append(@, StateOf(file[PlaceOf(c).path], PlaceOf(c).profile)),
                ![c].at = IF @ = Len(Locations(asked[c].request)) THEN 1 ELSE @ + 1,
                ![c].pc = IF asked[c].at = Len(Locations(asked[c].request))
                          THEN "check" ELSE "status"]
          /\ crossed' = [crossed EXCEPT ![c] = @ \ {PlaceOf(c).path}]
          /\ UNCHANGED failures
       \/ Failure /\ Ends(c, "error") /\ UNCHANGED crossed
    /\ UNCHANGED <<file, wrote, edits, handmade>>

\* Slip: a conflict is looked for at the first file only.
CheckFirst(c) ==
    /\ asked[c].pc = "check"
    /\ IF asked[c].request.op = "install" /\ ~Definable(asked[c].request)
       THEN Ends(c, "invalid")
       ELSE IF ~asked[c].request.force /\ asked[c].seen[1] = "modified"
            THEN Ends(c, "conflict")
            ELSE Moves(c, "next")
    /\ Leaves /\ UNCHANGED <<edits, failures, handmade>>

\* The definitions, then all conflicts, before the first write.
Check(c) ==
    /\ asked[c].pc = "check"
    /\ IF asked[c].request.op = "install" /\ ~Definable(asked[c].request)
       THEN Ends(c, "invalid")
       ELSE IF ~asked[c].request.force /\ "modified" \in ToSet(asked[c].seen)
            THEN Ends(c, "conflict")
            ELSE Moves(c, "next")
    /\ Leaves /\ UNCHANGED <<edits, failures, handmade>>

\* What was managed is compared with the definition, and left if it is that
\* already; what was missing is not there to be removed.  The boundary of the
\* project is validated again, and may fail.
Consider(c) ==
    /\ asked[c].pc = "next"
    /\ LET seen == asked[c].seen[asked[c].at]
           text == file[PlaceOf(c).path]
           skip == IF asked[c].request.op = "install"
                   THEN seen = "installed" /\ text = Definition(asked[c].request, PlaceOf(c).profile)
                   ELSE seen = "missing"
           gone == asked[c].request.op = "install" /\ seen = "installed" /\ text = Missing
       IN \/ ~gone /\ skip /\ Advances(c) /\ UNCHANGED failures
          \/ ~gone /\ ~skip /\ Moves(c, "act") /\ UNCHANGED failures
          \/ gone /\ Ends(c, "error") /\ UNCHANGED failures
          \/ Failure /\ Ends(c, "error")
    /\ Leaves /\ UNCHANGED <<edits, handmade>>

\* Slip: the definition is written over the file itself.
ActInPlace(c) ==
    /\ asked[c].pc = "act" /\ UNCHANGED <<edits, handmade>>
    /\ IF asked[c].request.op = "install"
       THEN \/ /\ Writes(c, PlaceOf(c).path, Definition(asked[c].request, PlaceOf(c).profile))
               /\ Advances(c) /\ UNCHANGED failures
            \/ Writes(c, PlaceOf(c).path, Edited) /\ Failure /\ Ends(c, "error")
       ELSE Writes(c, PlaceOf(c).path, Missing) /\ Advances(c) /\ UNCHANGED failures

\* A temporary file and one rename, or a removal by name, of whatever is there
\* now.
Act(c) ==
    /\ asked[c].pc = "act" /\ UNCHANGED <<edits, handmade>>
    /\ \/ /\ Writes(c, PlaceOf(c).path,
                    IF asked[c].request.op = "install"
                    THEN Definition(asked[c].request, PlaceOf(c).profile) ELSE Missing)
          /\ Advances(c) /\ UNCHANGED failures
       \/ Leaves /\ Failure /\ Ends(c, "error")

\* The process dies.  Its temporary file, if it had one, is nobody's skill.
Killed(c) ==
    /\ asked[c].pc \notin {"idle", "over"}
    /\ Failure /\ Ends(c, "dead") /\ Leaves /\ UNCHANGED <<edits, handmade>>

\* The user writes or removes a file.
UserEdits ==
    /\ edits < MaxEdits /\ edits' = edits + 1
    /\ \E path \in Paths, text \in {Edited, Missing} :
          /\ file[path] # text
          /\ file' = [file EXCEPT ![path] = text]
          /\ crossed' = [c \in Commands |-> crossed[c] \cup {path}]
          /\ handmade' = handmade \cup {path}
    /\ UNCHANGED <<asked, failures, wrote>>

SkillsInit ==
    /\ file = [path \in Paths |-> Missing]
    /\ asked = [c \in Commands |-> Unasked]
    /\ edits = 0 /\ failures = 0
    /\ crossed = [c \in Commands |-> {}] /\ wrote = [c \in Commands |-> {}]
    /\ handmade = {}

SkillsNext ==
    \/ UserEdits
    \/ \E c \in Commands :
          AskFor(c) \/ Look(c) \/ Check(c) \/ Consider(c) \/ Act(c) \/ Killed(c)

SkillsRest == (\A c \in Commands : asked[c].pc = "over") /\ UNCHANGED skillVars

SkillsSpec == SkillsInit /\ [][SkillsNext \/ SkillsRest]_skillVars

-----------------------------------------------------------------------------

SkillsTypeOK ==
    /\ DOMAIN file = Paths
    /\ \A path \in Paths : file[path].kind \in {"missing", "edited", "managed"}
    /\ \A c \in Commands :
        /\ asked[c].pc \in {"idle", "status", "check", "next", "act", "over"}
        /\ asked[c].result \in {"none", "ok", "invalid", "conflict", "error", "dead"}
        /\ crossed[c] \subseteq Paths /\ wrote[c] \subseteq Paths
    /\ edits \in 0..MaxEdits /\ failures \in 0..MaxFailures /\ handmade \subseteq Paths

\* What the user wrote is lost to a command that was not forced only if it was
\* written after the command had looked at that file; and a command that is
\* refused for one file, or for its rules, has changed none, however many it
\* was to write (Install, Remove).
EditsSurvive ==
    [][/\ \A path \in Paths :
            file[path] = Edited /\ file'[path] # Edited /\ edits' = edits =>
                \E c \in Commands :
                    asked[c].pc = "act" /\ (asked[c].request.force \/ path \in crossed[c])
       /\ \A c \in Commands :
            asked'[c].result \in {"conflict", "invalid"} => wrote'[c] = {}]_skillVars

\* Nothing a command leaves behind, whole or cut off at any point, stands in
\* the way of running it again: a conflict is with the user's text or with
\* another profile's skill.  And a command that reports success has done what
\* it was asked at every file nobody else has changed since.
RetryGoesThrough ==
    \A c \in Commands :
        LET places == Locations(asked[c].request) IN
        /\ asked[c].result = "conflict" =>
              \E k \in DOMAIN places :
                  \/ places[k].path \in handmade
                  \/ \E r \in Requests, j \in 1..6 :
                        /\ j \in DOMAIN Locations(r)
                        /\ Locations(r)[j].path = places[k].path
                        /\ Locations(r)[j].profile # places[k].profile
        /\ asked[c].result = "ok" =>
              \A k \in DOMAIN places :
                  \/ places[k].path \in crossed[c]
                  \/ file[places[k].path] =
                        IF asked[c].request.op = "install"
                        THEN Definition(asked[c].request, places[k].profile) ELSE Missing

=============================================================================
