----------------------------- MODULE PlanApply -----------------------------
(***************************************************************************)
(* applyPlan of internal/fsops: the operations of one plan, in order, each *)
(* bracketed by an intent and an outcome record in the audit log.  A run   *)
(* is one invocation; a crash or power loss may end it anywhere, and the   *)
(* same plan may be applied again to the same audit file.  What a single   *)
(* operation does to its destination is GuardedReplace's subject: here it  *)
(* leaves its target untouched, partly changed or done, and reports one of *)
(* the errors that execute can return.                                     *)
(***************************************************************************)
EXTENDS Naturals

CONSTANTS
    N,            \* number of operations in the plan
    MaxRuns,      \* bound: invocations of apply
    Repeatable,   \* operations whose guards still hold once done (chmod, chown)
    AuditKinds    \* the audit set-ups this instance explores

ASSUME SizeAssumption == N \in Nat \ {0} /\ MaxRuns \in Nat
ASSUME RepeatableAssumption == Repeatable \subseteq 1..N
ASSUME AuditAssumption == AuditKinds \subseteq {"disabled", "unsynced", "owned"}

VARIABLES
    audit,    \* disabled; a caller's writer without Sync; or an owned file
    dry,      \* opts.DryRun of this run
    run,      \* number of this run, 0 before the first
    pc,       \* where applyPlan stands
    cur,      \* the operation at hand
    pending,  \* its Result under construction
    result,   \* the results slice, by operation
    log,      \* the records written to the audit log
    durable,  \* those of them a power loss cannot take
    world     \* what has become of each operation's target

vars == <<audit, dry, run, pc, cur, pending, result, log, durable, world>>
config == <<audit, dry, run>>
journal == <<log, durable>>

Ops == 1..N
World == {"untouched", "partly", "done"}
Step == {"idle", "validate", "open", "top", "intent", "intentSync", "execute",
         "mutating", "outcome", "outcomeSync", "close"}
AuditStatus == {"disabled", "not_attempted", "written", "durable", "failed"}
Result == [status : {"none", "ok", "error", "partial"}, completed : BOOLEAN,
           mutated : BOOLEAN, intent : AuditStatus, outcome : AuditStatus]
Record == [run : 1..MaxRuns, op : Ops, dry : BOOLEAN, phase : {"intent", "outcome"},
           status : {"intent", "ok", "error", "partial"}]

\* The Result a loop iteration starts from.
NewResult(auditStatus) ==
    [status |-> "ok", completed |-> FALSE, mutated |-> FALSE,
     intent |-> auditStatus, outcome |-> auditStatus]

NoResult == [NewResult("disabled") EXCEPT !.status = "none"]

Intent == [run |-> run, op |-> cur, dry |-> dry, phase |-> "intent", status |-> "intent"]

\* Slip: the outcome is recorded as it was when the operation was announced.
OutcomeAsAnnounced ==
    [run |-> run, op |-> cur, dry |-> dry, phase |-> "outcome", status |-> "ok"]

Outcome ==
    [run |-> run, op |-> cur, dry |-> dry, phase |-> "outcome", status |-> pending.status]

Init ==
    /\ audit \in AuditKinds
    /\ dry = FALSE
    /\ run = 0
    /\ pc = "idle"
    /\ cur = 1
    /\ pending = NoResult
    /\ result = [i \in Ops |-> NoResult]
    /\ log = {} /\ durable = {}
    /\ world = [i \in Ops |-> "untouched"]

-----------------------------------------------------------------------------
(***************************************************************************)
(* Before the first operation                                              *)
(***************************************************************************)

Start ==
    /\ pc = "idle" /\ run < MaxRuns
    /\ run' = run + 1
    /\ dry' \in BOOLEAN
    /\ pc' = "validate"
    /\ cur' = 1
    /\ pending' = NoResult
    /\ result' = [i \in Ops |-> NoResult]
    /\ UNCHANGED <<audit, world>> /\ UNCHANGED journal

\* A done operation made its own guards stale, unless it is repeatable; one
\* that was cut short may or may not have.
StillValid == \A i \in Ops : world[i] = "done" => i \in Repeatable

\* A rejected operation gets a result; a bad header or a cancellation does not.
PrevalidatePlan ==
    /\ pc = "validate"
    /\ \/ StillValid /\ pc' = "open" /\ UNCHANGED result
       \/ pc' = "idle" /\ UNCHANGED result
       \/ \E i \in Ops :
            /\ result' = [result EXCEPT ![i] = [NoResult EXCEPT !.status = "error"]]
            /\ pc' = "idle"
    /\ UNCHANGED <<cur, pending, world>> /\ UNCHANGED config /\ UNCHANGED journal

\* An owned audit file may be misplaced or fail to open.
PrepareAudit ==
    /\ pc = "open"
    /\ \/ pc' = "top"
       \/ audit = "owned" /\ pc' = "idle"
    /\ UNCHANGED <<cur, pending, result, world>> /\ UNCHANGED config /\ UNCHANGED journal

-----------------------------------------------------------------------------
(***************************************************************************)
(* The loop                                                                *)
(***************************************************************************)

\* The context is looked at before each operation and nowhere else.
NextOperation ==
    /\ pc = "top"
    /\ \/ /\ cur <= N
          /\ pending' = NewResult(IF audit = "disabled" THEN "disabled" ELSE "not_attempted")
          /\ pc' = "intent"
       \/ /\ pc' = "close"
          /\ UNCHANGED pending
    /\ UNCHANGED <<cur, result, world>> /\ UNCHANGED config /\ UNCHANGED journal

\* An intent that cannot be persisted ends the run before any mutation.
IntentLost ==
    /\ result' = [result EXCEPT ![cur] =
                    [pending EXCEPT !.status = "error", !.intent = "failed"]]
    /\ pc' = "close"
    /\ UNCHANGED pending

WriteIntent ==
    /\ pc = "intent"
    /\ \/ /\ audit = "disabled"
          /\ pc' = "execute"
          /\ UNCHANGED <<pending, result, log>>
       \/ /\ audit # "disabled"
          /\ log' = log \union {Intent}
          /\ pending' = [pending EXCEPT !.intent = "written"]
          /\ pc' = IF audit = "owned" THEN "intentSync" ELSE "execute"
          /\ UNCHANGED result
       \/ /\ audit # "disabled"
          /\ log' \in {log, log \union {Intent}}
          /\ IntentLost
    /\ UNCHANGED <<cur, durable, world>> /\ UNCHANGED config

\* Slip: the file is not synced after all.
SyncedNothing == durable

\* What Sync makes durable: everything written to the file so far.
Synced == log

SyncIntent ==
    /\ pc = "intentSync"
    /\ \/ /\ durable' = Synced
          /\ pending' = [pending EXCEPT !.intent = "durable"]
          /\ pc' = "execute"
          /\ UNCHANGED result
       \/ /\ IntentLost
          /\ UNCHANGED durable
    /\ UNCHANGED <<cur, log, world>> /\ UNCHANGED config

\* A dry run does nothing here. Every check of execute may refuse.
Execute ==
    /\ pc = "execute"
    /\ \/ dry /\ pc' = "outcome" /\ UNCHANGED pending
       \/ ~dry /\ pc' = "outcome" /\ pending' = [pending EXCEPT !.status = "error"]
       \/ ~dry /\ pc' = "mutating" /\ UNCHANGED pending
    /\ UNCHANGED <<cur, result, world>> /\ UNCHANGED config /\ UNCHANGED journal

\* A plain error usually means rolled back, but may leave residue behind.
Mutate ==
    /\ pc = "mutating"
    /\ \/ /\ world' = [world EXCEPT ![cur] = "done"]
          /\ pending' = [pending EXCEPT !.completed = TRUE]
       \/ /\ world' = [world EXCEPT ![cur] = "partly"]
          /\ pending' = [pending EXCEPT !.status = "partial", !.mutated = TRUE]
       \/ /\ world' \in {world, [world EXCEPT ![cur] = "partly"]}
          /\ pending' = [pending EXCEPT !.status = "error"]
    /\ pc' = "outcome"
    /\ UNCHANGED <<cur, result>> /\ UNCHANGED config /\ UNCHANGED journal

-----------------------------------------------------------------------------
(***************************************************************************)
(* The outcome record                                                      *)
(***************************************************************************)

\* Slip: a completed mutation is forgotten when its audit fails.
MarkAuditFailureForgets(r) ==
    [r EXCEPT !.outcome = "failed",
              !.status = IF r.mutated THEN "partial" ELSE "error"]

MarkAuditFailure(r) ==
    [r EXCEPT !.outcome = "failed",
              !.status = IF r.completed \/ r.mutated THEN "partial" ELSE "error",
              !.mutated = r.completed \/ r.mutated]

\* Slip: an operation's error does not end the loop.
AdvanceAlways(r) ==
    /\ result' = [result EXCEPT ![cur] = r]
    /\ cur' = cur + 1
    /\ pc' = "top"

\* The loop goes on after success alone.
Advance(r) ==
    /\ result' = [result EXCEPT ![cur] = r]
    /\ IF r.status = "ok" THEN cur' = cur + 1 /\ pc' = "top"
                          ELSE UNCHANGED cur /\ pc' = "close"

\* Slip: the loop goes on although the outcome was not persisted.
OutcomeLostGoesOn == Advance(pending)

OutcomeLost ==
    /\ result' = [result EXCEPT ![cur] = MarkAuditFailure(pending)]
    /\ pc' = "close"
    /\ UNCHANGED cur

WriteOutcome ==
    /\ pc = "outcome"
    /\ \/ /\ audit = "disabled"
          /\ Advance(pending)
          /\ UNCHANGED <<pending, log>>
       \/ /\ audit = "unsynced"
          /\ log' = log \union {Outcome}
          /\ Advance([pending EXCEPT !.outcome = "written"])
          /\ UNCHANGED pending
       \/ /\ audit = "owned"
          /\ log' = log \union {Outcome}
          /\ pc' = "outcomeSync"
          /\ UNCHANGED <<cur, pending, result>>
       \/ /\ audit # "disabled"
          /\ log' \in {log, log \union {Outcome}}
          /\ OutcomeLost
          /\ UNCHANGED pending
    /\ UNCHANGED <<durable, world>> /\ UNCHANGED config

SyncOutcome ==
    /\ pc = "outcomeSync"
    /\ \/ /\ durable' = Synced
          /\ Advance([pending EXCEPT !.outcome = "durable"])
       \/ /\ OutcomeLost
          /\ UNCHANGED durable
    /\ UNCHANGED <<pending, log, world>> /\ UNCHANGED config

\* results[len(results)-1], the operation a close failure is charged to.
HasResult(i) == result[i].status # "none"
IsLast(i) == HasResult(i) /\ \A j \in Ops : j > i => ~HasResult(j)

CloseAudit ==
    /\ pc = "close"
    /\ \/ UNCHANGED result
       \/ /\ audit = "owned"
          /\ result' = [i \in Ops |-> IF IsLast(i) THEN MarkAuditFailure(result[i])
                                                   ELSE result[i]]
    /\ pc' = "idle"
    /\ UNCHANGED <<cur, pending, world>> /\ UNCHANGED config /\ UNCHANGED journal

-----------------------------------------------------------------------------
\* The process dies, or the power fails: of the records written and not
\* synced any may be lost, and an operation under way stops anywhere.
Crash ==
    /\ pc' = "idle"
    /\ \E kept \in SUBSET (log \ durable) :
        /\ log' = durable \union kept
        /\ durable' = durable \union kept
    /\ IF pc = "mutating"
       THEN world' \in {[world EXCEPT ![cur] = w] : w \in {world[cur], "partly", "done"}}
       ELSE UNCHANGED world
    /\ result' = IF pc = "idle" THEN result ELSE [i \in Ops |-> NoResult]
    /\ UNCHANGED <<cur, pending>> /\ UNCHANGED config

Terminated == pc = "idle" /\ run = MaxRuns /\ UNCHANGED vars

Next ==
    \/ Start \/ PrevalidatePlan \/ PrepareAudit \/ NextOperation
    \/ WriteIntent \/ SyncIntent \/ Execute \/ Mutate
    \/ WriteOutcome \/ SyncOutcome \/ CloseAudit
    \/ Crash \/ Terminated

Spec == Init /\ [][Next]_vars

-----------------------------------------------------------------------------
\* Types, and nothing is durable that was not written.
TypeOK ==
    /\ audit \in AuditKinds
    /\ dry \in BOOLEAN
    /\ run \in 0..MaxRuns
    /\ pc \in Step
    /\ pc # "idle" => run >= 1
    /\ cur \in 1..(N + 1)
    /\ pc \in {"intent", "intentSync", "execute", "mutating", "outcome", "outcomeSync"}
            => cur \in Ops /\ pending.status # "none"
    /\ pending \in Result
    /\ result \in [Ops -> Result]
    /\ log \in SUBSET Record
    /\ durable \in SUBSET log
    /\ world \in [Ops -> World]

Announced(r, i) == \E d \in durable : d.run = r /\ d.op = i /\ d.phase = "intent"
Settled(r, i) == \E d \in durable : d.run = r /\ d.op = i /\ d.phase = "outcome"

\* With an owned audit file, whatever the file system shows of an operation,
\* now or after a power loss, the surviving log announced it beforehand.
WriteAhead ==
    audit = "owned" =>
        \A i \in Ops :
            world[i] # "untouched" \/ (pc = "mutating" /\ cur = i)
                => \E r \in 1..MaxRuns : Announced(r, i)

\* A target changes only while its latest announcement is open: an operation
\* whose outcome is durable does not move again before a new intent is.
ChangesAreAnnounced ==
    [][audit = "owned" =>
        \A i \in Ops :
            world'[i] # world[i] => Announced(run, i) /\ ~Settled(run, i)]_vars

\* A reader of the surviving log has at most one operation of each run to
\* reconcile, and every earlier one of that run succeeded.
OneInDoubt ==
    audit = "owned" =>
        \A a \in log :
            a.phase = "intent" =>
                \A j \in 1..(a.op - 1) :
                    \E d \in durable : /\ d.run = a.run /\ d.op = j
                                       /\ d.phase = "outcome" /\ d.status = "ok"

\* Whatever a power loss left of the log can be believed: an operation whose
\* last surviving record is a real run's "ok" is done.
LogIsTrue ==
    audit = "owned" =>
        \A d \in log :
            /\ d.phase = "outcome" /\ d.status = "ok" /\ ~d.dry
            /\ ~ \E later \in log :
                   later.op = d.op /\ later.run > d.run /\ later.phase = "intent"
            => world[d.op] = "done"

\* A completed mutation is never reported as a plain error: it is "ok" with
\* its outcome persisted as far as the log allows, or "partial" when the
\* outcome could not be.
CompletedIsAccounted ==
    \A i \in Ops :
        result[i].completed =>
            /\ world[i] = "done"
            /\ \/ /\ result[i].status = "ok"
                  /\ result[i].outcome = CASE audit = "disabled" -> "disabled"
                                           [] audit = "unsynced" -> "written"
                                           [] OTHER -> "durable"
               \/ /\ result[i].status = "partial" /\ result[i].mutated
                  /\ result[i].outcome = "failed"

\* After a result other than "ok" the run touches nothing more, and a dry run
\* touches nothing at all.
StopsAtFirstFailure ==
    [][world' # world =>
        ~dry /\ \A i \in Ops : result[i].status \in {"none", "ok"}]_vars
=============================================================================
