-------------------------- MODULE PlanApplyProofs --------------------------
(***************************************************************************)
(* What PlanApply.tla promises, for plans of any length and any number of  *)
(* runs.  The audit properties rest on one inductive invariant: where the  *)
(* loop stands bounds what the log holds of the current run, everything    *)
(* before the current operation is durably settled, and the current one is *)
(* durably announced from the moment it may touch anything.                *)
(***************************************************************************)
EXTENDS PlanApply, TreeDelete, TLAPS

InLoop == pc \in {"top", "intent", "intentSync", "execute", "mutating",
                  "outcome", "outcomeSync"}
AtOutcome == pc \in {"outcome", "outcomeSync"}

\* What the log holds of the current run follows from where the run stands.
LogOrder ==
    \A d \in log :
        /\ d.run <= run
        /\ d.run = run /\ pc # "idle" =>
            /\ pc \notin {"validate", "open"}
            /\ d.op <= cur
            /\ pc \in {"top", "intent"} => d.op < cur
            /\ pc \in {"intentSync", "execute", "mutating", "outcome"} /\ d.op = cur
                    => d.phase = "intent"

\* An operation is announced before it is executed.
AnnouncedNow ==
    audit = "owned" =>
        /\ pc = "intentSync" => Intent \in log
        /\ pc \in {"execute", "mutating", "outcome", "outcomeSync"} => Announced(run, cur)

SettledOk(r, j) ==
    \E d \in durable : d.run = r /\ d.op = j /\ d.phase = "outcome" /\ d.status = "ok"

\* Every operation before the current one is settled.
EarlierSettled == audit = "owned" /\ InLoop => \A j \in 1..(cur - 1) : SettledOk(run, j)

\* The loop starts at the first operation, and an outcome is synced after it
\* was written.
AtFirst == pc \in {"validate", "open"} => cur = 1
PendingLogged == pc = "outcomeSync" => Outcome \in log
SyncOwned == pc = "outcomeSync" => audit = "owned"

\* A result is not a success before its target is done.
PendingTrue ==
    /\ pc = "mutating" => ~dry
    /\ pc \in {"intent", "intentSync", "execute", "mutating"}
            => pending.status = "ok" /\ ~pending.completed
    /\ AtOutcome /\ pending.status = "ok" /\ ~dry => world[cur] = "done"
    /\ AtOutcome /\ pending.completed => pending.status = "ok" /\ world[cur] = "done"
    /\ InLoop /\ pc # "top" /\ audit = "disabled" => pending.outcome = "disabled"

\* The current operation and those after it have no result yet.
ResultsTrue ==
    InLoop \/ pc \in {"validate", "open"} =>
        \A i \in Ops : /\ result[i].status \in {"none", "ok"}
                       /\ i >= cur => result[i] = NoResult

\* A success in the log is true unless a later announcement survives for sure.
SuccessesTrue ==
    audit = "owned" =>
        \A d \in log :
            d.phase = "outcome" /\ d.status = "ok" /\ ~d.dry =>
                \/ world[d.op] = "done"
                \/ \E later \in durable :
                       later.op = d.op /\ later.run > d.run /\ later.phase = "intent"

IInv ==
    /\ TypeOK /\ LogOrder /\ AnnouncedNow /\ EarlierSettled /\ AtFirst /\ PendingLogged
    /\ SyncOwned /\ PendingTrue /\ ResultsTrue
    /\ WriteAhead /\ OneInDoubt /\ SuccessesTrue /\ CompletedIsAccounted

-----------------------------------------------------------------------------
\* The Results the loop works on are Results.
LEMMA ResultTypes ==
    /\ NoResult \in Result
    /\ [NoResult EXCEPT !.status = "error"] \in Result
    /\ \A a \in AuditStatus : NewResult(a) \in Result
    /\ \A r \in Result :
        /\ MarkAuditFailure(r) \in Result
        /\ [r EXCEPT !.status = "error", !.intent = "failed"] \in Result
        /\ \A a \in AuditStatus : /\ [r EXCEPT !.intent = a] \in Result
                                  /\ [r EXCEPT !.outcome = a] \in Result
  BY DEF NoResult, NewResult, Result, AuditStatus, MarkAuditFailure

LEMMA InitTypeOK == Init => TypeOK
<1> SUFFICES ASSUME Init PROVE TypeOK
  OBVIOUS
<1>1. result \in [Ops -> Result] /\ world \in [Ops -> World] /\ pending \in Result
  BY ResultTypes DEF Init, World
<1>2. cur \in 1..(N + 1) /\ run \in 0..MaxRuns
  BY SizeAssumption DEF Init
<1>3. dry \in BOOLEAN /\ log \in SUBSET Record /\ durable \in SUBSET log
  BY DEF Init
<1>4. /\ pc \in Step /\ pc = "idle"
      /\ pc \notin {"intent", "intentSync", "execute", "mutating", "outcome", "outcomeSync"}
  BY DEF Init, Step
<1> QED
  BY <1>1, <1>2, <1>3, <1>4 DEF Init, TypeOK

\* A run that ends because its intent was lost keeps the types.
LEMMA IntentLostTypes ==
    ASSUME TypeOK, cur \in Ops, IntentLost
    PROVE  pc' = "close" /\ pending' \in Result /\ result' \in [Ops -> Result]
  BY ResultTypes DEF TypeOK, IntentLost

\* So does storing the result of an operation, its outcome persisted or not.
LEMMA OutcomeTypes ==
    ASSUME TypeOK, cur \in Ops
    PROVE  /\ \A r \in Result :
                Advance(r) => /\ pc' \in {"top", "close"}
                              /\ result' \in [Ops -> Result]
                              /\ cur' \in 1..(N + 1)
           /\ OutcomeLost => /\ pc' = "close"
                             /\ result' \in [Ops -> Result]
                             /\ cur' = cur
<1>1. \A r \in Result : [result EXCEPT ![cur] = r] \in [Ops -> Result]
  BY DEF TypeOK
<1>2. cur + 1 \in 1..(N + 1) /\ cur \in 1..(N + 1)
  BY SizeAssumption DEF TypeOK, Ops
<1>3. MarkAuditFailure(pending) \in Result
  BY ResultTypes DEF TypeOK
<1> QED
  BY <1>1, <1>2, <1>3 DEF Advance, OutcomeLost

\* Every step of a run and every crash keeps the types.
LEMMA TypeStep == TypeOK /\ [Next]_vars => TypeOK'
<1> SUFFICES ASSUME TypeOK, [Next]_vars PROVE TypeOK'
  OBVIOUS
<1> USE SizeAssumption
<1>1. CASE Start
  <2>1. result' \in [Ops -> Result]
    BY <1>1, ResultTypes DEF Start
  <2>2. run' \in 0..MaxRuns /\ run' >= 1
    BY <1>1 DEF Start, TypeOK
  <2>3. cur' \in 1..(N + 1)
    BY <1>1 DEF Start
  <2>4. /\ pc' \in Step
        /\ pc' \notin {"intent", "intentSync", "execute", "mutating", "outcome", "outcomeSync"}
    BY <1>1 DEF Start, Step
  <2> QED
    BY <1>1, <2>1, <2>2, <2>3, <2>4, ResultTypes DEF Start, TypeOK, journal
<1>2. CASE PrevalidatePlan
  <2>1. result' \in [Ops -> Result]
    BY <1>2, ResultTypes DEF PrevalidatePlan, TypeOK
  <2> QED
    BY <1>2, <2>1 DEF PrevalidatePlan, TypeOK, config, journal, Step
<1>3. CASE PrepareAudit
  BY <1>3 DEF PrepareAudit, TypeOK, config, journal, Step
<1>4. CASE NextOperation
  <2>1. pending' \in Result
    BY <1>4, ResultTypes DEF NextOperation, TypeOK, AuditStatus
  <2>2. pc' = "intent" => cur \in Ops /\ pending'.status # "none"
    BY <1>4 DEF NextOperation, NewResult, TypeOK, Ops
  <2> QED
    BY <1>4, <2>1, <2>2 DEF NextOperation, TypeOK, config, journal, Step
<1>5. CASE WriteIntent
  <2>1. cur \in Ops
    BY <1>5 DEF WriteIntent, TypeOK
  <2>2. log' \in SUBSET Record /\ log \subseteq log'
    BY <1>5, <2>1 DEF WriteIntent, Intent, Record, TypeOK
  <2>3. /\ pending' \in Result
        /\ result' \in [Ops -> Result]
        /\ pc' \in {"execute", "intentSync", "close"}
    BY <1>5, <2>1, ResultTypes, IntentLostTypes DEF WriteIntent, TypeOK, AuditStatus
  <2>4. pending'.status # "none"
    BY <1>5 DEF WriteIntent, IntentLost, TypeOK, Result
  <2> QED
    BY <1>5, <2>1, <2>2, <2>3, <2>4 DEF WriteIntent, TypeOK, config, Step
<1>6. CASE SyncIntent
  <2>1. cur \in Ops
    BY <1>6 DEF SyncIntent, TypeOK
  <2>2. /\ pending' \in Result
        /\ result' \in [Ops -> Result]
        /\ pc' \in {"execute", "close"}
    BY <1>6, <2>1, ResultTypes, IntentLostTypes DEF SyncIntent, TypeOK, AuditStatus
  <2>3. pending'.status # "none"
    BY <1>6 DEF SyncIntent, IntentLost, TypeOK, Result
  <2> QED
    BY <1>6, <2>1, <2>2, <2>3 DEF SyncIntent, Synced, TypeOK, config, Step
<1>7. CASE Execute
  BY <1>7 DEF Execute, TypeOK, config, journal, Step, Ops, Result, AuditStatus
<1>8. CASE Mutate
  BY <1>8 DEF Mutate, TypeOK, config, journal, Step, Ops, Result, AuditStatus, World
<1>9. CASE WriteOutcome
  <2>1. cur \in Ops
    BY <1>9 DEF WriteOutcome, TypeOK
  <2>2. pending.status # "none" => log' \in SUBSET Record
    BY <1>9, <2>1 DEF WriteOutcome, Outcome, Record, Result, TypeOK
  <2>3. /\ result' \in [Ops -> Result]
        /\ pc' \in {"outcomeSync", "top", "close"}
        /\ cur' \in 1..(N + 1)
        /\ pc' = "outcomeSync" => cur' = cur
    BY <1>9, <2>1, ResultTypes, OutcomeTypes DEF WriteOutcome, TypeOK, AuditStatus
  <2> QED
    BY <1>9, <2>1, <2>2, <2>3 DEF WriteOutcome, TypeOK, config, Step
<1>10. CASE SyncOutcome
  <2>1. cur \in Ops
    BY <1>10 DEF SyncOutcome, TypeOK
  <2>2. /\ result' \in [Ops -> Result]
        /\ pc' \in {"top", "close"}
        /\ cur' \in 1..(N + 1)
    BY <1>10, <2>1, ResultTypes, OutcomeTypes DEF SyncOutcome, TypeOK, AuditStatus
  <2> QED
    BY <1>10, <2>2 DEF SyncOutcome, Synced, TypeOK, config, Step
<1>11. CASE CloseAudit
  BY <1>11, ResultTypes DEF CloseAudit, TypeOK, config, journal, Step
<1>12. CASE Crash
  BY <1>12, ResultTypes DEF Crash, TypeOK, config, Step, Ops, World
<1>13. CASE Terminated \/ UNCHANGED vars
  BY <1>13 DEF Terminated, vars, TypeOK
<1> QED
  BY <1>1, <1>2, <1>3, <1>4, <1>5, <1>6, <1>7, <1>8, <1>9, <1>10, <1>11, <1>12, <1>13 DEF Next

\* Type correctness of applyPlan's state, whatever the plan and the crashes.
THEOREM TypeCorrect == Spec => []TypeOK
  BY InitTypeOK, TypeStep, PTL DEF Spec

-----------------------------------------------------------------------------
(***************************************************************************)
(* The inductive invariant                                                 *)
(***************************************************************************)

LEMMA InitInv == Init => IInv
<1> SUFFICES ASSUME Init PROVE IInv
  OBVIOUS
<1>1. TypeOK
  BY InitTypeOK
<1>2. /\ LogOrder /\ AnnouncedNow /\ EarlierSettled /\ AtFirst /\ PendingLogged
      /\ SyncOwned /\ PendingTrue /\ ResultsTrue
  BY DEF Init, SyncOwned, AtFirst, PendingLogged, LogOrder, AnnouncedNow, EarlierSettled, PendingTrue, ResultsTrue, InLoop, AtOutcome
<1>3. WriteAhead /\ OneInDoubt /\ SuccessesTrue
  BY DEF Init, WriteAhead, OneInDoubt, SuccessesTrue
<1>4. CompletedIsAccounted
  BY DEF Init, CompletedIsAccounted, NoResult, NewResult
<1> QED
  BY <1>1, <1>2, <1>3, <1>4 DEF IInv

\* The records of the current run stay behind the loop.
LEMMA LogOrderStep == IInv /\ [Next]_vars => LogOrder'
<1> SUFFICES ASSUME IInv, [Next]_vars PROVE LogOrder'
  OBVIOUS
<1> USE DEF IInv, LogOrder, TypeOK
<1>1. CASE Start
  BY <1>1 DEF Start, journal, Record
<1>2. CASE PrevalidatePlan \/ PrepareAudit
  BY <1>2 DEF PrevalidatePlan, PrepareAudit, config, journal
<1>3. CASE NextOperation \/ Execute \/ Mutate \/ CloseAudit
  BY <1>3 DEF NextOperation, Execute, Mutate, CloseAudit, config, journal
<1>4. CASE WriteIntent
  BY <1>4 DEF WriteIntent, IntentLost, Intent, Record, Ops, config
<1>5. CASE SyncIntent
  BY <1>5 DEF SyncIntent, IntentLost, config
<1>6. CASE WriteOutcome
  BY <1>6 DEF WriteOutcome, OutcomeLost, Advance, Outcome, Record, Ops, config
<1>7. CASE SyncOutcome
  BY <1>7 DEF SyncOutcome, OutcomeLost, Advance, Record, Ops, config
<1>8. CASE Crash
  BY <1>8 DEF Crash, config
<1>9. CASE Terminated \/ UNCHANGED vars
  BY <1>9 DEF Terminated, vars
<1> QED
  BY <1>1, <1>2, <1>3, <1>4, <1>5, <1>6, <1>7, <1>8, <1>9 DEF Next

\* Nothing is executed before its announcement is durable.
LEMMA AnnouncedStep == IInv /\ [Next]_vars => AnnouncedNow'
<1> SUFFICES ASSUME IInv, [Next]_vars PROVE AnnouncedNow'
  OBVIOUS
<1> USE DEF AnnouncedNow, Announced
<1>1. CASE Start \/ PrevalidatePlan \/ PrepareAudit \/ NextOperation \/ CloseAudit
  BY <1>1 DEF Start, PrevalidatePlan, PrepareAudit, NextOperation, CloseAudit
<1>2. CASE WriteIntent
  BY <1>2 DEF WriteIntent, IntentLost, Intent, config
<1>3. CASE SyncIntent
  BY <1>3 DEF IInv, SyncIntent, IntentLost, Synced, Intent, config
<1>4. CASE Execute \/ Mutate
  BY <1>4 DEF IInv, Execute, Mutate, config, journal
<1>5. CASE WriteOutcome
  BY <1>5 DEF IInv, WriteOutcome, OutcomeLost, Advance, config
<1>6. CASE SyncOutcome
  BY <1>6 DEF SyncOutcome, OutcomeLost, Advance
<1>7. CASE Crash
  BY <1>7 DEF Crash
<1>8. CASE Terminated \/ UNCHANGED vars
  BY <1>8 DEF IInv, Terminated, vars, Intent
<1> QED
  BY <1>1, <1>2, <1>3, <1>4, <1>5, <1>6, <1>7, <1>8 DEF Next

\* What is settled in the surviving log stays settled.
LEMMA DurableGrows == IInv /\ [Next]_vars => durable \subseteq durable'
<1> SUFFICES ASSUME IInv, [Next]_vars PROVE durable \subseteq durable'
  OBVIOUS
<1>1. CASE SyncIntent \/ SyncOutcome
  BY <1>1 DEF IInv, TypeOK, SyncIntent, SyncOutcome, Synced
<1>2. CASE Crash
  BY <1>2 DEF Crash
<1>3. CASE Start \/ PrevalidatePlan \/ PrepareAudit \/ NextOperation \/ Execute \/ Mutate
  BY <1>3 DEF Start, PrevalidatePlan, PrepareAudit, NextOperation, Execute, Mutate, journal
<1>4. CASE WriteIntent \/ WriteOutcome \/ CloseAudit \/ Terminated \/ UNCHANGED vars
  BY <1>4 DEF WriteIntent, WriteOutcome, CloseAudit, Terminated, vars, journal
<1> QED
  BY <1>1, <1>2, <1>3, <1>4 DEF Next

\* The loop moves on from an operation only once it is settled.
LEMMA EarlierSettledStep == IInv /\ [Next]_vars => EarlierSettled'
<1> SUFFICES ASSUME IInv, [Next]_vars PROVE EarlierSettled'
  OBVIOUS
<1> USE DEF EarlierSettled, SettledOk, InLoop, IInv
<1>1. CASE Start \/ PrevalidatePlan \/ CloseAudit \/ Crash
  BY <1>1 DEF Start, PrevalidatePlan, CloseAudit, Crash
<1>2. CASE PrepareAudit
  BY <1>2 DEF PrepareAudit, AtFirst
<1>3. CASE NextOperation \/ Execute \/ Mutate
  BY <1>3 DEF NextOperation, Execute, Mutate, config, journal
<1>4. CASE WriteIntent
  BY <1>4 DEF WriteIntent, IntentLost, config
<1>5. CASE SyncIntent
  BY <1>5, DurableGrows DEF SyncIntent, IntentLost, config
<1>6. CASE WriteOutcome
  BY <1>6 DEF WriteOutcome, OutcomeLost, Advance, config
<1>7. CASE SyncOutcome
  <2>1. CASE pc' = "close"
    BY <2>1
  <2>2. CASE pc' # "close"
    <3>1. pending.status = "ok" /\ cur' = cur + 1 /\ durable' = log
      BY <1>7, <2>2 DEF SyncOutcome, OutcomeLost, Advance, Synced, TypeOK, Result
    <3>2. Outcome \in durable' /\ run' = run /\ audit' = audit
      BY <1>7, <3>1 DEF SyncOutcome, PendingLogged, config
    <3>3. cur \in Nat /\ durable \subseteq durable' /\ pc = "outcomeSync"
      BY <1>7, DurableGrows DEF SyncOutcome, TypeOK
    <3> QED
      BY <3>1, <3>2, <3>3 DEF Outcome
  <2> QED
    BY <2>1, <2>2
<1>8. CASE Terminated \/ UNCHANGED vars
  BY <1>8 DEF Terminated, vars
<1> QED
  BY <1>1, <1>2, <1>3, <1>4, <1>5, <1>6, <1>7, <1>8 DEF Next

LEMMA AtFirstStep == IInv /\ [Next]_vars => AtFirst'
<1> SUFFICES ASSUME IInv, [Next]_vars PROVE AtFirst'
  OBVIOUS
<1> USE DEF AtFirst, IInv
<1>1. CASE Start \/ PrevalidatePlan \/ PrepareAudit \/ NextOperation
  BY <1>1 DEF Start, PrevalidatePlan, PrepareAudit, NextOperation
<1>2. CASE WriteIntent \/ SyncIntent \/ Execute \/ Mutate
  BY <1>2 DEF WriteIntent, SyncIntent, IntentLost, Execute, Mutate
<1>3. CASE WriteOutcome \/ SyncOutcome \/ CloseAudit \/ Crash
  BY <1>3 DEF WriteOutcome, SyncOutcome, OutcomeLost, Advance, CloseAudit, Crash
<1>4. CASE Terminated \/ UNCHANGED vars
  BY <1>4 DEF Terminated, vars
<1> QED
  BY <1>1, <1>2, <1>3, <1>4 DEF Next

LEMMA PendingLoggedStep == IInv /\ [Next]_vars => PendingLogged'
<1> SUFFICES ASSUME IInv, [Next]_vars PROVE PendingLogged'
  OBVIOUS
<1> USE DEF PendingLogged, IInv
<1>1. CASE Start \/ PrevalidatePlan \/ PrepareAudit \/ NextOperation
  BY <1>1 DEF Start, PrevalidatePlan, PrepareAudit, NextOperation
<1>2. CASE WriteIntent \/ SyncIntent \/ Execute \/ Mutate
  BY <1>2 DEF WriteIntent, SyncIntent, IntentLost, Execute, Mutate
<1>3. CASE WriteOutcome
  BY <1>3 DEF WriteOutcome, OutcomeLost, Advance, Outcome, config
<1>4. CASE SyncOutcome \/ CloseAudit \/ Crash
  BY <1>4 DEF SyncOutcome, OutcomeLost, Advance, CloseAudit, Crash
<1>5. CASE Terminated \/ UNCHANGED vars
  BY <1>5 DEF Terminated, vars, Outcome
<1> QED
  BY <1>1, <1>2, <1>3, <1>4, <1>5 DEF Next

\* The result under construction tells what became of the target.
LEMMA PendingTrueStep == IInv /\ [Next]_vars => PendingTrue'
<1> SUFFICES ASSUME IInv, [Next]_vars PROVE PendingTrue'
  OBVIOUS
<1> USE DEF PendingTrue, IInv, InLoop, AtOutcome, TypeOK
<1>1. CASE Start \/ PrevalidatePlan \/ PrepareAudit \/ CloseAudit \/ Crash
  BY <1>1 DEF Start, PrevalidatePlan, PrepareAudit, CloseAudit, Crash
<1>2. CASE NextOperation
  BY <1>2 DEF NextOperation, NewResult, config
<1>3. CASE WriteIntent
  BY <1>3 DEF WriteIntent, IntentLost, Result, config
<1>4. CASE SyncIntent
  BY <1>4 DEF SyncIntent, IntentLost, Result, config
<1>5. CASE Execute
  BY <1>5 DEF Execute, Result, config
<1>6. CASE Mutate
  BY <1>6 DEF Mutate, Result, config
<1>7. CASE WriteOutcome \/ SyncOutcome
  BY <1>7 DEF WriteOutcome, SyncOutcome, OutcomeLost, Advance, config
<1>8. CASE Terminated \/ UNCHANGED vars
  BY <1>8 DEF Terminated, vars
<1> QED
  BY <1>1, <1>2, <1>3, <1>4, <1>5, <1>6, <1>7, <1>8 DEF Next

\* No result exists ahead of the loop, and every one behind it is a success.
LEMMA ResultsTrueStep == IInv /\ [Next]_vars => ResultsTrue'
<1> SUFFICES ASSUME IInv, [Next]_vars PROVE ResultsTrue'
  OBVIOUS
<1> USE DEF ResultsTrue, IInv, InLoop, TypeOK
<1>1. CASE Start
  BY <1>1 DEF Start, NoResult, NewResult
<1>2. CASE PrevalidatePlan \/ PrepareAudit \/ CloseAudit \/ Crash
  BY <1>2 DEF PrevalidatePlan, PrepareAudit, CloseAudit, Crash
<1>3. CASE NextOperation \/ Execute \/ Mutate
  BY <1>3 DEF NextOperation, Execute, Mutate
<1>4. CASE WriteIntent \/ SyncIntent
  BY <1>4 DEF WriteIntent, SyncIntent, IntentLost
<1>5. CASE WriteOutcome \/ SyncOutcome
  <2>1. CASE pc' \in {"outcomeSync", "close"}
    BY <1>5, <2>1 DEF WriteOutcome, SyncOutcome, OutcomeLost, Advance
  <2>2. CASE pc' \notin {"outcomeSync", "close"}
    <3>1. PICK r \in Result : Advance(r) /\ r.status = "ok"
      BY <1>5, <2>2, ResultTypes DEF WriteOutcome, SyncOutcome, OutcomeLost, Advance, AuditStatus
    <3> QED
      BY <1>5, <3>1 DEF WriteOutcome, SyncOutcome, Advance, Ops
  <2> QED
    BY <2>1, <2>2
<1>6. CASE Terminated \/ UNCHANGED vars
  BY <1>6 DEF Terminated, vars
<1> QED
  BY <1>1, <1>2, <1>3, <1>4, <1>5, <1>6 DEF Next

-----------------------------------------------------------------------------
(***************************************************************************)
(* The properties, preserved under the inductive invariant                 *)
(***************************************************************************)

\* A target changes in Mutate or in a crash of it, at the current operation.
LEMMA WorldSteps ==
    ASSUME IInv, [Next]_vars, NEW i \in Ops, world'[i] # world[i]
    PROVE  pc = "mutating" /\ i = cur /\ (Mutate \/ Crash)
<1>1. CASE Mutate \/ Crash
  BY <1>1 DEF Mutate, Crash, IInv, TypeOK
<1>2. CASE Start \/ PrevalidatePlan \/ PrepareAudit \/ NextOperation \/ Execute
  BY <1>2 DEF Start, PrevalidatePlan, PrepareAudit, NextOperation, Execute
<1>3. CASE WriteIntent \/ SyncIntent \/ WriteOutcome \/ SyncOutcome \/ CloseAudit
  BY <1>3 DEF WriteIntent, SyncIntent, WriteOutcome, SyncOutcome, CloseAudit
<1>4. CASE Terminated \/ UNCHANGED vars
  BY <1>4 DEF Terminated, vars
<1> QED
  BY <1>1, <1>2, <1>3, <1>4 DEF Next

\* The step into "mutating" is Execute's, the current operation unchanged.
LEMMA MutatingSteps ==
    ASSUME IInv, [Next]_vars, pc' = "mutating"
    PROVE  pc \in {"execute", "mutating"} /\ cur' = cur /\ run' = run
<1>1. CASE Execute
  BY <1>1 DEF Execute, config
<1>2. CASE Start \/ PrevalidatePlan \/ PrepareAudit \/ NextOperation \/ Mutate
  BY <1>2 DEF Start, PrevalidatePlan, PrepareAudit, NextOperation, Mutate
<1>3. CASE WriteIntent \/ SyncIntent \/ WriteOutcome \/ SyncOutcome \/ CloseAudit \/ Crash
  BY <1>3 DEF WriteIntent, SyncIntent, IntentLost, WriteOutcome, SyncOutcome, OutcomeLost,
     Advance, CloseAudit, Crash
<1>4. CASE Terminated \/ UNCHANGED vars
  BY <1>4 DEF Terminated, vars
<1> QED
  BY <1>1, <1>2, <1>3, <1>4 DEF Next

LEMMA AuditFixed == [Next]_vars => audit' = audit
<1> SUFFICES ASSUME [Next]_vars PROVE audit' = audit
  OBVIOUS
<1>1. CASE Start \/ PrevalidatePlan \/ PrepareAudit \/ NextOperation \/ Execute \/ Mutate
  BY <1>1 DEF Start, PrevalidatePlan, PrepareAudit, NextOperation, Execute, Mutate, config
<1>2. CASE WriteIntent \/ SyncIntent \/ WriteOutcome \/ SyncOutcome \/ CloseAudit \/ Crash
  BY <1>2 DEF WriteIntent, SyncIntent, WriteOutcome, SyncOutcome, CloseAudit, Crash, config
<1>3. CASE Terminated \/ UNCHANGED vars
  BY <1>3 DEF Terminated, vars
<1> QED
  BY <1>1, <1>2, <1>3 DEF Next

LEMMA WriteAheadStep == IInv /\ [Next]_vars => WriteAhead'
<1> SUFFICES ASSUME IInv, [Next]_vars, audit' = "owned", NEW i \in Ops,
                    world'[i] # "untouched" \/ (pc' = "mutating" /\ cur' = i)
             PROVE  \E r \in 1..MaxRuns : Announced(r, i)'
  BY DEF WriteAhead
<1>1. audit = "owned"
  BY AuditFixed
<1>2. \A r \in 1..MaxRuns : Announced(r, i) => Announced(r, i)'
  BY DurableGrows DEF Announced
<1>3. pc # "idle" => run \in 1..MaxRuns
  BY SizeAssumption DEF IInv, TypeOK
<1>4. CASE world[i] # "untouched"
  BY <1>1, <1>2, <1>4 DEF IInv, WriteAhead
<1>5. CASE world[i] = "untouched" /\ world'[i] # "untouched"
  BY <1>1, <1>2, <1>3, <1>5, WorldSteps DEF IInv, AnnouncedNow
<1>6. CASE pc' = "mutating" /\ cur' = i
  BY <1>1, <1>2, <1>3, <1>6, MutatingSteps DEF IInv, AnnouncedNow
<1> QED
  BY <1>4, <1>5, <1>6

\* Only WriteIntent and WriteOutcome add to the log, each its own record.
LEMMA LogSteps ==
    ASSUME IInv, [Next]_vars
    PROVE  \/ log' \subseteq log
           \/ WriteIntent /\ log' = log \union {Intent}
           \/ WriteOutcome /\ log' = log \union {Outcome}
<1>1. CASE WriteIntent \/ WriteOutcome
  BY <1>1 DEF WriteIntent, WriteOutcome
<1>2. CASE Crash
  BY <1>2 DEF Crash, IInv, TypeOK
<1>3. CASE Start \/ PrevalidatePlan \/ PrepareAudit \/ NextOperation \/ Execute \/ Mutate
  BY <1>3 DEF Start, PrevalidatePlan, PrepareAudit, NextOperation, Execute, Mutate, journal
<1>4. CASE SyncIntent \/ SyncOutcome \/ CloseAudit \/ Terminated \/ UNCHANGED vars
  BY <1>4 DEF SyncIntent, SyncOutcome, CloseAudit, Terminated, vars, journal
<1> QED
  BY <1>1, <1>2, <1>3, <1>4 DEF Next

LEMMA OneInDoubtStep == IInv /\ [Next]_vars => OneInDoubt'
<1> SUFFICES ASSUME IInv, [Next]_vars, audit' = "owned",
                    NEW a \in log', a.phase = "intent", NEW j \in 1..(a.op - 1)
             PROVE  \E d \in durable' : /\ d.run = a.run /\ d.op = j
                                       /\ d.phase = "outcome" /\ d.status = "ok"
  BY DEF OneInDoubt
<1>1. audit = "owned"
  BY AuditFixed
<1>2. CASE a \in log
  BY <1>1, <1>2, DurableGrows DEF IInv, OneInDoubt
<1>3. CASE a = Intent /\ WriteIntent
  BY <1>1, <1>3, DurableGrows
  DEF Intent, WriteIntent, IInv, EarlierSettled, SettledOk, InLoop
<1> QED
  BY <1>2, <1>3, LogSteps DEF Outcome

LEMMA SuccessesTrueStep == IInv /\ [Next]_vars => SuccessesTrue'
<1> SUFFICES ASSUME IInv, [Next]_vars, audit' = "owned",
                    NEW d \in log', d.phase = "outcome", d.status = "ok", ~d.dry
             PROVE  \/ world'[d.op] = "done"
                    \/ \E later \in durable' :
                           later.op = d.op /\ later.run > d.run /\ later.phase = "intent"
  BY DEF SuccessesTrue
<1>1. audit = "owned"
  BY AuditFixed
<1>2. CASE d \in log
  <2>1. \/ world[d.op] = "done"
        \/ \E later \in durable' :
               later.op = d.op /\ later.run > d.run /\ later.phase = "intent"
    BY <1>1, <1>2, DurableGrows DEF IInv, SuccessesTrue
  <2>2. d \in Record /\ d.op \in Ops
    BY <1>2 DEF IInv, TypeOK, Record
  <2>3. CASE world'[d.op] # world[d.op]
    <3>1. pc = "mutating" /\ d.op = cur
      BY <2>2, <2>3, WorldSteps
    <3>2. Announced(run, cur)
      BY <1>1, <3>1 DEF IInv, AnnouncedNow
    <3>3. d.run < run
      BY <1>2, <2>2, <3>1 DEF IInv, LogOrder, TypeOK, Record
    <3> QED
      BY <3>1, <3>2, <3>3, DurableGrows DEF Announced
  <2> QED
    BY <2>1, <2>3
<1>3. CASE d = Outcome /\ WriteOutcome
  BY <1>3 DEF Outcome, WriteOutcome, IInv, PendingTrue, AtOutcome
<1> QED
  BY <1>2, <1>3, LogSteps DEF Intent

\* A completed mutation's result stays accounted for, by way of its outcome
\* record and of the audit's closing.
LEMMA CompletedStep == IInv /\ [Next]_vars => CompletedIsAccounted'
<1> DEFINE Accounted(r) ==
        \/ /\ r.status = "ok"
           /\ r.outcome = CASE audit = "disabled" -> "disabled"
                            [] audit = "unsynced" -> "written"
                            [] OTHER -> "durable"
        \/ /\ r.status = "partial" /\ r.mutated
           /\ r.outcome = "failed"
<1> SUFFICES ASSUME IInv, [Next]_vars, NEW i \in Ops, result'[i].completed
             PROVE  world'[i] = "done" /\ Accounted(result'[i])
  BY AuditFixed DEF CompletedIsAccounted
<1>1. CASE result'[i] = result[i]
  <2>1. world[i] = "done" /\ Accounted(result[i])
    BY <1>1 DEF IInv, CompletedIsAccounted
  <2>2. world'[i] = world[i]
    <3> SUFFICES ASSUME world'[i] # world[i] PROVE FALSE
      OBVIOUS
    <3>1. result[i] = NoResult
      BY WorldSteps DEF IInv, ResultsTrue, InLoop, TypeOK
    <3> QED
      BY <1>1, <3>1 DEF NoResult, NewResult
  <2> QED
    BY <1>1, <2>1, <2>2
<1>2. CASE Start \/ PrevalidatePlan \/ PrepareAudit \/ NextOperation \/ Execute \/ Mutate
  BY <1>1, <1>2 DEF Start, PrevalidatePlan, PrepareAudit, NextOperation, Execute, Mutate,
     NoResult, NewResult, IInv, TypeOK
<1>3. CASE WriteIntent \/ SyncIntent
  <2>1. ~pending.completed /\ pending \in Result
    BY <1>3 DEF WriteIntent, SyncIntent, IInv, PendingTrue, TypeOK
  <2>2. ~[pending EXCEPT !.status = "error", !.intent = "failed"].completed
    BY <2>1 DEF Result
  <2> QED
    BY <1>1, <1>3, <2>2 DEF WriteIntent, SyncIntent, IntentLost, IInv, TypeOK
<1>4. CASE WriteOutcome \/ SyncOutcome
  <2>1. /\ AtOutcome /\ pending \in Result /\ cur \in Ops /\ audit \in AuditKinds
        /\ world' = world
    BY <1>4 DEF WriteOutcome, SyncOutcome, AtOutcome, IInv, TypeOK
  <2>2. CASE i # cur
    BY <1>1, <1>4, <2>2 DEF WriteOutcome, SyncOutcome, OutcomeLost, Advance, IInv, TypeOK
  <2>3. CASE i = cur /\ result'[cur] = MarkAuditFailure(pending)
    <3>1. pending.completed /\ Accounted(MarkAuditFailure(pending))
      BY <2>1, <2>3 DEF MarkAuditFailure, Result
    <3> QED
      BY <2>1, <2>3, <3>1 DEF IInv, PendingTrue
  <2>4. CASE /\ i = cur /\ audit = "disabled" /\ WriteOutcome
             /\ result'[cur] = pending
    BY <2>1, <2>4 DEF IInv, PendingTrue, WriteOutcome, InLoop
  <2>5. CASE /\ i = cur /\ audit = "unsynced" /\ WriteOutcome
             /\ result'[cur] = [pending EXCEPT !.outcome = "written"]
    BY <2>1, <2>5 DEF IInv, PendingTrue, Result
  <2>6. CASE /\ i = cur /\ audit = "owned"
             /\ result'[cur] = [pending EXCEPT !.outcome = "durable"]
    BY <2>1, <2>6 DEF IInv, PendingTrue, Result
  <2>7. SyncOutcome => audit = "owned"
    BY DEF SyncOutcome, IInv, SyncOwned
  <2> QED
    BY <1>1, <1>4, <2>1, <2>2, <2>3, <2>4, <2>5, <2>6, <2>7
    DEF WriteOutcome, SyncOutcome, OutcomeLost, Advance, IInv, TypeOK
<1>5. CASE CloseAudit
  <2>1. result[i] \in Result
    BY DEF IInv, TypeOK
  <2>2. CASE result'[i] = MarkAuditFailure(result[i])
    <3>1. result[i].completed /\ Accounted(result'[i])
      BY <2>1, <2>2 DEF MarkAuditFailure, Result
    <3> QED
      BY <1>5, <3>1 DEF CloseAudit, IInv, CompletedIsAccounted
  <2> QED
    BY <1>1, <1>5, <2>2 DEF CloseAudit
<1>6. CASE Crash
  BY <1>1, <1>6 DEF Crash, NoResult, NewResult
<1>7. CASE Terminated \/ UNCHANGED vars
  BY <1>1, <1>7 DEF Terminated, vars
<1> QED
  BY <1>2, <1>3, <1>4, <1>5, <1>6, <1>7 DEF Next

LEMMA SyncOwnedStep == IInv /\ [Next]_vars => SyncOwned'
<1> SUFFICES ASSUME IInv, [Next]_vars PROVE SyncOwned'
  OBVIOUS
<1> USE DEF SyncOwned, IInv
<1>1. CASE Start \/ PrevalidatePlan \/ PrepareAudit \/ NextOperation
  BY <1>1 DEF Start, PrevalidatePlan, PrepareAudit, NextOperation
<1>2. CASE WriteIntent \/ SyncIntent \/ Execute \/ Mutate
  BY <1>2 DEF WriteIntent, SyncIntent, IntentLost, Execute, Mutate
<1>3. CASE WriteOutcome
  BY <1>3, AuditFixed DEF WriteOutcome, OutcomeLost, Advance
<1>4. CASE SyncOutcome \/ CloseAudit \/ Crash
  BY <1>4 DEF SyncOutcome, OutcomeLost, Advance, CloseAudit, Crash
<1>5. CASE Terminated \/ UNCHANGED vars
  BY <1>5 DEF Terminated, vars
<1> QED
  BY <1>1, <1>2, <1>3, <1>4, <1>5 DEF Next

LEMMA InvStep == IInv /\ [Next]_vars => IInv'
  BY TypeStep, LogOrderStep, AnnouncedStep, EarlierSettledStep, AtFirstStep,
     PendingLoggedStep, SyncOwnedStep, PendingTrueStep, ResultsTrueStep, WriteAheadStep,
     OneInDoubtStep, SuccessesTrueStep, CompletedStep DEF IInv

LEMMA Invariance == Spec => []IInv
  BY InitInv, InvStep, PTL DEF Spec

-----------------------------------------------------------------------------
(***************************************************************************)
(* The theorems                                                            *)
(***************************************************************************)

\* With an owned audit file, whatever the disk shows of an operation, in the
\* middle of a run or after a power loss, the surviving log announced it.
THEOREM WriteAheadHolds == Spec => []WriteAhead
<1>1. IInv => WriteAhead
  BY DEF IInv
<1> QED
  BY <1>1, Invariance, PTL

\* However many runs and power losses, at most one operation of each run is
\* in doubt for a reader of the log; the earlier ones of it succeeded.
THEOREM OneInDoubtHolds == Spec => []OneInDoubt
<1>1. IInv => OneInDoubt
  BY DEF IInv
<1> QED
  BY <1>1, Invariance, PTL

\* The last word of the log on an operation is true when it is "ok".
THEOREM LogIsTrueHolds == Spec => []LogIsTrue
<1>1. IInv => LogIsTrue
  BY DEF IInv, TypeOK, SuccessesTrue, LogIsTrue
<1> QED
  BY <1>1, Invariance, PTL

\* A completed mutation is reported as such: "ok" with its outcome persisted,
\* or "partial" without.
THEOREM CompletedIsAccountedHolds == Spec => []CompletedIsAccounted
<1>1. IInv => CompletedIsAccounted
  BY DEF IInv
<1> QED
  BY <1>1, Invariance, PTL

\* Targets change only while their operation's announcement is open.
THEOREM ChangesAreAnnouncedHolds == Spec => ChangesAreAnnounced
<1>1. ASSUME IInv, [Next]_vars, audit = "owned", NEW i \in Ops, world'[i] # world[i]
      PROVE  Announced(run, i) /\ ~Settled(run, i)
  <2>1. pc = "mutating" /\ i = cur
    BY <1>1, WorldSteps
  <2>2. Announced(run, i)
    BY <1>1, <2>1 DEF IInv, AnnouncedNow
  <2>3. ~Settled(run, i)
    BY <2>1, <1>1 DEF Settled, IInv, TypeOK, LogOrder
  <2> QED
    BY <2>2, <2>3
<1>2. IInv /\ [Next]_vars =>
        [audit = "owned" =>
            \A i \in Ops :
                world'[i] # world[i] => Announced(run, i) /\ ~Settled(run, i)]_vars
  BY <1>1
<1> QED
  BY <1>2, Invariance, PTL DEF Spec, ChangesAreAnnounced

\* A failed operation ends its run's mutations, and a dry run has none.
THEOREM StopsAtFirstFailureHolds == Spec => StopsAtFirstFailure
<1>1. ASSUME IInv, [Next]_vars, world' # world
      PROVE  ~dry /\ \A i \in Ops : result[i].status \in {"none", "ok"}
  <2>1. pc = "mutating"
    <3>1. Mutate \/ (Crash /\ pc = "mutating")
      BY <1>1 DEF Next, Start, PrevalidatePlan, PrepareAudit, NextOperation, Execute,
         WriteIntent, SyncIntent, WriteOutcome, SyncOutcome, CloseAudit, Crash, Terminated, vars
    <3> QED
      BY <3>1 DEF Mutate
  <2> QED
    BY <1>1, <2>1 DEF IInv, PendingTrue, ResultsTrue, InLoop
<1>2. IInv /\ [Next]_vars =>
        [world' # world =>
            ~dry /\ \A i \in Ops : result[i].status \in {"none", "ok"}]_vars
  BY <1>1
<1> QED
  BY <1>2, Invariance, PTL DEF Spec, StopsAtFirstFailure

-----------------------------------------------------------------------------
(***************************************************************************)
(* A recursive delete                                                      *)
(*                                                                         *)
(* What TreeDelete.tla promises for every tree and any interference.  The  *)
(* inductive invariant follows the check of one item: the ancestors above  *)
(* the one to be checked next were found unchanged, and whatever was found *)
(* unchanged still is, or is recorded as touched.                          *)
(***************************************************************************)

Removing == {"ancestor", "inspect", "remove"}

\* Stamps are never given twice, so a captured object that is gone is gone.
StampsPast ==
    /\ \A n \in Node : tree[n] <= clock /\ captured[n] <= clock
    /\ \A n \in Node : captured[n] # 0 /\ n \notin left => tree[n] # captured[n]

\* The count and the objects unlinked agree on whether there are any.
CountTrue == removed = 0 <=> gone = {}

\* What was checked for the removal of item still holds, or was touched.
ChecksHold ==
    step \in Removing => \A n \in checked : n \in touched \/ tree[n] = captured[n]

\* How far the check has come.
CheckProgress ==
    /\ step = "ancestor" => Above[item] \subseteq checked \union {ancestor} \union Above[ancestor]
    /\ step \in {"inspect", "remove"} => Above[item] \subseteq checked
    /\ step = "remove" => item \in checked

\* Success comes when nothing captured is left.
EndTrue == step = "done" /\ ~failed => left = {}

DeleteIInv == DeleteTypeOK /\ StampsPast /\ CountTrue /\ ChecksHold /\ CheckProgress /\ EndTrue

-----------------------------------------------------------------------------
LEMMA DeleteInitInv == DeleteInit => DeleteIInv
<1> SUFFICES ASSUME DeleteInit PROVE DeleteIInv
  OBVIOUS
<1>1. DeleteTypeOK
  <2>1. tree \in [Node -> Nat] /\ captured \in [Node -> Nat]
    BY DEF DeleteInit, Node
  <2>2. 0 \in Node /\ clock \in Nat
    BY LastAssumption DEF DeleteInit, Node
  <2> QED
    BY <2>1, <2>2 DEF DeleteInit, DeleteTypeOK, Steps
<1>2. StampsPast
  BY LastAssumption DEF DeleteInit, StampsPast, Node
<1>3. CountTrue /\ ChecksHold /\ CheckProgress /\ EndTrue
  BY DEF DeleteInit, CountTrue, ChecksHold, CheckProgress, EndTrue, Removing
<1> QED
  BY <1>1, <1>2, <1>3 DEF DeleteIInv

\* Whatever another process changes, the invariant holds: the stamp is new, and
\* what it changes under a check is recorded.
LEMMA DisturbInv ==
    ASSUME DeleteIInv, NEW n \in Node, NEW paths \in SUBSET Node, NEW newTree \in [Node -> Nat],
           Disturb(n, paths, newTree),
           newTree[n] \in {0, clock + 1},
           \A m \in paths : newTree[m] \in {0, clock + 1},
           \A m \in Node : m # n /\ m \notin paths => newTree[m] = tree[m]
    PROVE  DeleteIInv'
<1> USE DEF DeleteIInv, Disturb
<1>1. DeleteTypeOK'
  BY DEF DeleteTypeOK
<1>2. \A m \in Node : newTree[m] \in {0, clock + 1, tree[m]}
  OBVIOUS
<1>3. StampsPast'
  BY <1>2 DEF StampsPast, DeleteTypeOK
<1>4. ChecksHold'
  BY DEF ChecksHold, DeleteTypeOK
<1>5. CountTrue' /\ CheckProgress' /\ EndTrue'
  BY DEF CountTrue, CheckProgress, EndTrue
<1> QED
  BY <1>1, <1>3, <1>4, <1>5

LEMMA OthersInv == DeleteIInv /\ Others => DeleteIInv'
<1> SUFFICES ASSUME DeleteIInv, Others PROVE DeleteIInv'
  OBVIOUS
<1>0. tree \in [Node -> Nat] /\ clock + 1 \in Nat
  BY DEF DeleteIInv, DeleteTypeOK
<1>1. CASE ForeignAdd \/ ForeignChange \/ ForeignRemove
  <2>1. PICK n \in Node, stamp \in {0, clock + 1} :
            Disturb(n, {}, [tree EXCEPT ![n] = stamp])
    BY <1>1 DEF ForeignAdd, ForeignChange, ForeignRemove
  <2> DEFINE newTree == [tree EXCEPT ![n] = stamp]
  <2>2. newTree \in [Node -> Nat] /\ newTree[n] = stamp
    BY <1>0
  <2>3. \A m \in Node : m # n => newTree[m] = tree[m]
    BY <1>0
  <2>4. Disturb(n, {}, newTree)
    BY <2>1
  <2> HIDE DEF newTree
  <2> QED
    BY <2>2, <2>3, <2>4, DisturbInv
<1>2. CASE ForeignSwap
  <2>1. PICK n \in Dirs :
            Disturb(n, Below(n), [m \in Node |-> IF m = n THEN clock + 1
                                                ELSE IF m \in Below(n) THEN 0
                                                ELSE tree[m]])
    BY <1>2 DEF ForeignSwap
  <2> DEFINE newTree == [m \in Node |-> IF m = n THEN clock + 1
                                       ELSE IF m \in Below(n) THEN 0 ELSE tree[m]]
  <2>2. n \in Node /\ Below(n) \in SUBSET Node
    BY TreeAssumption DEF Below
  <2>3. newTree \in [Node -> Nat] /\ newTree[n] = clock + 1
    BY <1>0, <2>2
  <2>4. \A m \in Below(n) : newTree[m] \in {0, clock + 1}
    BY <2>2
  <2>5. \A m \in Node : m # n /\ m \notin Below(n) => newTree[m] = tree[m]
    BY <1>0
  <2>6. Disturb(n, Below(n), newTree)
    BY <2>1
  <2> HIDE DEF newTree
  <2> QED
    BY <2>2, <2>3, <2>4, <2>5, <2>6, DisturbInv
<1> QED
  BY <1>1, <1>2 DEF Others

LEMMA DeleteInvStep == DeleteIInv /\ [DeleteNext]_deleteVars => DeleteIInv'
<1> SUFFICES ASSUME DeleteIInv, [DeleteNext]_deleteVars PROVE DeleteIInv'
  OBVIOUS
<1>0. CASE DeleteOver \/ UNCHANGED deleteVars
  BY <1>0 DEF DeleteOver, deleteVars, DeleteIInv, DeleteTypeOK, StampsPast, CountTrue, ChecksHold,
     CheckProgress, EndTrue
<1>1. CASE Others
  BY <1>1, OthersInv
<1> USE DEF DeleteIInv, DeleteTypeOK, Steps, StampsPast, CountTrue, ChecksHold, CheckProgress, EndTrue,
        Removing, snapshot, history
<1>2. CASE Visit
  BY <1>2 DEF Visit
<1>3. CASE List
  BY <1>3 DEF List, Children
<1>4. CASE Captured \/ Finish
  BY <1>4 DEF Captured, Finish
<1>5. CASE NextItem
  BY <1>5, ParentAssumption, AboveAssumption DEF NextItem
<1>6. CASE CheckAncestor
  BY <1>6, ParentAssumption, AboveAssumption DEF CheckAncestor
<1>7. CASE InspectItem
  BY <1>7 DEF InspectItem
<1>8. CASE RemoveItem
  <2>1. tree' \in [Node -> Nat]
    BY <1>8 DEF RemoveItem
  <2>2. gone' \subseteq Nat
    BY <1>8 DEF RemoveItem
  <2>3. removed' \in Nat
    BY <1>8 DEF RemoveItem
  <2>4. DeleteTypeOK' /\ EndTrue'
    BY <1>8, <2>1, <2>2, <2>3 DEF RemoveItem
  <2>5. StampsPast'
    BY <1>8 DEF RemoveItem, Removable
  <2>6. CountTrue' /\ ChecksHold' /\ CheckProgress'
    BY <1>8 DEF RemoveItem
  <2> QED
    BY <2>4, <2>5, <2>6
<1>9. CASE Refuse \/ Interrupt
  BY <1>9 DEF Refuse, Interrupt, Stop
<1> QED
  BY <1>0, <1>1, <1>2, <1>3, <1>4, <1>5, <1>6, <1>7, <1>8, <1>9 DEF DeleteNext, Delete

LEMMA DeleteInvariance == DeleteSpec => []DeleteIInv
  BY DeleteInitInv, DeleteInvStep, PTL DEF DeleteSpec

\* Type correctness of the deletion, for every tree.
THEOREM DeleteTypes == DeleteSpec => []DeleteTypeOK
<1>1. DeleteIInv => DeleteTypeOK
  BY DEF DeleteIInv
<1> QED
  BY <1>1, DeleteInvariance, PTL

\* The status of a recursive deletion tells what happened to the captured set.
THEOREM OutcomeIsTrueHolds == DeleteSpec => []OutcomeIsTrue
<1>1. DeleteIInv => OutcomeIsTrue
  BY DEF DeleteIInv, DeleteTypeOK, OutcomeIsTrue, Status, CountTrue, EndTrue, StampsPast
<1> QED
  BY <1>1, DeleteInvariance, PTL

\* Every removal takes what was captured, through the captured directories,
\* unless one of them changed after its check.
THEOREM RemovesCapturedOnlyHolds == DeleteSpec => RemovesCapturedOnly
<1>1. ASSUME DeleteIInv, [DeleteNext]_deleteVars, removed' # removed
      PROVE  \A n \in {item} \union Above[item] : n \in touched \/ tree[n] = captured[n]
  <2>1. RemoveItem
    BY <1>1 DEF DeleteNext, Delete, Others, DeleteOver, deleteVars, Visit, List, Captured, NextItem,
       CheckAncestor, InspectItem, Finish, Refuse, Interrupt, Stop, ForeignAdd,
       ForeignChange, ForeignSwap, ForeignRemove, Disturb
  <2> QED
    BY <1>1, <2>1 DEF RemoveItem, DeleteIInv, ChecksHold, CheckProgress, Removing
<1>2. DeleteIInv /\ [DeleteNext]_deleteVars =>
        [removed' # removed =>
            \A n \in {item} \union Above[item] : n \in touched \/ tree[n] = captured[n]]_deleteVars
  BY <1>1
<1> QED
  BY <1>2, DeleteInvariance, PTL DEF DeleteSpec, RemovesCapturedOnly
=============================================================================
