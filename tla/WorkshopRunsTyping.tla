------------------------ MODULE WorkshopRunsTyping ------------------------
(***************************************************************************)
(* Type correctness of WorkshopRuns, for every value of its constants.     *)
(*                                                                         *)
(* TypeOK is not inductive alone: a step at work on a run needs that run   *)
(* to be one, which Assigned adds.  One lemma per actor shows that its     *)
(* steps keep TypeInv; the theorem puts them together.                     *)
(***************************************************************************)
EXTENDS WorkshopRuns, TLAPS

(* Whoever is at work has a run to work on.                                 *)
Assigned ==
  /\ \A e \in Executions : exec[e].pc \notin {"idle", "done"} => RunOf(e) \in Runs
  /\ \A q \in Requests : req[q].pc \notin {"idle", "done"} => req[q].run \in Runs
  /\ \A x \in Reapers : Step(x) \in LockedSteps => Cur(x) \in Runs

TypeInv == TypeOK /\ Assigned

-----------------------------------------------------------------------------
(* The attempt counter has room to start from zero.                         *)
LEMMA CapIsNat == AttemptCap \in Nat /\ 0 \in 0 .. AttemptCap
  BY ConstantsAssumption

(* claimDestroy leaves a row: the counter saturates at AttemptCap.          *)
LEMMA ClaimKeepsRow ==
  ASSUME NEW w \in Row
  PROVE  SetDestroyClaim(w) \in Row
  <1> DEFINE n == IF w.attempts < AttemptCap THEN w.attempts + 1 ELSE w.attempts
  <1>1. w.attempts \in 0 .. AttemptCap
    BY DEF Row
  <1>2. n \in 0 .. AttemptCap
    BY <1>1, CapIsNat
  <1> HIDE DEF n
  <1>3. [w EXCEPT !.status = "destroying", !.claimed = TRUE, !.attempts = n] \in Row
    BY <1>2 DEF Row, RunStatus
  <1> QED
    BY <1>3 DEF SetDestroyClaim, n

(* The statements take a row to a row.                                      *)
LEMMA StatementsKeepRows ==
  ASSUME NEW w \in Row
  PROVE  /\ SetProvisioning(w) \in Row
         /\ SetOrgUnitPath(w) \in Row
         /\ SetApplying(w) \in Row
         /\ \A t \in Int : SetReady(w, t) \in Row
         /\ SetFailed(w) \in Row
         /\ SetLiveError(w) \in Row
         /\ SetScheduledBack(w) \in Row
         /\ SetDestroyRetry(w) \in Row
         /\ SetDestroyFailed(w) \in Row
         /\ SetDestroyed(w) \in Row
         /\ DestroyReset(w) \in Row
         /\ \A s \in RunStatus : [w EXCEPT !.status = s] \in Row
  BY CapIsNat
  DEF Row, RunStatus, NoRow, InFlight, SetProvisioning, SetOrgUnitPath, SetApplying, SetReady,
      SetFailed, SetLiveError, SetScheduledBack, SetDestroyRetry, SetDestroyFailed,
      SetDestroyed, DestroyReset

(* So does the verdict of the runner's catch block.                         *)
LEMMA CaughtKeepsRow ==
  ASSUME NEW e, NEW w \in Row
  PROVE  Caught(e, w) \in Row
  BY StatementsKeepRows DEF Caught

(* The two ways of having no row are rows of the model.                     *)
LEMMA BlankRows == Unbooked \in Row /\ Deleted \in Row
  <1>1. Unbooked \in Row
    BY CapIsNat DEF Unbooked, Row, RunStatus, NoRow, InFlight, NoExpiry
  <1>2. Deleted \in Row
    BY <1>1 DEF Deleted, Row, NoRow
  <1> QED
    BY <1>1, <1>2

(* Update writes one row of the table, or none.                             *)
LEMMA UpdateKeepsTable ==
  ASSUME row \in [Runs -> Row], NEW r \in Runs, NEW w \in Row, Update(r, w)
  PROVE  row' \in [Runs -> Row]
  BY DEF Update

(* What is built for a set of clouds can stand for a run.                   *)
LEMMA UnitsAreThings ==
  ASSUME NEW clouds \in SUBSET Clouds
  PROVE  Units(clouds) \in SUBSET Thing
  BY DEF Units, Thing

(* The states in which the actors begin and end are states of theirs.       *)
LEMMA IdleStates == IdleExec \in Exec /\ DoneExec \in Exec /\ IdleReq \in ReqState
                    /\ DoneReq \in ReqState /\ IdleReaper \in ReaperState
  BY BlankRows, CapIsNat DEF IdleExec, DoneExec, Exec, IdleReq, DoneReq, ReqState, IdleReaper, ReaperState,
     Listing, Blank, NoRow, NoExpiry, AllOps, BuildSteps
-----------------------------------------------------------------------------
(* A step of a runner execution keeps the types.                            *)
LEMMA RunnerTyped ==
  ASSUME TypeInv, NEW e \in Executions,
         RunnerStep(e) \/ RunnerLateVerdict(e) \/ RunnerFail(e) \/ RunnerCrash(e)
  PROVE  TypeInv'
  <1> DEFINE r == RunOf(e)
  <1> USE DEF TypeInv
  <1>1. exec[e] \in Exec /\ row \in [Runs -> Row]
    BY DEF TypeOK
  <1>2. ASSUME exec[e].pc \notin {"idle", "done"}
        PROVE  r \in Runs /\ row[r] \in Row
    BY <1>1, <1>2 DEF Assigned
  <1>3. CASE RunnerStart(e)
    <2>1. r \in Runs /\ row[r] \in Row
      BY <1>2, <1>3 DEF RunnerStart, At
    <2>2. row' \in [Runs -> Row]
      BY <1>1, <1>3, <2>1, StatementsKeepRows, UpdateKeepsTable DEF RunnerStart
    <2>3. [pc |-> "orgUnit", run |-> r, expires |-> row[r].expires, ttl |-> row[r].ttl,
           units |-> Units(row[r].clouds)] \in Exec
      BY <2>1, UnitsAreThings DEF Exec, Row, BuildSteps
    <2>4. exec' \in [Executions -> Exec]
      BY <1>3, <2>3, IdleStates DEF RunnerStart, Leave, TypeOK
    <2>5. TypeOK'
      BY <1>3, <2>2, <2>4 DEF RunnerStart, TypeOK, runnerFrame, outside, reaping, history
    <2>6. Assigned'
      BY <1>3, <2>1 DEF RunnerStart, Leave, Assigned, RunOf, runnerFrame, reaping, Step, Cur, DoneExec, IdleExec, TypeOK
    <2> QED
      BY <2>5, <2>6
  <1>4. CASE RunnerOrgUnit(e)
    <2>1. r \in Runs /\ row[r] \in Row
      BY <1>2, <1>4 DEF RunnerOrgUnit, At
    <2>2. row' \in [Runs -> Row]
      BY <1>1, <1>4, <2>1, StatementsKeepRows, UpdateKeepsTable DEF RunnerOrgUnit
    <2>3. exec' \in [Executions -> Exec]
      BY <1>1, <1>4 DEF RunnerOrgUnit, GoTo, TypeOK, Exec, BuildSteps
    <2>4. TypeOK'
      BY <1>4, <2>1, <2>2, <2>3 DEF RunnerOrgUnit, TypeOK, runnerFrame, reaping, history
    <2>5. Assigned'
      BY <1>4, <2>1 DEF RunnerOrgUnit, GoTo, Assigned, RunOf, runnerFrame, reaping, Step, Cur, TypeOK
    <2> QED
      BY <2>4, <2>5
  <1>5. CASE RunnerAccounts(e)
    <2>1. r \in Runs
      BY <1>2, <1>5 DEF RunnerAccounts, At
    <2>2. exec' \in [Executions -> Exec]
      BY <1>1, <1>5 DEF RunnerAccounts, GoTo, TypeOK, Exec, BuildSteps
    <2>3. TypeOK'
      BY <1>5, <2>1, <2>2 DEF RunnerAccounts, TypeOK, runnerFrame, reaping, history, Thing
    <2>4. Assigned'
      BY <1>5, <2>1 DEF RunnerAccounts, GoTo, Assigned, RunOf, runnerFrame, reaping, Step, Cur, TypeOK
    <2> QED
      BY <2>3, <2>4
  <1>6. CASE RunnerHarness(e)
    <2>1. r \in Runs
      BY <1>2, <1>6 DEF RunnerHarness, At
    <2>2. exec' \in [Executions -> Exec]
      BY <1>1, <1>6 DEF RunnerHarness, GoTo, TypeOK, Exec, BuildSteps
    <2>3. TypeOK'
      BY <1>6, <2>1, <2>2 DEF RunnerHarness, TypeOK, runnerFrame, tables, reaping, history, Thing
    <2>4. Assigned'
      BY <1>6, <2>1 DEF RunnerHarness, GoTo, Assigned, RunOf, runnerFrame, reaping, Step, Cur, TypeOK
    <2> QED
      BY <2>3, <2>4
  <1>7. CASE RunnerApply(e)
    <2>1. r \in Runs /\ row[r] \in Row
      BY <1>2, <1>7 DEF RunnerApply, At
    <2>2. PICK u \in exec[e].units :
            /\ exec' = [exec EXCEPT ![e].units = @ \ {u}]
            /\ standing' = [standing EXCEPT ![r] =
                              (@ \ (IF u = "gcp" THEN {"sandbox"} ELSE {})) \cup {u}]
            /\ IF u \in {"gcp", "sandbox"} THEN Update(r, SetApplying(row[r])) ELSE UNCHANGED row
      BY <1>7 DEF RunnerApply
    <2>3. row' \in [Runs -> Row]
      BY <1>1, <2>1, <2>2, StatementsKeepRows, UpdateKeepsTable
    <2>4. exec' \in [Executions -> Exec] /\ u \in Thing
      <3>1. exec[e].units \in SUBSET Thing
        BY <1>1 DEF Exec
      <3>2. [exec[e] EXCEPT !.units = exec[e].units \ {u}] \in Exec
        BY <1>1, <3>1 DEF Exec
      <3>3. exec' = [exec EXCEPT ![e] = [exec[e] EXCEPT !.units = exec[e].units \ {u}]]
        BY <2>2
      <3> QED
        BY <3>1, <3>2, <3>3 DEF TypeOK
    <2>5. standing' \in [Runs -> SUBSET Thing]
      BY <2>1, <2>2, <2>4 DEF TypeOK
    <2>6. TypeOK'
      BY <1>7, <2>3, <2>4, <2>5 DEF RunnerApply, TypeOK, runnerFrame, reaping, history
    <2>7. Assigned'
      BY <1>7, <2>1, <2>2 DEF RunnerApply, Assigned, RunOf, runnerFrame, reaping, Step, Cur, TypeOK
    <2> QED
      BY <2>6, <2>7
  <1>8. CASE RunnerReady(e)
    <2> DEFINE t == IF exec[e].expires # NoExpiry THEN exec[e].expires ELSE now + exec[e].ttl
    <2>1. r \in Runs /\ row[r] \in Row
      BY <1>2, <1>8 DEF RunnerReady, At
    <2>2. t \in Int
      BY <1>1 DEF Exec, TypeOK
    <2>3. row' \in [Runs -> Row]
      <3>1. SetReady(row[r], t) \in Row
        BY <2>1, <2>2, StatementsKeepRows
      <3>2. Update(r, SetReady(row[r], t))
        BY <1>8 DEF RunnerReady
      <3> QED
        BY <1>1, <2>1, <3>1, <3>2, UpdateKeepsTable
    <2>4. exec' \in [Executions -> Exec]
      BY <1>1, <1>8 DEF RunnerReady, GoTo, TypeOK, Exec, BuildSteps
    <2>5. TypeOK'
      BY <1>8, <2>1, <2>3, <2>4 DEF RunnerReady, TypeOK, runnerFrame, outside, reaping, history
    <2>6. Assigned'
      BY <1>8, <2>1 DEF RunnerReady, GoTo, Assigned, RunOf, runnerFrame, reaping, Step, Cur, TypeOK
    <2> QED
      BY <2>5, <2>6
  <1>9. ASSUME exec[e].pc \notin {"idle", "done"}, LeaveHalfway(e)
        PROVE  standing' \in [Runs -> SUBSET Thing] /\ orgUnits' \subseteq {NameOf[q] : q \in Runs}
    <2>1. Halfway(e) \subseteq Thing
      BY <1>1 DEF Halfway, Thing, Exec
    <2> QED
      BY <1>2, <1>9, <2>1 DEF LeaveHalfway, TypeOK
  <1>10. CASE RunnerFail(e)
    <2>1. exec[e].pc \notin {"idle", "done"} /\ r \in Runs /\ row[r] \in Row
      BY <1>2, <1>10 DEF RunnerFail, BuildSteps
    <2>2. row' \in [Runs -> Row]
      BY <1>1, <1>10, <2>1, CaughtKeepsRow, UpdateKeepsTable DEF RunnerFail
    <2>3. TypeOK'
      BY <1>9, <1>10, <2>1, <2>2, IdleStates DEF RunnerFail, Leave, TypeOK, runnerFrame, reaping, history
    <2>4. Assigned'
      BY <1>10, <2>1 DEF RunnerFail, Leave, Assigned, RunOf, runnerFrame, reaping, Step, Cur, TypeOK,
                         DoneExec, IdleExec
    <2> QED
      BY <2>3, <2>4
  <1>11. CASE RunnerLoseRow(e) \/ RunnerAnnounce(e)
    <2>1. TypeOK'
      BY <1>11, IdleStates DEF RunnerLoseRow, RunnerAnnounce, Leave, TypeOK, runnerFrame, tables, outside,
                               reaping, history
    <2>2. Assigned'
      BY <1>11 DEF RunnerLoseRow, RunnerAnnounce, Leave, Assigned, RunOf, runnerFrame, reaping, Step, Cur, TypeOK,
                   DoneExec, IdleExec
    <2> QED
      BY <2>1, <2>2
  <1>12. CASE RunnerCrash(e)
    <2>1. exec[e].pc \notin {"idle", "done"}
      BY <1>12 DEF RunnerCrash, BuildSteps
    <2>2. TypeOK'
      BY <1>9, <1>12, <2>1, IdleStates DEF RunnerCrash, Leave, TypeOK, runnerFrame, tables, reaping, history
    <2>3. Assigned'
      BY <1>12 DEF RunnerCrash, Leave, Assigned, RunOf, runnerFrame, reaping, Step, Cur, TypeOK,
                   DoneExec, IdleExec
    <2> QED
      BY <2>2, <2>3
  <1>13. CASE RunnerLateVerdict(e)
    <2>1. r \in Runs /\ row[r] \in Row
      BY <1>2, <1>13 DEF RunnerLateVerdict, At
    <2>2. row' \in [Runs -> Row]
      BY <1>1, <1>13, <2>1, CaughtKeepsRow, UpdateKeepsTable DEF RunnerLateVerdict
    <2>3. TypeOK'
      BY <1>13, <2>1, <2>2, IdleStates DEF RunnerLateVerdict, Leave, TypeOK, outside, reaping
    <2>4. Assigned'
      BY <1>13, <2>1 DEF RunnerLateVerdict, Leave, Assigned, RunOf, reaping, Step, Cur, TypeOK,
                         DoneExec, IdleExec
    <2> QED
      BY <2>3, <2>4
  <1> QED
    BY <1>3, <1>4, <1>5, <1>6, <1>7, <1>8, <1>10, <1>11, <1>12, <1>13 DEF RunnerStep

(* A step of the web app keeps the types.                                   *)
LEMMA ApiTyped ==
  ASSUME TypeInv, ApiNext
  PROVE  TypeInv'
  <1> USE DEF TypeInv
  <1>1. row \in [Runs -> Row] /\ req \in [Requests -> ReqState] /\ exec \in [Executions -> Exec]
    BY DEF TypeOK
  <1>2. ASSUME NEW r \in Runs, CreateScheduledRun(r)
        PROVE  TypeInv'
    <2>1. PICK clouds \in Bookings, start \in StartDays :
            row' = [row EXCEPT ![r] = [Unbooked EXCEPT !.status = "scheduled", !.ttl = DEFAULT_TTL,
                                                       !.start = start, !.clouds = clouds]]
      BY <1>2 DEF CreateScheduledRun
    <2>2. start \in Nat /\ clouds \in SUBSET Clouds
      BY ConstantsAssumption
    <2>3. row' \in [Runs -> Row]
      BY <1>1, <2>1, <2>2, BlankRows DEF Row, RunStatus, DEFAULT_TTL
    <2>4. TypeOK'
      BY <1>2, <2>3 DEF CreateScheduledRun, TypeOK, apiFrame, outside, reaping, history
    <2>5. Assigned'
      BY <1>2 DEF CreateScheduledRun, Assigned, RunOf, apiFrame, reaping, Step, Cur
    <2> QED
      BY <2>4, <2>5
  <1>3. ASSUME NEW q \in Requests, ReadFor(q)
        PROVE  TypeInv'
    <2>1. PICK r \in Runs, op \in Ops, want \in SUBSET Clouds :
            req' = [req EXCEPT ![q] = [pc |-> "write", op |-> op, run |-> r,
                                       seen |-> row[r], want |-> want]]
      BY <1>3, ConstantsAssumption DEF ReadFor
    <2>2. [pc |-> "write", op |-> op, run |-> r, seen |-> row[r], want |-> want] \in ReqState
      BY <1>1, ConstantsAssumption DEF ReqState
    <2>3. TypeOK'
      BY <1>3, <2>1, <2>2 DEF ReadFor, TypeOK, tables, apiFrame, outside, reaping, history
    <2>4. Assigned'
      BY <1>1, <1>3, <2>1 DEF ReadFor, Assigned, RunOf, apiFrame, reaping, Step, Cur
    <2> QED
      BY <2>3, <2>4
  <1>4. ASSUME NEW q \in Requests, ClaimStart(q)
        PROVE  TypeInv'
    <2>1. PICK r \in Runs, op \in Ops :
            /\ Update(r, [row[r] EXCEPT !.status = "requested"])
            /\ req' = [req EXCEPT ![q] = [IdleReq EXCEPT !.pc = "trigger", !.op = op, !.run = r]]
      BY <1>4 DEF ClaimStart
    <2>2. row' \in [Runs -> Row]
      BY <1>1, <2>1, StatementsKeepRows, UpdateKeepsTable DEF RunStatus, InFlight
    <2>3. [IdleReq EXCEPT !.pc = "trigger", !.op = op, !.run = r] \in ReqState
      BY IdleStates, ConstantsAssumption DEF ReqState
    <2>4. TypeOK'
      BY <1>4, <2>1, <2>2, <2>3 DEF ClaimStart, TypeOK, apiFrame, outside, reaping, history
    <2>5. Assigned'
      BY <1>1, <1>4, <2>1 DEF ClaimStart, Assigned, RunOf, apiFrame, reaping, Step, Cur, IdleReq
    <2> QED
      BY <2>4, <2>5
  <1>5. ASSUME NEW q \in Requests, ApiWrite(q) \/ ApiCrash(q)
        PROVE  TypeInv'
    <2> DEFINE r == req[q].run
    <2>1. req[q] \in ReqState /\ req[q].seen \in Row /\ req[q].want \in SUBSET Clouds
      BY <1>1 DEF ReqState
    <2>2. req[q].pc \notin {"idle", "done"}
      BY <1>5 DEF ApiWrite, ApiCrash, WriteExtend, WriteEnd, WriteDelete, WriteRetryTeardown,
         WriteUpdate, ClaimReprovision, TriggerOk, TriggerThrows, Rollback, Serving
    <2>3. r \in Runs /\ row[r] \in Row
      BY <1>1, <2>2 DEF Assigned
    <2>4. ASSUME Answer(q)
          PROVE  /\ req' \in [Requests -> ReqState]
                 /\ \A p \in Requests : req'[p].pc \notin {"idle", "done"} => req'[p].run \in Runs
      BY <1>1, <2>4, IdleStates DEF Answer, Assigned, DoneReq, IdleReq
    <2>5. ASSUME NEW pc \in {"reprovision", "trigger", "rollback"}, Then(q, pc)
          PROVE  /\ req' \in [Requests -> ReqState]
                 /\ \A p \in Requests : req'[p].pc \notin {"idle", "done"} => req'[p].run \in Runs
      <3>1. req' \in [Requests -> ReqState]
        BY <1>1, <2>1, <2>5 DEF Then, ReqState
      <3> QED
        BY <1>1, <2>3, <2>5, <3>1 DEF Then, Assigned
    <2>6. ASSUME NoteStale(q)
          PROVE  stale' \subseteq Runs
      BY <2>3, <2>6 DEF NoteStale, TypeOK
    <2>7. CASE WriteExtend(q)
      <3>1. /\ [row[r] EXCEPT !.expires = req[q].seen.expires + EXTENSION] \in Row
            /\ [row[r] EXCEPT !.ttl = req[q].seen.ttl + EXTENSION] \in Row
        BY <2>1, <2>3 DEF Row, EXTENSION
      <3>2. row' \in [Runs -> Row]
        BY <1>1, <2>3, <2>7, <3>1, UpdateKeepsTable DEF WriteExtend
      <3>3. TypeOK'
        BY <2>4, <2>6, <2>7, <3>2 DEF WriteExtend, TypeOK, apiFrame, outside, reaping
      <3>4. Assigned'
        BY <2>4, <2>7 DEF WriteExtend, Assigned, RunOf, apiFrame, reaping, Step, Cur
      <3> QED
        BY <3>3, <3>4
    <2>8. CASE WriteEnd(q)
      <3>1. [row[r] EXCEPT !.expires = now] \in Row
        BY <2>3 DEF Row, TypeOK
      <3>2. row' \in [Runs -> Row]
        BY <1>1, <2>3, <2>8, <3>1, UpdateKeepsTable DEF WriteEnd
      <3>3. TypeOK'
        BY <2>4, <2>6, <2>8, <3>2 DEF WriteEnd, TypeOK, apiFrame, outside, reaping
      <3>4. Assigned'
        BY <2>4, <2>8 DEF WriteEnd, Assigned, RunOf, apiFrame, reaping, Step, Cur
      <3> QED
        BY <3>3, <3>4
    <2>9. CASE WriteDelete(q)
      <3>1. ASSUME NEW w \in Row
            PROVE  [w EXCEPT !.del = TRUE] \in Row
        BY DEF Row
      <3>2. row' \in [Runs -> Row]
        BY <1>1, <2>3, <2>9, <3>1, StatementsKeepRows, UpdateKeepsTable, BlankRows DEF WriteDelete
      <3>3. roster' \subseteq Runs /\ died' \subseteq Runs /\ resets' \in [Runs -> Nat]
        BY <2>3, <2>9 DEF WriteDelete, TypeOK
      <3>4. TypeOK'
        BY <2>4, <2>6, <2>9, <3>2, <3>3 DEF WriteDelete, TypeOK, apiFrame, outside, reaping
      <3>5. Assigned'
        BY <2>4, <2>9 DEF WriteDelete, Assigned, RunOf, apiFrame, reaping, Step, Cur
      <3> QED
        BY <3>4, <3>5
    <2>10. CASE WriteRetryTeardown(q)
      <3>1. row' \in [Runs -> Row]
        BY <1>1, <2>3, <2>10, StatementsKeepRows, UpdateKeepsTable DEF WriteRetryTeardown
      <3>2. resets' \in [Runs -> Nat] /\ died' \subseteq Runs
        BY <2>3, <2>10 DEF WriteRetryTeardown, TypeOK
      <3>3. TypeOK'
        BY <2>4, <2>6, <2>10, <3>1, <3>2 DEF WriteRetryTeardown, TypeOK, apiFrame, outside, reaping
      <3>4. Assigned'
        BY <2>4, <2>10 DEF WriteRetryTeardown, Assigned, RunOf, apiFrame, reaping, Step, Cur
      <3> QED
        BY <3>4, <3>3
    <2>11. CASE WriteUpdate(q)
      <3>1. [row[r] EXCEPT !.clouds = req[q].want] \in Row
        BY <2>1, <2>3 DEF Row
      <3>2. row' \in [Runs -> Row]
        BY <1>1, <2>3, <2>11, <3>1, UpdateKeepsTable DEF WriteUpdate
      <3>3. TypeOK'
        BY <2>4, <2>5, <2>6, <2>11, <3>2 DEF WriteUpdate, TypeOK, apiFrame, outside, reaping
      <3>4. Assigned'
        BY <2>4, <2>5, <2>11 DEF WriteUpdate, Assigned, RunOf, apiFrame, reaping, Step, Cur
      <3> QED
        BY <3>3, <3>4
    <2>12. CASE ClaimReprovision(q)
      <3>1. row' \in [Runs -> Row]
        BY <1>1, <2>3, <2>12, StatementsKeepRows, UpdateKeepsTable DEF ClaimReprovision, RunStatus, InFlight
      <3>2. TypeOK'
        BY <2>4, <2>5, <2>12, <3>1 DEF ClaimReprovision, TypeOK, apiFrame, outside, reaping, history
      <3>3. Assigned'
        BY <2>4, <2>5, <2>12 DEF ClaimReprovision, Assigned, RunOf, apiFrame, reaping, Step, Cur
      <3> QED
        BY <3>2, <3>3
    <2>13. ASSUME NEW e \in Executions, Accept(e, r)
           PROVE  /\ exec' \in [Executions -> Exec]
                  /\ \A d \in Executions : exec'[d].pc \notin {"idle", "done"} => exec'[d].run \in Runs
      <3>1. exec' \in [Executions -> Exec]
        BY <1>1, <2>3, <2>13 DEF Accept, Exec
      <3> QED
        BY <1>1, <2>3, <2>13, <3>1 DEF Accept, Assigned, RunOf
    <2>14. CASE TriggerOk(q)
      <3>1. PICK e \in Executions : Accept(e, r)
        BY <2>14 DEF TriggerOk
      <3>2. TypeOK'
        BY <2>4, <2>13, <2>14, <3>1 DEF TriggerOk, TypeOK, tables, apiFrame, outside, reaping, history
      <3>3. Assigned'
        BY <2>4, <2>13, <2>14, <3>1 DEF TriggerOk, Assigned, RunOf, apiFrame, reaping, Step, Cur
      <3> QED
        BY <3>2, <3>3
    <2>15. CASE TriggerThrows(q)
      <3>1. /\ exec' \in [Executions -> Exec]
            /\ \A d \in Executions : exec'[d].pc \notin {"idle", "done"} => exec'[d].run \in Runs
            /\ stale' \subseteq Runs
        BY <1>1, <2>3, <2>13, <2>15 DEF TriggerThrows, Assigned, RunOf, TypeOK
      <3>2. TypeOK'
        BY <2>5, <2>15, <3>1 DEF TriggerThrows, TypeOK, tables, apiFrame, outside, reaping
      <3>3. Assigned'
        BY <2>5, <2>15, <3>1 DEF TriggerThrows, Assigned, RunOf, apiFrame, reaping, Step, Cur
      <3> QED
        BY <3>2, <3>3
    <2>16. CASE Rollback(q)
      <3>1. row' \in [Runs -> Row]
        BY <1>1, <2>3, <2>16, StatementsKeepRows, UpdateKeepsTable DEF Rollback, ClaimFrom, RunStatus
      <3>2. TypeOK'
        BY <2>3, <2>4, <2>16, <3>1 DEF Rollback, TypeOK, apiFrame, outside, reaping
      <3>3. Assigned'
        BY <2>4, <2>16 DEF Rollback, Assigned, RunOf, apiFrame, reaping, Step, Cur
      <3> QED
        BY <3>2, <3>3
    <2>17. CASE ApiCrash(q)
      <3>1. TypeOK'
        BY <2>4, <2>17 DEF ApiCrash, TypeOK, tables, apiFrame, outside, reaping, history
      <3>2. Assigned'
        BY <2>4, <2>17 DEF ApiCrash, Assigned, RunOf, apiFrame, reaping, Step, Cur
      <3> QED
        BY <3>1, <3>2
    <2> QED
      BY <1>5, <2>7, <2>8, <2>9, <2>10, <2>11, <2>12, <2>14, <2>15, <2>16, <2>17 DEF ApiWrite
  <1> QED
    BY <1>2, <1>3, <1>4, <1>5 DEF ApiNext

(* A step of the scheduler keeps the types.                                 *)
LEMMA SchedulerTyped ==
  ASSUME TypeInv, SchedulerNext
  PROVE  TypeInv'
  <1> USE DEF TypeInv
  <1>1. row \in [Runs -> Row] /\ due \subseteq Runs
    BY DEF TypeOK
  <1>2. CASE SchedulerClaim
    <2>1. \A r \in Runs : [row[r] EXCEPT !.status = "requested"] \in Row
      BY <1>1, StatementsKeepRows DEF RunStatus, InFlight
    <2>2. row' \in [Runs -> Row] /\ due' \subseteq Runs
      BY <1>1, <1>2, <2>1 DEF SchedulerClaim
    <2>3. TypeOK'
      BY <1>2, <2>2 DEF SchedulerClaim, TypeOK, schedulerFrame, outside, reaping, history
    <2>4. Assigned'
      BY <1>2 DEF SchedulerClaim, Assigned, RunOf, schedulerFrame, reaping, Step, Cur
    <2> QED
      BY <2>3, <2>4
  <1>3. CASE SchedulerHandOver
    <2>1. PICK r \in due, e \in Executions : Accept(e, r) /\ due' = due \ {r}
      BY <1>3 DEF SchedulerHandOver
    <2>2. exec' \in [Executions -> Exec]
      BY <1>1, <2>1 DEF Accept, TypeOK, Exec
    <2>3. TypeOK'
      BY <1>1, <1>3, <2>1, <2>2 DEF SchedulerHandOver, TypeOK, schedulerFrame, tables, outside, reaping, history
    <2>4. Assigned'
      BY <1>1, <1>3, <2>1, <2>2 DEF SchedulerHandOver, Accept, Assigned, RunOf, schedulerFrame, reaping,
                                    Step, Cur, TypeOK
    <2> QED
      BY <2>3, <2>4
  <1>4. CASE SchedulerPutBack
    <2>1. PICK r \in due : Update(r, SetScheduledBack(row[r])) /\ due' = due \ {r}
      BY <1>4 DEF SchedulerPutBack
    <2>2. row' \in [Runs -> Row]
      BY <1>1, <2>1, StatementsKeepRows, UpdateKeepsTable
    <2>3. TypeOK'
      BY <1>1, <1>4, <2>1, <2>2 DEF SchedulerPutBack, TypeOK, schedulerFrame, outside, reaping, history
    <2>4. Assigned'
      BY <1>4 DEF SchedulerPutBack, Assigned, RunOf, schedulerFrame, reaping, Step, Cur
    <2> QED
      BY <2>3, <2>4
  <1>5. CASE SchedulerAbort \/ SchedulerCrash
    <2>1. TypeOK'
      BY <1>5 DEF SchedulerAbort, SchedulerCrash, TypeOK, schedulerFrame, tables, outside, reaping, history
    <2>2. Assigned'
      BY <1>5 DEF SchedulerAbort, SchedulerCrash, Assigned, RunOf, schedulerFrame, reaping, Step, Cur
    <2> QED
      BY <2>1, <2>2
  <1> QED
    BY <1>2, <1>3, <1>4, <1>5 DEF SchedulerNext, SchedulerStep

(* A step of a reaper execution keeps the types.                            *)
LEMMA ReaperTyped ==
  ASSUME TypeInv, NEW x \in Reapers, ReaperStep(x) \/ ReaperThrow(x) \/ ReaperCrash(x)
  PROVE  TypeInv'
  <1> USE DEF TypeInv
  <1> DEFINE r == Cur(x)
             Holds(s) == s.pc \in LockedSteps => s.cur \in Runs
  <1>1. /\ row \in [Runs -> Row] /\ reaper \in [Reapers -> ReaperState]
        /\ reaper[x] \in ReaperState /\ lock \in [Runs -> Reapers \cup {Null}]
    BY DEF TypeOK
  <1>2. Step(x) \in LockedSteps => r \in Runs /\ row[r] \in Row
    BY <1>1 DEF Assigned
  (* What each way of moving on leaves in the execution's state.              *)
  <1>3. ASSUME NEW s \in ReaperState, Holds(s), reaper' = [reaper EXCEPT ![x] = s],
               UNCHANGED <<exec, req>>
        PROVE  reaper' \in [Reapers -> ReaperState] /\ Assigned'
    BY <1>1, <1>3 DEF Assigned, RunOf, Step, Cur
  <1>4. Unlock(x) => lock' \in [Runs -> Reapers \cup {Null}]
    BY <1>1 DEF Unlock
  <1>5. Finished(x) \in ReaperState /\ Holds(Finished(x)) /\ Holds(IdleReaper)
    <2>1. reaper[x].todo \in SUBSET Runs /\ reaper[x].listed \in [Runs -> Listing]
      BY <1>1 DEF ReaperState
    <2>2. Blank \in Listing
      BY DEF Blank, Listing, NoRow
    <2> QED
      BY <2>1, <2>2, IdleStates DEF Finished, ReaperState, IdleReaper, LockedSteps, TeardownSteps
  <1>6. ASSUME NEW pc \in LockedSteps, Advance(x, pc), Step(x) \in LockedSteps, UNCHANGED <<exec, req>>
        PROVE  reaper' \in [Reapers -> ReaperState] /\ Assigned'
    <2>1. [reaper[x] EXCEPT !.pc = pc] \in ReaperState
      BY <1>1 DEF ReaperState
    <2>2. Holds([reaper[x] EXCEPT !.pc = pc])
      BY <1>1, <1>2, <1>6 DEF ReaperState, Cur
    <2> QED
      BY <1>1, <1>3, <1>6, <2>1, <2>2 DEF Advance
  <1>7. ASSUME NextRun(x) \/ Exit(x), UNCHANGED <<exec, req>>
        PROVE  /\ reaper' \in [Reapers -> ReaperState] /\ Assigned'
               /\ lock' \in [Runs -> Reapers \cup {Null}]
    BY <1>1, <1>3, <1>4, <1>5, <1>7, IdleStates DEF NextRun, Exit
  <1>8. CASE ReaperList(x)
    <2> DEFINE found == {q \in Runs : Reapable(row[q])}
               s == [IdleReaper EXCEPT !.pc = "scan", !.todo = found,
                       !.listed = [q \in Runs |-> IF q \in found THEN Glimpse(row[q]) ELSE Blank]]
    <2>1. \A q \in Runs : Glimpse(row[q]) \in Listing
      BY <1>1 DEF Glimpse, Listing, Row
    <2>2. Blank \in Listing
      BY DEF Blank, Listing, NoRow
    <2>3. s \in ReaperState /\ Holds(s)
      BY <2>1, <2>2, IdleStates DEF ReaperState, LockedSteps, TeardownSteps
    <2>4. reaper' = [reaper EXCEPT ![x] = s] /\ UNCHANGED <<exec, req>>
      BY <1>8 DEF ReaperList, reaperFrame
    <2>5. reaper' \in [Reapers -> ReaperState] /\ Assigned'
      BY <1>3, <2>3, <2>4
    <2>6. TypeOK'
      BY <1>8, <2>5 DEF ReaperList, TypeOK, reaperFrame, tables, outside, history
    <2> QED
      BY <2>5, <2>6
  <1>9. CASE ReaperTryLock(x)
    <2>1. PICK q \in reaper[x].todo :
            LET rest == reaper[x].todo \ {q} IN
            IF lock[q] = Null
            THEN /\ lock' = [lock EXCEPT ![q] = x]
                 /\ reaper' = [reaper EXCEPT ![x].pc = "claim", ![x].cur = q, ![x].todo = rest]
            ELSE /\ reaper' = [reaper EXCEPT ![x].todo = rest, ![x].listed[q] = Blank,
                                             ![x].pc = IF rest = {} THEN "idle" ELSE "scan"]
                 /\ UNCHANGED lock
      BY <1>9 DEF ReaperTryLock
    <2> DEFINE rest == reaper[x].todo \ {q}
               s == IF lock[q] = Null
                    THEN [reaper[x] EXCEPT !.pc = "claim", !.cur = q, !.todo = rest]
                    ELSE [reaper[x] EXCEPT !.todo = rest, !.listed[q] = Blank,
                                           !.pc = IF rest = {} THEN "idle" ELSE "scan"]
    <2>2. q \in Runs /\ rest \in SUBSET Runs /\ Blank \in Listing
      BY <1>1 DEF ReaperState, Blank, Listing, NoRow
    <2>3. s \in ReaperState /\ Holds(s)
      BY <1>1, <2>2 DEF ReaperState, LockedSteps, TeardownSteps
    <2>4. reaper' = [reaper EXCEPT ![x] = s] /\ UNCHANGED <<exec, req>>
      BY <1>1, <1>9, <2>1 DEF ReaperTryLock, reaperFrame
    <2>5. reaper' \in [Reapers -> ReaperState] /\ Assigned'
      BY <1>3, <2>3, <2>4
    <2>6. lock' \in [Runs -> Reapers \cup {Null}]
      BY <1>1, <2>1
    <2>7. TypeOK'
      BY <1>9, <2>5, <2>6 DEF ReaperTryLock, TypeOK, reaperFrame, tables, outside, history
    <2> QED
      BY <2>5, <2>7
  <1>10. CASE ReaperClaim(x)
    <2> DEFINE s == [reaper[x] EXCEPT !.pc = "clouds", !.units = Units(Seen(x).clouds),
                                      !.attempt = row'[r].attempts]
    <2>1. Step(x) \in LockedSteps /\ r \in Runs /\ row[r] \in Row
      BY <1>2, <1>10 DEF ReaperClaim, LockedSteps
    <2>2. CASE Exists(r) /\ ~row[r].claimed
      <3>1. /\ Update(r, SetDestroyClaim(row[r]))
            /\ UNCHANGED <<roster, outside, lock, resets, reaperFrame>>
        BY <1>10, <2>2 DEF ReaperClaim
      <3>2. stale' \in SUBSET Runs /\ died' \in SUBSET Runs
        BY <1>10, <2>1, <2>2 DEF ReaperClaim, TypeOK
      <3>3. reaper' = [reaper EXCEPT ![x] = s]
        <4>1. reaper' = [reaper EXCEPT ![x].pc = "clouds", ![x].units = Units(Seen(x).clouds),
                                       ![x].attempt = row'[r].attempts]
          BY <1>10, <2>2 DEF ReaperClaim
        <4> QED
          BY <1>1, <4>1 DEF ReaperState
      <3>4. row' \in [Runs -> Row]
        BY <1>1, <2>1, <3>1, ClaimKeepsRow, UpdateKeepsTable
      <3>5. row'[r].attempts \in 0 .. AttemptCap
        BY <2>1, <3>4 DEF Row
      <3>6. Units(Seen(x).clouds) \in SUBSET Thing
        <4>1. Seen(x).clouds \in SUBSET Clouds
          BY <1>1, <2>1 DEF Seen, ReaperState, Listing
        <4> QED
          BY <4>1, UnitsAreThings
      <3>7. s \in ReaperState /\ Holds(s)
        BY <1>1, <2>1, <3>5, <3>6 DEF ReaperState, LockedSteps, TeardownSteps, Cur
      <3>8. reaper' \in [Reapers -> ReaperState] /\ Assigned'
        BY <1>3, <3>1, <3>3, <3>7 DEF reaperFrame
      <3>9. TypeOK'
        BY <3>1, <3>2, <3>4, <3>8 DEF TypeOK, reaperFrame, outside
      <3> QED
        BY <3>8, <3>9
    <2>3. CASE ~(Exists(r) /\ ~row[r].claimed)
      <3>1. Advance(x, "abandoned") /\ UNCHANGED <<tables, outside, lock, history, reaperFrame>>
        BY <1>10, <2>3 DEF ReaperClaim, tables, history
      <3>2. reaper' \in [Reapers -> ReaperState] /\ Assigned'
        BY <1>6, <2>1, <3>1 DEF LockedSteps, reaperFrame
      <3>3. TypeOK'
        BY <3>1, <3>2 DEF TypeOK, reaperFrame, tables, outside, history
      <3> QED
        BY <3>2, <3>3
    <2> QED
      BY <2>2, <2>3
  <1>11. CASE ReaperFlagDead(x)
    <2>1. Step(x) \in LockedSteps /\ r \in Runs /\ row[r] \in Row
      BY <1>2, <1>11 DEF ReaperFlagDead, LockedSteps
    <2>2. row' \in [Runs -> Row]
      BY <1>1, <1>11, <2>1, StatementsKeepRows, UpdateKeepsTable DEF ReaperFlagDead
    <2>3. /\ reaper' \in [Reapers -> ReaperState] /\ Assigned'
          /\ lock' \in [Runs -> Reapers \cup {Null}]
      BY <1>7, <1>11 DEF ReaperFlagDead, reaperFrame
    <2> QED
      BY <1>11, <2>2, <2>3 DEF ReaperFlagDead, TypeOK, reaperFrame, outside, history
  <1>12. CASE ReaperDestroyCloud(x)
    <2>1. PICK u \in reaper[x].units :
            /\ standing' = [standing EXCEPT ![r] = @ \ {u}]
            /\ reaper' = [reaper EXCEPT ![x].units = @ \ {u},
                            ![x].pc = IF reaper[x].units = {u} THEN "harness" ELSE "clouds"]
      BY <1>12 DEF ReaperDestroyCloud
    <2> DEFINE s == [reaper[x] EXCEPT !.units = @ \ {u},
                       !.pc = IF reaper[x].units = {u} THEN "harness" ELSE "clouds"]
    <2>2. r \in Runs
      BY <1>2, <1>12 DEF ReaperDestroyCloud, LockedSteps, TeardownSteps
    <2>3. s \in ReaperState /\ Holds(s)
      BY <1>1, <2>2 DEF ReaperState, LockedSteps, TeardownSteps, Cur
    <2>4. reaper' = [reaper EXCEPT ![x] = s] /\ UNCHANGED <<exec, req>>
      BY <1>1, <1>12, <2>1 DEF ReaperDestroyCloud, reaperFrame
    <2>5. reaper' \in [Reapers -> ReaperState] /\ Assigned'
      BY <1>3, <2>3, <2>4
    <2>6. standing' \in [Runs -> SUBSET Thing]
      BY <2>1 DEF TypeOK
    <2>7. TypeOK'
      BY <1>12, <2>5, <2>6 DEF ReaperDestroyCloud, TypeOK, tables, history, reaperFrame
    <2> QED
      BY <2>5, <2>7
  (* The steps that take something down and advance.                          *)
  <1>13. ASSUME NEW pc \in LockedSteps, Advance(x, pc), Step(x) \in LockedSteps,
                UNCHANGED <<row, lock, history, reaperFrame>>,
                roster' \in SUBSET Runs, standing' \in [Runs -> SUBSET Thing],
                orgUnits' \in SUBSET {NameOf[q] : q \in Runs}
         PROVE  TypeInv'
    <2>1. reaper' \in [Reapers -> ReaperState] /\ Assigned'
      BY <1>6, <1>13 DEF reaperFrame
    <2>2. TypeOK'
      BY <1>13, <2>1 DEF TypeOK, history, reaperFrame
    <2> QED
      BY <2>1, <2>2
  <1>14. /\ roster \in SUBSET Runs /\ standing \in [Runs -> SUBSET Thing]
         /\ orgUnits \in SUBSET {NameOf[q] : q \in Runs}
    BY DEF TypeOK
  <1>15. TeardownSteps \subseteq LockedSteps /\ {"threw", "claim", "abandoned"} \subseteq LockedSteps
    BY DEF LockedSteps
  <1>16. CASE ReaperDestroyHarness(x)
    <2>1. standing' \in [Runs -> SUBSET Thing]
      BY <1>14, <1>16 DEF ReaperDestroyHarness
    <2> QED
      BY <1>13, <1>14, <1>15, <1>16, <2>1 DEF ReaperDestroyHarness, TeardownSteps, tables
  <1>17. CASE ReaperDeleteAccounts(x)
    <2>1. standing' \in [Runs -> SUBSET Thing]
      BY <1>14, <1>17 DEF ReaperDeleteAccounts
    <2> QED
      BY <1>13, <1>14, <1>15, <1>17, <2>1 DEF ReaperDeleteAccounts, TeardownSteps, tables
  <1>18. CASE ReaperDeleteOrgUnit(x)
    <2>1. standing' \in [Runs -> SUBSET Thing] /\ orgUnits' \in SUBSET {NameOf[q] : q \in Runs}
      BY <1>14, <1>18 DEF ReaperDeleteOrgUnit, outside
    <2> QED
      BY <1>13, <1>14, <1>15, <1>18, <2>1 DEF ReaperDeleteOrgUnit, TeardownSteps, tables
  <1>19. CASE ReaperForget(x)
    BY <1>13, <1>14, <1>15, <1>19 DEF ReaperForget, TeardownSteps, outside
  <1>20. CASE ReaperFinish(x)
    <2>1. Step(x) \in LockedSteps /\ r \in Runs /\ row[r] \in Row
      BY <1>2, <1>20 DEF ReaperFinish, LockedSteps, TeardownSteps
    <2>2. CASE row[r].del
      <3>1. row' \in [Runs -> Row] /\ roster' \in SUBSET Runs /\ NextRun(x)
            /\ UNCHANGED <<outside, history, reaperFrame>>
        BY <1>1, <1>14, <1>20, <2>1, <2>2, BlankRows DEF ReaperFinish
      <3>2. /\ reaper' \in [Reapers -> ReaperState] /\ Assigned'
            /\ lock' \in [Runs -> Reapers \cup {Null}]
        BY <1>7, <3>1 DEF reaperFrame
      <3> QED
        BY <3>1, <3>2 DEF TypeOK, reaperFrame, outside, history
    <2>3. CASE ~row[r].del
      BY <1>13, <1>14, <1>15, <1>20, <2>1, <2>3
      DEF ReaperFinish, TeardownSteps, tables, outside
    <2> QED
      BY <2>2, <2>3
  <1>21. CASE ReaperMark(x) \/ ReaperDecide(x)
    <2>1. Step(x) \in LockedSteps /\ r \in Runs /\ row[r] \in Row
      BY <1>2, <1>21 DEF ReaperMark, ReaperDecide, LockedSteps, TeardownSteps
    <2>2. row' \in [Runs -> Row]
      BY <1>1, <1>21, <2>1, StatementsKeepRows, UpdateKeepsTable DEF ReaperMark, ReaperDecide
    <2>3. /\ reaper' \in [Reapers -> ReaperState] /\ Assigned'
          /\ lock' \in [Runs -> Reapers \cup {Null}]
      BY <1>7, <1>21 DEF ReaperMark, ReaperDecide, reaperFrame
    <2> QED
      BY <1>21, <2>2, <2>3 DEF ReaperMark, ReaperDecide, TypeOK, reaperFrame, outside, history
  <1>22. CASE ReaperThrow(x)
    <2>1. PICK clears \in BOOLEAN :
            reaper' = [reaper EXCEPT ![x].pc = "threw", ![x].clears = clears]
      BY <1>22 DEF ReaperThrow
    <2> DEFINE s == [reaper[x] EXCEPT !.pc = "threw", !.clears = clears]
    <2>2. r \in Runs
      BY <1>2, <1>15, <1>22 DEF ReaperThrow
    <2>3. s \in ReaperState /\ Holds(s)
      BY <1>1, <2>2 DEF ReaperState, LockedSteps, Cur
    <2>4. reaper' = [reaper EXCEPT ![x] = s] /\ UNCHANGED <<exec, req>>
      BY <1>1, <1>22, <2>1 DEF ReaperThrow, reaperFrame
    <2>5. reaper' \in [Reapers -> ReaperState] /\ Assigned'
      BY <1>3, <2>3, <2>4
    <2>6. TypeOK'
      BY <1>22, <2>5 DEF ReaperThrow, TypeOK, tables, outside, history, reaperFrame
    <2> QED
      BY <2>5, <2>6
  <1>23. CASE ReaperLoseRow(x)
    <2>1. /\ reaper' \in [Reapers -> ReaperState] /\ Assigned'
          /\ lock' \in [Runs -> Reapers \cup {Null}]
      BY <1>7, <1>23 DEF ReaperLoseRow, reaperFrame
    <2> QED
      BY <1>23, <2>1 DEF ReaperLoseRow, TypeOK, tables, outside, history, reaperFrame
  <1>24. CASE ReaperCrash(x)
    <2>1. /\ reaper' \in [Reapers -> ReaperState] /\ Assigned'
          /\ lock' \in [Runs -> Reapers \cup {Null}]
      BY <1>7, <1>24 DEF ReaperCrash, reaperFrame
    <2>2. died' \in SUBSET Runs
      BY <1>2, <1>15, <1>24 DEF ReaperCrash, TypeOK
    <2> QED
      BY <1>24, <2>1, <2>2 DEF ReaperCrash, TypeOK, tables, outside, reaperFrame
  <1> QED
    BY <1>8, <1>9, <1>10, <1>11, <1>12, <1>16, <1>17, <1>18, <1>19, <1>20, <1>21, <1>22, <1>23, <1>24
    DEF ReaperStep

-----------------------------------------------------------------------------
(* The table is empty and nobody is at work at the start.                   *)
LEMMA InitTyped == Init => TypeInv
  <1> SUFFICES ASSUME Init PROVE TypeInv
    OBVIOUS
  <1>1. 0 \in 0 .. MaxNow
    BY ConstantsAssumption
  <1>2. TypeOK
    BY <1>1, BlankRows, IdleStates DEF Init, TypeOK
  <1>3. Assigned
    BY DEF Init, Assigned, IdleExec, IdleReq, IdleReaper, Step, LockedSteps, TeardownSteps
  <1> QED
    BY <1>2, <1>3 DEF TypeInv

(* No step of anybody, and no stuttering step, breaks TypeInv.              *)
LEMMA NextTyped == TypeInv /\ [Next]_vars => TypeInv'
  <1> SUFFICES ASSUME TypeInv, [Next]_vars PROVE TypeInv'
    OBVIOUS
  <1>1. CASE ApiNext
    BY <1>1, ApiTyped
  <1>2. CASE SchedulerNext
    BY <1>2, SchedulerTyped
  <1>3. CASE RunnerNext
    BY <1>3, RunnerTyped DEF RunnerNext
  <1>4. CASE ReaperNext
    BY <1>4, ReaperTyped DEF ReaperNext
  <1>5. CASE Tick
    <2>1. now' \in 0 .. MaxNow
      BY <1>5, ConstantsAssumption DEF Tick, TypeInv, TypeOK
    <2>2. TypeOK'
      BY <1>5, <2>1 DEF Tick, TypeInv, TypeOK, tables, outside, reaping, history
    <2>3. Assigned'
      BY <1>5 DEF Tick, TypeInv, Assigned, RunOf, reaping, Step, Cur
    <2> QED
      BY <2>2, <2>3 DEF TypeInv
  <1>6. CASE UNCHANGED vars
    BY <1>6 DEF vars, TypeInv, TypeOK, Assigned, tables, outside, reaping, history, RunOf, Step, Cur
  <1> QED
    BY <1>1, <1>2, <1>3, <1>4, <1>5, <1>6 DEF Next

(* In every reachable state everybody at work has a run to work on.         *)
LEMMA TypeInvariance == Spec => []TypeInv
  <1> QED
    BY InitTyped, NextTyped, PTL DEF Spec

(* In every reachable state the rows hold only statuses of the run_status   *)
(* enum and every actor is at one of its steps, whatever the numbers of     *)
(* runs, clouds, people and jobs.                                           *)
THEOREM TypeCorrect == Spec => []TypeOK
  <1>1. TypeInv => TypeOK
    BY DEF TypeInv
  <1> QED
    BY <1>1, TypeInvariance, PTL
=============================================================================
