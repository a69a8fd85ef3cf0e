------------------------- MODULE WorkshopRunsProofs -------------------------
(***************************************************************************)
(* Safety of the teardown protocol, for every value of the constants.      *)
(*                                                                         *)
(* Two invariants carry it.  LockHeld: an execution past withRunLock's     *)
(* test holds the lock of the run it is at.  ClaimInv: a claim that is set *)
(* has an attempt at work under it or one that was killed, and a row that  *)
(* is gone has none.                                                       *)
(***************************************************************************)
EXTENDS WorkshopRunsTyping

LockHeld == \A x \in Reapers : Step(x) \in LockedSteps => lock[Cur(x)] = x

GoneIsUnclaimed == \A r \in Runs : ~Exists(r) => ~row[r].claimed

ClaimInv == ClaimExplained /\ GoneIsUnclaimed

-----------------------------------------------------------------------------
(* Nobody but a reaper execution touches its lock or its place in the loop. *)
LEMMA OthersLeaveReapers ==
  ASSUME ApiNext \/ SchedulerNext \/ RunnerNext \/ Tick
  PROVE  UNCHANGED reaping
  <1>1. CASE ApiNext
    BY <1>1 DEF ApiNext, CreateScheduledRun, ReadFor, ClaimStart, ApiWrite, ApiCrash, WriteExtend,
       WriteEnd, WriteDelete, WriteRetryTeardown, WriteUpdate, ClaimReprovision, TriggerOk,
       TriggerThrows, Rollback, apiFrame
  <1>2. CASE SchedulerNext
    BY <1>2 DEF SchedulerNext, SchedulerStep, SchedulerClaim, SchedulerHandOver, SchedulerPutBack,
       SchedulerAbort, SchedulerCrash, schedulerFrame
  <1>3. CASE RunnerNext
    BY <1>3 DEF RunnerNext, RunnerStep, RunnerStart, RunnerOrgUnit, RunnerAccounts, RunnerHarness,
       RunnerApply, RunnerReady, RunnerAnnounce, RunnerLateVerdict, RunnerLoseRow, RunnerFail, RunnerCrash,
       runnerFrame
  <1>4. CASE Tick
    BY <1>4 DEF Tick
  <1> QED
    BY <1>1, <1>2, <1>3, <1>4

(* A step of a reaper execution keeps the lock of every execution's run.    *)
LEMMA ReaperKeepsLocks ==
  ASSUME TypeInv, LockHeld, NEW x \in Reapers, ReaperStep(x) \/ ReaperThrow(x) \/ ReaperCrash(x)
  PROVE  LockHeld'
  <1>1. /\ reaper \in [Reapers -> ReaperState] /\ lock \in [Runs -> Reapers \cup {Null}]
        /\ reaper[x] \in ReaperState
    BY DEF TypeInv, TypeOK
  <1>2. \A y \in Reapers : Step(y) \in LockedSteps => Cur(y) \in Runs
    BY DEF TypeInv, Assigned
  (* Only x's own locks are given up, and x is at no locked step after.       *)
  <1>3. ASSUME NextRun(x) \/ Exit(x)
        PROVE  LockHeld'
    <2>1. Step(x)' \notin LockedSteps
      <3>1. Finished(x).pc \in {"idle", "scan"} /\ IdleReaper.pc = "idle"
        BY DEF Finished, IdleReaper
      <3>2. reaper'[x] = Finished(x) \/ reaper'[x] = IdleReaper
        BY <1>1, <1>3 DEF NextRun, Exit
      <3> QED
        BY <3>1, <3>2 DEF Step, LockedSteps, TeardownSteps
    <2>2. \A y \in Reapers \ {x} : reaper'[y] = reaper[y]
      BY <1>1, <1>3 DEF NextRun, Exit
    <2>3. \A r \in Runs : lock[r] # x => lock'[r] = lock[r]
      BY <1>1, <1>3 DEF NextRun, Exit, Unlock
    <2> QED
      BY <1>2, <2>1, <2>2, <2>3 DEF LockHeld, Step, Cur
  (* x stays at the run whose lock it holds, or is at none.                   *)
  <1>4. ASSUME UNCHANGED lock, \A y \in Reapers \ {x} : reaper'[y] = reaper[y],
               Step(x)' \in LockedSteps => Step(x) \in LockedSteps /\ Cur(x)' = Cur(x)
        PROVE  LockHeld'
    BY <1>4 DEF LockHeld, Step, Cur
  <1>5. CASE ReaperList(x)
    BY <1>1, <1>4, <1>5 DEF ReaperList, IdleReaper, Step, LockedSteps, TeardownSteps
  <1>6. CASE ReaperTryLock(x)
    <2>1. PICK r \in reaper[x].todo :
            LET rest == reaper[x].todo \ {r} IN
            IF lock[r] = Null
            THEN /\ lock' = [lock EXCEPT ![r] = x]
                 /\ reaper' = [reaper EXCEPT ![x].pc = "claim", ![x].cur = r, ![x].todo = rest]
            ELSE /\ reaper' = [reaper EXCEPT ![x].todo = rest, ![x].listed[r] = Blank,
                                             ![x].pc = IF rest = {} THEN "idle" ELSE "scan"]
                 /\ UNCHANGED lock
      BY <1>6 DEF ReaperTryLock
    <2>2. r \in Runs
      BY <1>1 DEF ReaperState
    <2>3. CASE lock[r] = Null
      <3>1. /\ lock' = [lock EXCEPT ![r] = x]
            /\ reaper' = [reaper EXCEPT ![x].pc = "claim", ![x].cur = r,
                                        ![x].todo = reaper[x].todo \ {r}]
        BY <2>1, <2>3
      <3>2. lock'[r] = x /\ \A q \in Runs \ {r} : lock'[q] = lock[q]
        BY <1>1, <2>2, <3>1
      <3>3. Cur(x)' = r /\ \A y \in Reapers \ {x} : reaper'[y] = reaper[y]
        BY <1>1, <3>1 DEF Cur, ReaperState
      <3>4. \A y \in Reapers : lock[r] # y
        BY <2>3, ConstantsAssumption
      <3> QED
        BY <1>2, <3>2, <3>3, <3>4 DEF LockHeld, Step, Cur
    <2>4. CASE lock[r] # Null
      BY <1>1, <1>4, <2>1, <2>4 DEF Step, LockedSteps, TeardownSteps, ReaperState
    <2> QED
      BY <2>3, <2>4
  <1>7. CASE ReaperClaim(x)
    <2>1. /\ UNCHANGED lock /\ Step(x) \in LockedSteps
          /\ \A y \in Reapers \ {x} : reaper'[y] = reaper[y]
          /\ Cur(x)' = Cur(x)
      BY <1>1, <1>7 DEF ReaperClaim, Advance, Step, Cur, LockedSteps, ReaperState
    <2> QED
      BY <1>4, <2>1
  <1>8. CASE ReaperFlagDead(x) \/ ReaperMark(x) \/ ReaperDecide(x) \/ ReaperLoseRow(x) \/ ReaperCrash(x)
    BY <1>3, <1>8 DEF ReaperFlagDead, ReaperMark, ReaperDecide, ReaperLoseRow, ReaperCrash
  <1>9. ASSUME UNCHANGED lock, NEW pc, Advance(x, pc), Step(x) \in LockedSteps
        PROVE  LockHeld'
    <2>1. Cur(x)' = Cur(x) /\ \A y \in Reapers \ {x} : reaper'[y] = reaper[y]
      BY <1>1, <1>9 DEF Advance, Cur, ReaperState
    <2> QED
      BY <1>4, <1>9, <2>1
  <1>10. CASE ReaperFinish(x)
    <2>1. Step(x) \in LockedSteps
      BY <1>10 DEF ReaperFinish, LockedSteps, TeardownSteps
    <2>2. CASE row[Cur(x)].del
      BY <1>3, <1>10, <2>2 DEF ReaperFinish
    <2>3. CASE ~row[Cur(x)].del
      BY <1>9, <1>10, <2>1, <2>3 DEF ReaperFinish
    <2> QED
      BY <2>2, <2>3
  <1>11. CASE \/ ReaperDestroyHarness(x) \/ ReaperDeleteAccounts(x)
              \/ ReaperDeleteOrgUnit(x) \/ ReaperForget(x)
    <2>1. Step(x) \in LockedSteps
      BY <1>11 DEF ReaperDestroyHarness, ReaperDeleteAccounts, ReaperDeleteOrgUnit, ReaperForget,
         LockedSteps, TeardownSteps
    <2> QED
      BY <1>9, <1>11, <2>1
      DEF ReaperDestroyHarness, ReaperDeleteAccounts, ReaperDeleteOrgUnit, ReaperForget
  <1>12. CASE ReaperDestroyCloud(x) \/ ReaperThrow(x)
    <2>1. UNCHANGED lock /\ Step(x) \in LockedSteps
      BY <1>12 DEF ReaperDestroyCloud, ReaperThrow, LockedSteps, TeardownSteps
    <2>2. \A y \in Reapers \ {x} : reaper'[y] = reaper[y]
      BY <1>1, <1>12 DEF ReaperDestroyCloud, ReaperThrow
    <2>3. CASE ReaperDestroyCloud(x)
      <3>1. Cur(x)' = Cur(x)
        BY <1>1, <2>3 DEF ReaperDestroyCloud, Cur, ReaperState
      <3> QED
        BY <1>4, <2>1, <2>2, <3>1
    <2>4. CASE ReaperThrow(x)
      <3>1. Cur(x)' = Cur(x)
        BY <1>1, <2>4 DEF ReaperThrow, Cur, ReaperState
      <3> QED
        BY <1>4, <2>1, <2>2, <3>1
    <2> QED
      BY <1>12, <2>3, <2>4
  <1> QED
    BY <1>5, <1>6, <1>7, <1>8, <1>10, <1>11, <1>12 DEF ReaperStep

(* An execution at a run's teardown holds that run's lock.                  *)
LEMMA LockInvariance == Spec => [](TypeInv /\ LockHeld)
  <1>1. Init => LockHeld
    BY DEF Init, LockHeld, IdleReaper, Step, LockedSteps, TeardownSteps
  <1>2. TypeInv /\ LockHeld /\ [Next]_vars => LockHeld'
    <2> SUFFICES ASSUME TypeInv, LockHeld, [Next]_vars PROVE LockHeld'
      OBVIOUS
    <2>1. CASE UNCHANGED reaping
      BY <2>1 DEF reaping, LockHeld, Step, Cur
    <2>2. CASE ReaperNext
      BY <2>2, ReaperKeepsLocks DEF ReaperNext
    <2> QED
      BY <2>1, <2>2, OthersLeaveReapers DEF Next, vars, reaping
  <1> QED
    BY <1>1, <1>2, TypeInvariance, PTL DEF Spec

(* Two reaper executions are never inside one run's teardown at once.       *)
THEOREM TeardownIsExclusive == Spec => []TeardownExclusive
  <1>1. LockHeld => TeardownExclusive
    BY DEF LockHeld, TeardownExclusive, TearingDown, LockedSteps
  <1> QED
    BY <1>1, LockInvariance, PTL

-----------------------------------------------------------------------------
(* A write that sets no claim, and takes the claim with the row.            *)
Tame(v, w) == (w.claimed => v.claimed) /\ (w.status \in NoRow => ~w.claimed)

(* What a step does to the claims if all its writes are tame.               *)
ClaimsTamed ==
  \A r \in Runs : Tame(row[r], row'[r]) /\ (row'[r].claimed /\ r \in died => r \in died')

(* Of the statements only the claim itself is not tame.                     *)
LEMMA StatementsAreTame ==
  ASSUME NEW w \in Row, w.status \notin NoRow
  PROVE  /\ Tame(w, SetProvisioning(w)) /\ Tame(w, SetOrgUnitPath(w)) /\ Tame(w, SetApplying(w))
         /\ \A t \in Int : Tame(w, SetReady(w, t))
         /\ Tame(w, SetFailed(w)) /\ Tame(w, SetLiveError(w)) /\ Tame(w, SetScheduledBack(w))
         /\ Tame(w, SetDestroyRetry(w)) /\ Tame(w, SetDestroyFailed(w)) /\ Tame(w, SetDestroyed(w))
         /\ Tame(w, DestroyReset(w)) /\ Tame(w, [DestroyReset(w) EXCEPT !.del = TRUE])
         /\ Tame(w, Deleted)
         /\ \A s \in RunStatus : Tame(w, [w EXCEPT !.status = s])
         /\ \A t \in Int : Tame(w, [w EXCEPT !.expires = t])
         /\ \A t \in Nat : Tame(w, [w EXCEPT !.ttl = t])
         /\ \A c \in SUBSET Clouds : Tame(w, [w EXCEPT !.clouds = c])
  BY DEF Tame, Row, RunStatus, NoRow, InFlight, SetProvisioning, SetOrgUnitPath, SetApplying, SetReady,
      SetFailed, SetLiveError, SetScheduledBack, SetDestroyRetry, SetDestroyFailed,
      SetDestroyed, DestroyReset, Deleted, Unbooked

(* An update by id is as tame as what it writes; it writes only when there  *)
(* is a row.                                                                *)
LEMMA UpdateIsTame ==
  ASSUME row \in [Runs -> Row], GoneIsUnclaimed, NEW r \in Runs, NEW w, Update(r, w),
         Exists(r) => Tame(row[r], w)
  PROVE  \A q \in Runs : Tame(row[q], row'[q])
  BY DEF Update, Tame, Exists, GoneIsUnclaimed

(* The runner sets no claim.                                                *)
LEMMA RunnerIsTame ==
  ASSUME TypeInv, GoneIsUnclaimed, RunnerNext
  PROVE  ClaimsTamed
  <1>1. row \in [Runs -> Row] /\ exec \in [Executions -> Exec] /\ now \in Int
    BY ConstantsAssumption DEF TypeInv, TypeOK
  <1>2. PICK e \in Executions : RunnerStep(e) \/ RunnerLateVerdict(e) \/ RunnerFail(e) \/ RunnerCrash(e)
    BY DEF RunnerNext
  <1> DEFINE r == RunOf(e)
  <1>3. UNCHANGED died
    BY <1>2 DEF RunnerStep, RunnerStart, RunnerOrgUnit, RunnerAccounts, RunnerHarness,
       RunnerApply, RunnerReady, RunnerAnnounce, RunnerLateVerdict, RunnerLoseRow, RunnerFail, RunnerCrash,
       runnerFrame, history
  <1>4. exec[e].pc \notin {"idle", "done"} => r \in Runs /\ row[r] \in Row
    BY <1>1 DEF TypeInv, Assigned
  <1>5. ASSUME NEW w, r \in Runs, Update(r, w), Exists(r) => Tame(row[r], w)
        PROVE  ClaimsTamed
    BY <1>1, <1>3, <1>5, UpdateIsTame DEF ClaimsTamed
  <1>6. ASSUME UNCHANGED row
        PROVE  ClaimsTamed
    BY <1>3, <1>6 DEF ClaimsTamed, Tame, GoneIsUnclaimed, Exists
  <1>7. CASE RunnerStart(e) \/ RunnerOrgUnit(e)
    <2>1. r \in Runs /\ row[r] \in Row
      BY <1>4, <1>7 DEF RunnerStart, RunnerOrgUnit, At
    <2> QED
      BY <1>5, <1>7, <2>1, StatementsAreTame DEF RunnerStart, RunnerOrgUnit, Exists
  <1>8. CASE RunnerApply(e)
    <2>1. r \in Runs /\ row[r] \in Row
      BY <1>4, <1>8 DEF RunnerApply, At
    <2>2. Update(r, SetApplying(row[r])) \/ UNCHANGED row
      BY <1>8 DEF RunnerApply
    <2> QED
      BY <1>5, <1>6, <2>1, <2>2, StatementsAreTame DEF Exists
  <1>9. CASE RunnerReady(e)
    <2> DEFINE t == IF exec[e].expires # NoExpiry THEN exec[e].expires ELSE now + exec[e].ttl
    <2>1. r \in Runs /\ row[r] \in Row
      BY <1>4, <1>9 DEF RunnerReady, At
    <2>2. t \in Int
      BY <1>1 DEF Exec
    <2>3. Update(r, SetReady(row[r], t))
      BY <1>9 DEF RunnerReady
    <2> QED
      BY <1>5, <2>1, <2>2, <2>3, StatementsAreTame DEF Exists
  <1>10. CASE RunnerFail(e) \/ RunnerLateVerdict(e)
    <2>1. r \in Runs /\ row[r] \in Row
      BY <1>4, <1>10 DEF RunnerFail, RunnerLateVerdict, At, BuildSteps
    <2>2. Update(r, SetLiveError(row[r])) \/ Update(r, SetFailed(row[r]))
      BY <1>10 DEF RunnerFail, RunnerLateVerdict, Caught
    <2> QED
      BY <1>5, <2>1, <2>2, StatementsAreTame DEF Exists
  <1>11. CASE RunnerAccounts(e) \/ RunnerHarness(e) \/ RunnerAnnounce(e) \/ RunnerLoseRow(e) \/ RunnerCrash(e)
    BY <1>6, <1>11 DEF RunnerAccounts, RunnerHarness, RunnerAnnounce, RunnerLoseRow, RunnerCrash, tables
  <1> QED
    BY <1>2, <1>7, <1>8, <1>9, <1>10, <1>11 DEF RunnerStep

(* Neither do the scheduler and the clock.                                  *)
LEMMA SchedulerIsTame ==
  ASSUME TypeInv, GoneIsUnclaimed, SchedulerNext \/ Tick
  PROVE  ClaimsTamed
  <1>1. row \in [Runs -> Row] /\ due \subseteq Runs
    BY DEF TypeInv, TypeOK
  <1>2. UNCHANGED died
    BY DEF SchedulerNext, SchedulerStep, SchedulerClaim, SchedulerHandOver, SchedulerPutBack,
       SchedulerAbort, SchedulerCrash, Tick, schedulerFrame, history
  <1>3. CASE SchedulerClaim
    <2>1. \A r \in Runs : DueToStart(row[r]) => Tame(row[r], [row[r] EXCEPT !.status = "requested"])
      BY <1>1, StatementsAreTame DEF DueToStart, RunStatus, NoRow, InFlight
    <2>2. \A r \in Runs : Tame(row[r], row[r])
      BY DEF Tame, GoneIsUnclaimed, Exists
    <2> QED
      BY <1>2, <1>3, <2>1, <2>2 DEF SchedulerClaim, ClaimsTamed
  <1>4. CASE SchedulerPutBack
    <2>1. PICK r \in due : Exists(r) /\ Update(r, SetScheduledBack(row[r]))
      BY <1>4 DEF SchedulerPutBack
    <2> QED
      BY <1>1, <1>2, <2>1, StatementsAreTame, UpdateIsTame DEF ClaimsTamed, Exists
  <1>5. CASE UNCHANGED row
    BY <1>2, <1>5 DEF ClaimsTamed, Tame, GoneIsUnclaimed, Exists
  <1> QED
    BY <1>3, <1>4, <1>5 DEF SchedulerNext, SchedulerStep, SchedulerHandOver, SchedulerAbort,
       SchedulerCrash, Tick, tables

(* What people ask for sets no claim; a request that clears the claim also  *)
(* clears what is known of the death.                                       *)
LEMMA ApiIsTame ==
  ASSUME TypeInv, GoneIsUnclaimed, ApiNext
  PROVE  ClaimsTamed
  <1>1. row \in [Runs -> Row] /\ req \in [Requests -> ReqState] /\ now \in Int
    BY ConstantsAssumption DEF TypeInv, TypeOK
  <1>2. ASSUME NEW r \in Runs, NEW w, Update(r, w), Exists(r) => Tame(row[r], w), UNCHANGED died
        PROVE  ClaimsTamed
    BY <1>1, <1>2, UpdateIsTame DEF ClaimsTamed
  <1>3. ASSUME UNCHANGED <<row, died>>
        PROVE  ClaimsTamed
    BY <1>3 DEF ClaimsTamed, Tame, GoneIsUnclaimed, Exists
  <1>4. ASSUME NEW r \in Runs, CreateScheduledRun(r)
        PROVE  ClaimsTamed
    <2>1. /\ row'[r].claimed = FALSE
          /\ \A q \in Runs \ {r} : row'[q] = row[q]
          /\ UNCHANGED died
      BY <1>1, <1>4 DEF CreateScheduledRun, Unbooked, history
    <2> QED
      BY <2>1 DEF ClaimsTamed, Tame, GoneIsUnclaimed, Exists
  <1>5. ASSUME NEW q \in Requests, ClaimStart(q)
        PROVE  ClaimsTamed
    <2>1. PICK r \in Runs : Update(r, [row[r] EXCEPT !.status = "requested"])
      BY <1>5 DEF ClaimStart
    <2> QED
      BY <1>1, <1>2, <1>5, <2>1, StatementsAreTame DEF ClaimStart, history, Exists, RunStatus, InFlight
  <1>6. ASSUME NEW q \in Requests, ReadFor(q) \/ ApiCrash(q)
        PROVE  ClaimsTamed
    BY <1>3, <1>6 DEF ReadFor, ApiCrash, tables, history
  <1>7. ASSUME NEW q \in Requests, ApiWrite(q)
        PROVE  ClaimsTamed
    <2> DEFINE r == req[q].run
    <2>1. req[q] \in ReqState /\ req[q].seen \in Row
      BY <1>1 DEF ReqState
    <2>2. req[q].pc \notin {"idle", "done"}
      BY <1>7 DEF ApiWrite, WriteExtend, WriteEnd, WriteDelete, WriteRetryTeardown,
         WriteUpdate, ClaimReprovision, TriggerOk, TriggerThrows, Rollback, Serving
    <2>3. r \in Runs /\ row[r] \in Row
      BY <1>1, <2>2 DEF TypeInv, Assigned
    <2>4. CASE WriteExtend(q)
      <3>1. req[q].seen.expires + EXTENSION \in Int /\ req[q].seen.ttl + EXTENSION \in Nat
        BY <2>1 DEF Row, EXTENSION
      <3>2. UNCHANGED died
        BY <2>4 DEF WriteExtend
      <3>3. \/ Update(r, [row[r] EXCEPT !.expires = req[q].seen.expires + EXTENSION])
            \/ Update(r, [row[r] EXCEPT !.ttl = req[q].seen.ttl + EXTENSION])
        BY <2>4 DEF WriteExtend
      <3> QED
        BY <1>2, <2>3, <3>1, <3>2, <3>3, StatementsAreTame DEF Exists
    <2>5. CASE WriteEnd(q)
      BY <1>1, <1>2, <2>3, <2>5, StatementsAreTame DEF WriteEnd, Exists
    <2>6. CASE WriteDelete(q)
      <3>1. CASE req[q].seen.status \in {"scheduled", "destroyed"}
        BY <1>2, <2>3, <2>6, <3>1, StatementsAreTame DEF WriteDelete, Exists
      <3>2. CASE req[q].seen.status \notin {"scheduled", "destroyed"}
        <4>1. Update(r, [DestroyReset(row[r]) EXCEPT !.del = TRUE]) /\ died' = died \ {r}
          BY <2>6, <3>2 DEF WriteDelete
        <4>2. \A p \in Runs : Tame(row[p], row'[p])
          BY <1>1, <2>3, <4>1, StatementsAreTame, UpdateIsTame DEF Exists
        <4>3. ~row'[r].claimed
          BY <1>1, <2>3, <4>1 DEF Update, DestroyReset, GoneIsUnclaimed, Row
        <4> QED
          BY <4>1, <4>2, <4>3 DEF ClaimsTamed
      <3> QED
        BY <3>1, <3>2
    <2>7. CASE WriteRetryTeardown(q)
      <3>1. Update(r, DestroyReset(row[r])) /\ died' = died \ {r}
        BY <2>7 DEF WriteRetryTeardown
      <3>2. \A p \in Runs : Tame(row[p], row'[p])
        BY <1>1, <2>3, <3>1, StatementsAreTame, UpdateIsTame DEF Exists
      <3>3. ~row'[r].claimed
        BY <1>1, <2>3, <3>1 DEF Update, DestroyReset, GoneIsUnclaimed, Row
      <3> QED
        BY <3>1, <3>2, <3>3 DEF ClaimsTamed
    <2>8. CASE WriteUpdate(q)
      <3>1. req[q].want \in SUBSET Clouds
        BY <2>1 DEF ReqState
      <3> QED
        BY <1>2, <2>3, <2>8, <3>1, StatementsAreTame DEF WriteUpdate, Exists
    <2>9. CASE ClaimReprovision(q)
      <3>1. UNCHANGED died
        BY <2>9 DEF ClaimReprovision, history
      <3>2. Update(r, [row[r] EXCEPT !.status = "requested"]) \/ UNCHANGED row
        BY <2>9 DEF ClaimReprovision
      <3> QED
        BY <1>2, <1>3, <2>3, <3>1, <3>2, StatementsAreTame DEF Exists, RunStatus, InFlight
    <2>10. CASE TriggerOk(q) \/ TriggerThrows(q)
      BY <1>3, <2>10 DEF TriggerOk, TriggerThrows, tables, history
    <2>11. CASE Rollback(q)
      <3> DEFINE before == IF req[q].op = "update" THEN "ready" ELSE ClaimFrom(req[q].op)
      <3>1. before \in RunStatus
        BY DEF ClaimFrom, RunStatus
      <3>2. UNCHANGED died /\ Update(r, [row[r] EXCEPT !.status = before])
        BY <2>11 DEF Rollback
      <3> QED
        BY <1>2, <2>3, <3>1, <3>2, StatementsAreTame DEF Exists
    <2> QED
      BY <1>7, <2>4, <2>5, <2>6, <2>7, <2>8, <2>9, <2>10, <2>11 DEF ApiWrite
  <1> QED
    BY <1>4, <1>5, <1>6, <1>7 DEF ApiNext

(* A step of a reaper execution leaves no claim unexplained: it enters the  *)
(* teardown with the claim it takes and gives it up on its way out, and its *)
(* death is what died records.                                              *)
LEMMA ReaperExplainsClaims ==
  ASSUME TypeInv, ClaimInv, NEW x \in Reapers, ReaperStep(x) \/ ReaperThrow(x) \/ ReaperCrash(x)
  PROVE  ClaimInv'
  <1> DEFINE r == Cur(x)
             Explained(q) == q \in died \/ \E y \in Reapers : TearingDown(y, q)
  <1>1. /\ row \in [Runs -> Row] /\ reaper \in [Reapers -> ReaperState]
        /\ reaper[x] \in ReaperState
    BY DEF TypeInv, TypeOK
  <1>2. Step(x) \in LockedSteps => r \in Runs /\ row[r] \in Row
    BY <1>1 DEF TypeInv, Assigned
  <1>3. \A q \in Runs : row[q].claimed => Explained(q)
    BY DEF ClaimInv, ClaimExplained
  <1>4. \A y \in Reapers \ {x} : reaper'[y] = reaper[y]
    BY <1>1 DEF ReaperStep, ReaperList, ReaperTryLock, ReaperClaim, ReaperFlagDead, ReaperDestroyCloud,
       ReaperDestroyHarness, ReaperDeleteAccounts, ReaperDeleteOrgUnit, ReaperForget, ReaperFinish,
       ReaperMark, ReaperDecide, ReaperLoseRow, ReaperThrow, ReaperCrash, Advance, NextRun, Exit
  (* x is in no teardown before the step: whoever explains a claim still does. *)
  <1>5. ASSUME Step(x) \notin TeardownSteps \cup {"threw"}, UNCHANGED died,
               \A q \in Runs : Tame(row[q], row'[q])
        PROVE  ClaimInv'
    <2>1. \A q \in Runs : ~TearingDown(x, q)
      BY <1>5 DEF TearingDown
    <2>2. \A q \in Runs : Explained(q) => Explained(q)'
      BY <1>4, <1>5, <2>1 DEF TearingDown, Step, Cur
    <2> QED
      BY <1>3, <1>5, <2>2 DEF ClaimInv, ClaimExplained, GoneIsUnclaimed, Exists, Tame
  (* x goes on with the teardown it is in.                                    *)
  <1>6. ASSUME UNCHANGED <<row, died>>, Cur(x)' = Cur(x), Step(x)' \in TeardownSteps \cup {"threw"}
        PROVE  ClaimInv'
    <2>1. \A q \in Runs : Explained(q) => Explained(q)'
      BY <1>4, <1>6 DEF TearingDown, Step, Cur
    <2> QED
      BY <1>3, <1>6, <2>1 DEF ClaimInv, ClaimExplained, GoneIsUnclaimed, Exists
  (* x leaves a run that has no claim any more, or whose claim it is killed   *)
  (* under.                                                                   *)
  <1>7. ASSUME r \in Runs, \A q \in Runs : Tame(row[q], row'[q]), died \subseteq died',
               row'[r].claimed => r \in died'
        PROVE  ClaimInv'
    <2>1. \A q \in Runs \ {r} : Explained(q) => Explained(q)'
      BY <1>4, <1>7 DEF TearingDown, Step, Cur
    <2> QED
      BY <1>3, <1>7, <2>1 DEF ClaimInv, ClaimExplained, GoneIsUnclaimed, Exists, Tame
  <1>8. \A q \in Runs : Tame(row[q], row[q])
    BY DEF Tame, ClaimInv, GoneIsUnclaimed, Exists
  <1>9. TeardownSteps \subseteq LockedSteps /\ {"threw", "claim", "abandoned"} \subseteq LockedSteps
    BY DEF LockedSteps
  <1>10. CASE ReaperList(x) \/ ReaperTryLock(x)
    BY <1>5, <1>8, <1>10 DEF ReaperList, ReaperTryLock, tables, history, TeardownSteps
  <1>11. CASE ReaperClaim(x)
    <2>1. r \in Runs /\ Step(x) = "claim"
      BY <1>2, <1>9, <1>11 DEF ReaperClaim
    <2>2. CASE Exists(r) /\ ~row[r].claimed
      <3>1. Update(r, SetDestroyClaim(row[r])) /\ died' = died \ {r}
        BY <1>11, <2>2 DEF ReaperClaim
      <3>2. /\ row' = [row EXCEPT ![r] = SetDestroyClaim(row[r])]
            /\ row'[r].status = "destroying"
        BY <1>1, <2>1, <2>2, <3>1 DEF Update, SetDestroyClaim, Row
      <3>3. reaper' = [reaper EXCEPT ![x].pc = "clouds", ![x].units = Units(Seen(x).clouds),
                                     ![x].attempt = row'[r].attempts]
        BY <1>11, <2>2 DEF ReaperClaim
      <3>4. Step(x)' = "clouds" /\ Cur(x)' = r
        <4>1. reaper'[x] = [reaper[x] EXCEPT !.pc = "clouds", !.units = Units(Seen(x).clouds),
                                             !.attempt = row'[r].attempts]
          BY <1>1, <3>3 DEF ReaperState
        <4> QED
          BY <1>1, <4>1 DEF Step, Cur, ReaperState
      <3>5. Explained(r)'
        BY <3>4 DEF TearingDown, TeardownSteps
      <3>6. \A q \in Runs \ {r} : Explained(q) => Explained(q)'
        BY <1>4, <2>1, <3>1 DEF TearingDown, Step, Cur, TeardownSteps
      <3>7. \A q \in Runs \ {r} : row'[q].claimed => row[q].claimed
        BY <1>1, <2>1, <3>2
      <3>8. ClaimExplained'
        <4> SUFFICES ASSUME NEW q \in Runs, row'[q].claimed PROVE Explained(q)'
          BY DEF ClaimExplained
        <4>1. CASE q = r
          BY <3>4, <3>5, <4>1
        <4>2. CASE q # r
          <5>1. Explained(q)
            BY <1>3, <3>7, <4>2
          <5> QED
            BY <3>6, <4>2, <5>1
        <4> QED
          BY <4>1, <4>2
      <3>9. GoneIsUnclaimed'
        BY <3>2 DEF ClaimInv, GoneIsUnclaimed, Exists, NoRow
      <3> QED
        BY <3>8, <3>9 DEF ClaimInv
    <2>3. CASE ~(Exists(r) /\ ~row[r].claimed)
      BY <1>5, <1>8, <1>11, <2>1, <2>3 DEF ReaperClaim, TeardownSteps
    <2> QED
      BY <2>2, <2>3
  <1>12. CASE ReaperFlagDead(x)
    <2>1. r \in Runs /\ row[r] \in Row /\ Step(x) = "abandoned"
      BY <1>2, <1>9, <1>12 DEF ReaperFlagDead
    <2>2. \A q \in Runs : Tame(row[q], row'[q])
      BY <1>1, <1>12, <2>1, StatementsAreTame, UpdateIsTame DEF ReaperFlagDead, ClaimInv, Exists
    <2> QED
      BY <1>5, <1>12, <2>1, <2>2 DEF ReaperFlagDead, history, TeardownSteps
  <1>13. CASE \/ ReaperDestroyHarness(x) \/ ReaperDeleteAccounts(x)
              \/ ReaperDeleteOrgUnit(x) \/ ReaperForget(x)
    <2>1. /\ UNCHANGED <<row, died>>
          /\ Advance(x, "accounts") \/ Advance(x, "orgUnit") \/ Advance(x, "forget")
                                    \/ Advance(x, "finish")
      BY <1>13 DEF ReaperDestroyHarness, ReaperDeleteAccounts, ReaperDeleteOrgUnit, ReaperForget,
         tables, history
    <2>2. Cur(x)' = Cur(x) /\ Step(x)' \in TeardownSteps
      BY <1>1, <2>1 DEF Advance, Cur, Step, ReaperState, TeardownSteps
    <2> QED
      BY <1>6, <2>1, <2>2
  <1>14. CASE ReaperDestroyCloud(x)
    <2>1. Cur(x)' = Cur(x) /\ Step(x)' \in {"clouds", "harness"}
      BY <1>1, <1>14 DEF ReaperDestroyCloud, Cur, Step, ReaperState
    <2> QED
      BY <1>6, <1>14, <2>1 DEF ReaperDestroyCloud, TeardownSteps, tables, history
  <1>15. CASE ReaperThrow(x)
    <2>1. Cur(x)' = Cur(x) /\ Step(x)' = "threw"
      <3>1. PICK clears \in BOOLEAN :
              reaper'[x] = [reaper[x] EXCEPT !.pc = "threw", !.clears = clears]
        BY <1>1, <1>15 DEF ReaperThrow
      <3> QED
        BY <1>1, <3>1 DEF Cur, Step, ReaperState
    <2> QED
      BY <1>6, <1>15, <2>1 DEF ReaperThrow, tables, history
  <1>16. CASE ReaperFinish(x)
    <2>1. r \in Runs /\ row[r] \in Row /\ Exists(r) /\ UNCHANGED died
      BY <1>2, <1>9, <1>16 DEF ReaperFinish, TeardownSteps, history
    <2>2. CASE row[r].del
      <3>1. row' = [row EXCEPT ![r] = Deleted]
        BY <1>16, <2>2 DEF ReaperFinish
      <3>2. ~row'[r].claimed
        BY <1>1, <2>1, <3>1 DEF Deleted, Unbooked
      <3>3. \A q \in Runs : Tame(row[q], row'[q])
        BY <1>1, <1>8, <2>1, <3>1, <3>2 DEF Tame
      <3> QED
        BY <1>7, <2>1, <3>2, <3>3
    <2>3. CASE ~row[r].del
      <3>1. Advance(x, "mark") /\ UNCHANGED row
        BY <1>16, <2>3 DEF ReaperFinish, tables
      <3>2. Cur(x)' = Cur(x) /\ Step(x)' = "mark"
        BY <1>1, <3>1 DEF Advance, Cur, Step, ReaperState
      <3> QED
        BY <1>6, <2>1, <3>1, <3>2 DEF TeardownSteps
    <2> QED
      BY <2>2, <2>3
  <1>17. CASE ReaperMark(x) \/ ReaperDecide(x)
    <2>1. r \in Runs /\ row[r] \in Row /\ UNCHANGED died
      BY <1>2, <1>9, <1>17 DEF ReaperMark, ReaperDecide, TeardownSteps, history
    <2>2. PICK w \in {SetDestroyed(row[r]), SetDestroyRetry(row[r]), SetDestroyFailed(row[r])} :
            Update(r, w)
      <3>1. \/ Update(r, SetDestroyed(row[r]))
            \/ Update(r, SetDestroyRetry(row[r]))
            \/ Update(r, SetDestroyFailed(row[r]))
        BY <1>17 DEF ReaperMark, ReaperDecide
      <3> QED
        BY <3>1
    <2>3. \A q \in Runs : Tame(row[q], row'[q])
      BY <1>1, <2>1, <2>2, StatementsAreTame, UpdateIsTame DEF ClaimInv, Exists
    <2>4. ~w.claimed
      BY <2>1, <2>2 DEF SetDestroyed, SetDestroyRetry, SetDestroyFailed, Row
    <2>5. ~row'[r].claimed
      BY <1>1, <2>1, <2>2, <2>4 DEF Update, ClaimInv, GoneIsUnclaimed
    <2> QED
      BY <1>7, <2>1, <2>3, <2>5
  <1>18. CASE ReaperLoseRow(x)
    <2>1. r \in Runs /\ ~Exists(r) /\ UNCHANGED <<row, died>>
      BY <1>2, <1>9, <1>18 DEF ReaperLoseRow, tables, history
    <2> QED
      BY <1>7, <1>8, <2>1 DEF ClaimInv, GoneIsUnclaimed
  <1>19. CASE ReaperCrash(x)
    <2>1. UNCHANGED row
      BY <1>19 DEF ReaperCrash, tables
    <2>2. CASE Step(x) \in TeardownSteps \cup {"threw"}
      <3>1. r \in Runs /\ died \subseteq died' /\ (row'[r].claimed => r \in died')
        BY <1>2, <1>9, <1>19, <2>1, <2>2 DEF ReaperCrash
      <3> QED
        BY <1>7, <1>8, <2>1, <3>1
    <2>3. CASE Step(x) \notin TeardownSteps \cup {"threw"}
      BY <1>5, <1>8, <1>19, <2>1, <2>3 DEF ReaperCrash
    <2> QED
      BY <2>2, <2>3
  <1> QED
    BY <1>10, <1>11, <1>12, <1>13, <1>14, <1>15, <1>16, <1>17, <1>18, <1>19 DEF ReaperStep

(* Every claim that is set is explained, in every reachable state.          *)
LEMMA ClaimInvariance == Spec => []ClaimInv
  <1>1. Init => ClaimInv
    BY DEF Init, ClaimInv, ClaimExplained, GoneIsUnclaimed, Unbooked
  <1>2. TypeInv /\ ClaimInv /\ [Next]_vars => ClaimInv'
    <2> SUFFICES ASSUME TypeInv, ClaimInv, [Next]_vars PROVE ClaimInv'
      OBVIOUS
    <2>1. CASE UNCHANGED vars
      BY <2>1 DEF vars, tables, reaping, history, ClaimInv, ClaimExplained, GoneIsUnclaimed,
         Exists, TearingDown, Step, Cur
    <2>2. CASE ReaperNext
      BY <2>2, ReaperExplainsClaims DEF ReaperNext
    <2>3. CASE ApiNext \/ SchedulerNext \/ RunnerNext \/ Tick
      <3>1. ClaimsTamed
        BY <2>3, ApiIsTame, SchedulerIsTame, RunnerIsTame DEF ClaimInv
      <3>2. \A r \in Runs, x \in Reapers : TearingDown(x, r)' <=> TearingDown(x, r)
        BY <2>3, OthersLeaveReapers DEF reaping, TearingDown, Step, Cur
      <3> QED
        BY <3>1, <3>2 DEF ClaimsTamed, Tame, ClaimInv, ClaimExplained, GoneIsUnclaimed, Exists
    <2> QED
      BY <2>1, <2>2, <2>3 DEF Next
  <1> QED
    BY <1>1, <1>2, TypeInvariance, PTL DEF Spec

(* A claim still set has an attempt at work under it or one that was killed. *)
THEOREM ClaimIsExplained == Spec => []ClaimExplained
  <1>1. ClaimInv => ClaimExplained
    BY DEF ClaimInv
  <1> QED
    BY <1>1, ClaimInvariance, PTL

(* "Holding the lock and seeing a claim is proof the claimant is gone": the  *)
(* verdict of claimDestroy on the attempt before is right.                  *)
THEOREM VerdictIsSound == Spec => []ClaimMeansDeath
  <1>1. TypeInv /\ LockHeld /\ ClaimInv => ClaimMeansDeath
    <2> SUFFICES ASSUME TypeInv, LockHeld, ClaimInv, NEW x \in Reapers,
                        Step(x) = "claim", row[Cur(x)].claimed
                 PROVE  Cur(x) \in died
      BY DEF ClaimMeansDeath
    <2>1. Step(x) \in LockedSteps /\ Cur(x) \in Runs
      BY DEF LockedSteps, TypeInv, Assigned
    <2>2. \A y \in Reapers : ~TearingDown(y, Cur(x))
      <3> SUFFICES ASSUME NEW y \in Reapers, TearingDown(y, Cur(x)) PROVE FALSE
        OBVIOUS
      <3>1. lock[Cur(x)] = x /\ lock[Cur(x)] = y
        BY <2>1 DEF LockHeld, TearingDown, LockedSteps
      <3> QED
        BY <3>1 DEF TearingDown, TeardownSteps
    <2> QED
      BY <2>1, <2>2 DEF ClaimInv, ClaimExplained
  <1> QED
    BY <1>1, LockInvariance, ClaimInvariance, PTL
=============================================================================
