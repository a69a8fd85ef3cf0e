----------------------- MODULE WorkshopRunsOwnership -----------------------
(***************************************************************************)
(* Who may write a run, for every value of the constants: what is live has *)
(* an end, a provision's failure destroys nothing of somebody else's, what *)
(* is settled is left alone, and a run is attempted as often as the code   *)
(* says.                                                                   *)
(*                                                                         *)
(* The argument, for runs nobody acted on an outdated read of: a run on    *)
(* its way up is in one hand, the scheduler's, a request's or an           *)
(* execution's (OneHand), and one on its way down is past all of them,     *)
(* with what a reaper listed of it only nearer to its end since            *)
(* (GoingDown).  Ends (ExpiryInv) and attempts (AttemptInv) are counted    *)
(* along the same lines.                                                   *)
(***************************************************************************)
EXTENDS WorkshopRunsProofs

-----------------------------------------------------------------------------
(* What a step does, run by run.                                           *)

(* Every run but r is as it was.                                            *)
OthersKept(r) ==
  \A q \in Runs \ {r} : /\ row'[q] = row[q]
                        /\ standing'[q] = standing[q]
                        /\ q \in roster' <=> q \in roster

StandingKept(r) == standing'[r] = standing[r] /\ (r \in roster' <=> r \in roster)

(* One step of an execution: it advances, it leaves the run it was          *)
(* building, or it concludes what it announced of a run that went on.       *)
RunnerAdvances(e) ==
  LET r == RunOf(e) IN
  /\ Exists(r) /\ UNCHANGED stale
  /\ \/ /\ At(e, "queued")
        /\ row'[r] = SetProvisioning(row[r])
        /\ exec'[e] = [pc |-> "orgUnit", run |-> r, expires |-> row[r].expires,
                       ttl |-> row[r].ttl, units |-> Units(row[r].clouds)]
        /\ StandingKept(r)
     \/ /\ At(e, "orgUnit")
        /\ row'[r] = SetOrgUnitPath(row[r])
        /\ exec'[e] = [exec[e] EXCEPT !.pc = "accounts"]
        /\ StandingKept(r)
     \/ /\ At(e, "accounts")
        /\ row'[r] = row[r]
        /\ exec'[e] = [exec[e] EXCEPT !.pc = "harness"]
        /\ r \in roster'
        /\ standing'[r] = IF r \in roster THEN standing[r] ELSE standing[r] \cup {"account"}
     \/ /\ At(e, "harness")
        /\ row'[r] = row[r]
        /\ exec'[e] = [exec[e] EXCEPT !.pc = "clouds"]
        /\ r \in roster' <=> r \in roster
        /\ standing'[r] = standing[r] \cup {"harness"}
     \/ /\ At(e, "clouds")
        /\ row'[r] \in {row[r], SetApplying(row[r])}
        /\ r \in roster' <=> r \in roster
        /\ \E u \in exec[e].units :
             /\ exec'[e] = [exec[e] EXCEPT !.units = @ \ {u}]
             /\ standing'[r] = (standing[r] \ (IF u = "gcp" THEN {"sandbox"} ELSE {})) \cup {u}

RunnerLeaves(e) ==
  LET r == RunOf(e)
      t == IF exec[e].expires # NoExpiry THEN exec[e].expires ELSE now + exec[e].ttl
  IN
  /\ exec[e].pc \in BuildSteps \cup {"queued"} /\ UNCHANGED stale
  /\ r \in roster' <=> r \in roster
  /\ \/ /\ At(e, "clouds") /\ Exists(r)
        /\ row'[r] = SetReady(row[r], t)
        /\ standing'[r] = standing[r]
        /\ exec'[e] = [exec[e] EXCEPT !.pc = "announce"]
     \/ /\ exec[e].pc \in BuildSteps /\ Exists(r)
        /\ row'[r] = Caught(e, row[r])
        /\ \E part \in SUBSET Halfway(e) : standing'[r] = standing[r] \cup part
        /\ exec'[e] = DoneExec
     \/ /\ row'[r] = row[r]
        /\ \E part \in SUBSET Halfway(e) : standing'[r] = standing[r] \cup part
        /\ exec'[e] = DoneExec

RunnerConcludes(e) ==
  LET r == RunOf(e) IN
  /\ At(e, "announce")
  /\ exec'[e] = DoneExec
  /\ StandingKept(r)
  /\ \/ row'[r] = row[r] /\ UNCHANGED stale
     \/ /\ Exists(r)
        /\ row'[r] = Caught(e, row[r])
        /\ stale' = IF row[r].status = "ready" THEN stale ELSE stale \cup {r}

(* A step of an execution is one of these and touches its own run.          *)
LEMMA RunnerMoves ==
  ASSUME TypeInv, NEW e \in Executions,
         RunnerStep(e) \/ RunnerLateVerdict(e) \/ RunnerFail(e) \/ RunnerCrash(e)
  PROVE  /\ UNCHANGED <<now, reaping, req, due, died, resets>>
         /\ RunOf(e) \in Runs
         /\ OthersKept(RunOf(e))
         /\ \A d \in Executions \ {e} : exec'[d] = exec[d]
         /\ RunnerAdvances(e) \/ RunnerLeaves(e) \/ RunnerConcludes(e)
  <1> DEFINE r == RunOf(e)
             Goal == /\ UNCHANGED <<now, reaping, req, due, died, resets>>
                     /\ r \in Runs
                     /\ OthersKept(r)
                     /\ \A d \in Executions \ {e} : exec'[d] = exec[d]
                     /\ RunnerAdvances(e) \/ RunnerLeaves(e) \/ RunnerConcludes(e)
  <1>1. /\ exec \in [Executions -> Exec] /\ row \in [Runs -> Row]
        /\ standing \in [Runs -> SUBSET Thing] /\ exec[e] \in Exec
    BY DEF TypeInv, TypeOK
  <1>2. exec[e].pc \notin {"idle", "done"}
    BY DEF RunnerStep, RunnerStart, RunnerOrgUnit, RunnerAccounts, RunnerHarness, RunnerApply,
       RunnerReady, RunnerAnnounce, RunnerLateVerdict, RunnerLoseRow, RunnerFail, RunnerCrash, At, BuildSteps
  <1>3. r \in Runs /\ row[r] \in Row
    BY <1>1, <1>2 DEF TypeInv, Assigned
  <1>4. /\ UNCHANGED <<now, reaping, req, due, died, resets>>
        /\ RunnerLateVerdict(e) \/ UNCHANGED stale
    BY DEF RunnerStep, RunnerStart, RunnerOrgUnit, RunnerAccounts, RunnerHarness, RunnerApply,
       RunnerReady, RunnerAnnounce, RunnerLateVerdict, RunnerLoseRow, RunnerFail, RunnerCrash, runnerFrame, history
  <1>5. \A d \in Executions \ {e} : exec'[d] = exec[d]
    BY <1>1 DEF RunnerStep, RunnerStart, RunnerOrgUnit, RunnerAccounts, RunnerHarness, RunnerApply,
       RunnerReady, RunnerAnnounce, RunnerLateVerdict, RunnerLoseRow, RunnerFail, RunnerCrash, Leave, GoTo
  <1>6. ASSUME NEW w, Update(r, w)
        PROVE  /\ \A q \in Runs \ {r} : row'[q] = row[q]
               /\ row'[r] = IF Exists(r) THEN w ELSE row[r]
    BY <1>1, <1>3, <1>6 DEF Update
  <1>7. Leave(e) => exec'[e] = DoneExec
    BY <1>1 DEF Leave
  <1>8. \A pc : GoTo(e, pc) => exec'[e] = [exec[e] EXCEPT !.pc = pc]
    BY <1>1 DEF GoTo
  <1>9. LeaveHalfway(e) => /\ \A q \in Runs \ {r} : standing'[q] = standing[q]
                           /\ \E part \in SUBSET Halfway(e) : standing'[r] = standing[r] \cup part
    BY <1>1, <1>3 DEF LeaveHalfway
  <1>10. CASE RunnerStart(e)
    <2>1. CASE Exists(r)
      BY <1>1, <1>3, <1>4, <1>5, <1>6, <1>10, <2>1
      DEF RunnerStart, RunnerAdvances, OthersKept, StandingKept, outside, At, runnerFrame, history
    <2>2. CASE ~Exists(r)
      <3>1. row'[r] = row[r] /\ OthersKept(r) /\ StandingKept(r) /\ exec'[e] = DoneExec
        BY <1>3, <1>6, <1>7, <1>10, <2>2 DEF RunnerStart, OthersKept, StandingKept, outside
      <3>2. \E part \in SUBSET Halfway(e) : standing'[r] = standing[r] \cup part
        BY <3>1, {} \in SUBSET Halfway(e) DEF StandingKept
      <3> QED
        BY <1>3, <1>4, <1>5, <1>10, <3>1, <3>2 DEF RunnerStart, RunnerLeaves, StandingKept, At, runnerFrame, history
    <2> QED
      BY <2>1, <2>2
  <1>11. CASE RunnerOrgUnit(e)
    BY <1>1, <1>3, <1>4, <1>5, <1>6, <1>8, <1>11
    DEF RunnerOrgUnit, RunnerAdvances, OthersKept, StandingKept, runnerFrame, history
  <1>12. CASE RunnerAccounts(e)
    BY <1>1, <1>3, <1>4, <1>5, <1>8, <1>12
    DEF RunnerAccounts, RunnerAdvances, OthersKept, runnerFrame, history
  <1>13. CASE RunnerHarness(e)
    BY <1>1, <1>3, <1>4, <1>5, <1>8, <1>13
    DEF RunnerHarness, RunnerAdvances, OthersKept, tables, runnerFrame, history
  <1>14. CASE RunnerApply(e)
    <2>1. PICK u \in exec[e].units :
            /\ exec' = [exec EXCEPT ![e].units = @ \ {u}]
            /\ standing' = [standing EXCEPT ![r] =
                              (@ \ (IF u = "gcp" THEN {"sandbox"} ELSE {})) \cup {u}]
            /\ IF u \in {"gcp", "sandbox"} THEN Update(r, SetApplying(row[r])) ELSE UNCHANGED row
      BY <1>14 DEF RunnerApply
    <2>2. exec'[e] = [exec[e] EXCEPT !.units = @ \ {u}]
      BY <1>1, <2>1
    <2>3. /\ standing'[r] = (standing[r] \ (IF u = "gcp" THEN {"sandbox"} ELSE {})) \cup {u}
          /\ \A q \in Runs \ {r} : standing'[q] = standing[q]
      BY <1>1, <1>3, <2>1
    <2>4. row'[r] \in {row[r], SetApplying(row[r])} /\ \A q \in Runs \ {r} : row'[q] = row[q]
      BY <1>6, <2>1
    <2> QED
      BY <1>3, <1>4, <1>5, <1>14, <2>2, <2>3, <2>4
      DEF RunnerApply, RunnerAdvances, OthersKept, runnerFrame, history
  <1>15. CASE RunnerReady(e)
    BY <1>1, <1>3, <1>4, <1>5, <1>6, <1>8, <1>15
    DEF RunnerReady, RunnerLeaves, OthersKept, outside, BuildSteps, At, runnerFrame, history
  <1>16. CASE RunnerFail(e)
    BY <1>1, <1>3, <1>4, <1>5, <1>6, <1>7, <1>9, <1>16
    DEF RunnerFail, RunnerLeaves, OthersKept, runnerFrame, history
  <1>17. CASE RunnerLoseRow(e)
    <2>1. \E part \in SUBSET Halfway(e) : standing'[r] = standing[r] \cup part
      BY <1>17, {} \in SUBSET Halfway(e) DEF RunnerLoseRow, outside
    <2> QED
      BY <1>3, <1>4, <1>5, <1>7, <1>17, <2>1
      DEF RunnerLoseRow, RunnerLeaves, RunnerConcludes, StandingKept, OthersKept, tables, outside, At,
          runnerFrame, history
  <1>18. CASE RunnerCrash(e)
    <2>1. At(e, "announce") => Halfway(e) = {}
      BY DEF Halfway, At
    <2>2. /\ OthersKept(r) /\ row'[r] = row[r] /\ (r \in roster' <=> r \in roster) /\ UNCHANGED stale
          /\ exec'[e] = DoneExec
          /\ \E part \in SUBSET Halfway(e) : standing'[r] = standing[r] \cup part
      BY <1>3, <1>7, <1>9, <1>18 DEF RunnerCrash, OthersKept, tables, runnerFrame, history
    <2>3. CASE At(e, "announce")
      BY <1>3, <1>4, <1>5, <2>1, <2>2, <2>3 DEF RunnerConcludes, StandingKept
    <2>4. CASE ~At(e, "announce")
      BY <1>3, <1>4, <1>5, <1>18, <2>2, <2>4 DEF RunnerCrash, RunnerLeaves, At
    <2> QED
      BY <2>3, <2>4
  <1>19. CASE RunnerAnnounce(e)
    BY <1>3, <1>4, <1>5, <1>7, <1>19
    DEF RunnerAnnounce, RunnerConcludes, StandingKept, OthersKept, tables, outside, runnerFrame, history
  <1>20. CASE RunnerLateVerdict(e)
    BY <1>3, <1>4, <1>5, <1>6, <1>7, <1>20
    DEF RunnerLateVerdict, RunnerConcludes, StandingKept, OthersKept, outside
  <1> QED
    BY <1>10, <1>11, <1>12, <1>13, <1>14, <1>15, <1>16, <1>17, <1>18, <1>19, <1>20 DEF RunnerStep

(* An execution that leaves or concludes is at the run's building no more.  *)
LEMMA LeavingLetsGo ==
  ASSUME TypeInv, NEW e \in Executions, RunnerLeaves(e) \/ RunnerConcludes(e)
  PROVE  /\ exec'[e].pc \in {"announce", "done"}
         /\ exec'[e].pc = "announce" => At(e, "clouds") /\ RunOf(e)' = RunOf(e)
                                        /\ exec'[e].expires = exec[e].expires
         /\ exec'[e].pc = "done" => exec'[e] = DoneExec
         /\ RunnerConcludes(e) => exec'[e].pc = "done" /\ exec[e].pc = "announce"
         /\ RunnerLeaves(e) => exec[e].pc \in BuildSteps \cup {"queued"}
  <1>1. exec[e] \in Exec
    BY DEF TypeInv, TypeOK
  <1>2. DoneExec.pc = "done"
    BY DEF DoneExec, IdleExec
  <1>3. CASE exec'[e] = DoneExec
    BY <1>2, <1>3 DEF RunnerLeaves, RunnerConcludes, At, BuildSteps
  <1>4. CASE At(e, "clouds") /\ exec'[e] = [exec[e] EXCEPT !.pc = "announce"]
    <2>1. exec'[e].pc = "announce" /\ exec'[e].run = exec[e].run /\ exec'[e].expires = exec[e].expires
      BY <1>1, <1>4 DEF Exec
    <2> QED
      BY <1>2, <1>4, <2>1 DEF RunnerLeaves, RunnerConcludes, RunOf, At
  <1> QED
    BY <1>3, <1>4 DEF RunnerLeaves, RunnerConcludes

(* The last word on a run that was announced changes its status only, and,  *)
(* unless it is of a run that went on without it, only from live.           *)
LEMMA ConcludingKeeps ==
  ASSUME TypeInv, NEW e \in Executions, NEW r \in Runs, r = RunOf(e), RunnerConcludes(e)
  PROVE  /\ row'[r].del = row[r].del /\ row'[r].claimed = row[r].claimed
         /\ row'[r].attempts = row[r].attempts /\ row'[r].clouds = row[r].clouds
         /\ row'[r].expires = row[r].expires /\ row'[r].ou = row[r].ou
         /\ StandingKept(r)
         /\ stale \subseteq stale' /\ \A q \in Runs \ {r} : q \in stale' <=> q \in stale
         /\ \/ row'[r] = row[r]
            \/ /\ Exists(r) /\ row'[r].status \in {"ready", "failed"}
               /\ row'[r].status = "ready" => exec[e].expires # NoExpiry
         /\ r \notin stale' => \/ row'[r] = row[r]
                               \/ row[r].status = "ready" /\ row'[r].status \in {"ready", "failed"}
  <1>1. row[r] \in Row
    BY DEF TypeInv, TypeOK
  <1>2. CASE row'[r] = row[r] /\ UNCHANGED stale
    BY <1>2 DEF RunnerConcludes
  <1>3. CASE /\ Exists(r) /\ row'[r] = Caught(e, row[r])
             /\ stale' = IF row[r].status = "ready" THEN stale ELSE stale \cup {r}
    <2>1. \/ row'[r] = [row[r] EXCEPT !.status = "ready"] /\ exec[e].expires # NoExpiry
          \/ row'[r] = [row[r] EXCEPT !.status = "failed"]
      BY <1>3 DEF Caught, SetLiveError, SetFailed
    <2> QED
      BY <1>1, <1>3, <2>1 DEF RunnerConcludes, Row
  <1> QED
    BY <1>2, <1>3 DEF RunnerConcludes

(* An advance stays at its run; only the start reads its end time.          *)
LEMMA AdvanceStays ==
  ASSUME TypeInv, NEW e \in Executions, RunnerAdvances(e)
  PROVE  /\ RunOf(e)' = RunOf(e)
         /\ exec[e].pc \in BuildSteps \cup {"queued"}
         /\ exec'[e].pc \in BuildSteps
         /\ exec'[e].expires = IF At(e, "queued") THEN row[RunOf(e)].expires ELSE exec[e].expires
  <1>1. exec[e] \in Exec
    BY DEF TypeInv, TypeOK
  <1>2. CASE At(e, "queued")
    BY <1>2 DEF RunnerAdvances, At, RunOf, BuildSteps
  <1>3. CASE At(e, "orgUnit") \/ At(e, "accounts") \/ At(e, "harness")
    BY <1>1, <1>3 DEF RunnerAdvances, At, RunOf, Exec, BuildSteps
  <1>4. CASE At(e, "clouds")
    <2>1. PICK u : exec'[e] = [exec[e] EXCEPT !.units = exec[e].units \ {u}]
      BY <1>4 DEF RunnerAdvances, At
    <2> QED
      BY <1>1, <1>4, <2>1 DEF At, RunOf, Exec, BuildSteps
  <1> QED
    BY <1>2, <1>3, <1>4 DEF RunnerAdvances

(* Nothing but r is written, and what is outdated stays so.                 *)
OnlyWrites(r) ==
  /\ OthersKept(r)
  /\ standing'[r] = standing[r]
  /\ stale \subseteq stale'
  /\ \A p \in Runs \ {r} : resets'[p] = resets[p] /\ (p \in stale' <=> p \in stale)

Queues(e, r) ==
  /\ At(e, "idle")
  /\ exec'[e] = [exec[e] EXCEPT !.pc = "queued", !.run = r]
  /\ \A d \in Executions \ {e} : exec'[d] = exec[d]

(* The steps of a request.                                                  *)
ApiReads(q) ==
  /\ req[q].pc = "idle"
  /\ UNCHANGED <<row, roster, exec, stale, resets>>
  /\ \E r \in Runs, op \in Ops \ {"startNow", "retry"} :
       \E want \in IF op = "update" THEN Bookings \cup {Clouds} ELSE {{}} :
         /\ Exists(r) /\ Accepts(op, row[r], want)
         /\ req'[q] = [pc |-> "write", op |-> op, run |-> r, seen |-> row[r], want |-> want]

ApiClaims(q) ==
  /\ req[q].pc = "idle"
  /\ UNCHANGED <<exec, stale, resets>>
  /\ \E r \in Runs, op \in {"startNow", "retry"} :
       /\ row[r].status = ClaimFrom(op)
       /\ row'[r] = [row[r] EXCEPT !.status = "requested"]
       /\ OnlyWrites(r) /\ (r \in roster' <=> r \in roster)
       /\ req'[q] = [IdleReq EXCEPT !.pc = "trigger", !.op = op, !.run = r]

(* What the write half of a handler makes of a row there is.                *)
ApiRewrites(q) ==
  LET r == req[q].run
      seen == req[q].seen
      op == req[q].op
      Keeps == resets'[r] = resets[r] /\ (r \in roster' <=> r \in roster)
      Resets == resets'[r] = resets[r] + 1 /\ (r \in roster' <=> r \in roster)
  IN
  \/ /\ op = "extend" /\ Keeps
     /\ row'[r] = IF seen.expires # NoExpiry
                  THEN [row[r] EXCEPT !.expires = seen.expires + EXTENSION]
                  ELSE [row[r] EXCEPT !.ttl = seen.ttl + EXTENSION]
  \/ /\ op = "end" /\ Keeps
     /\ row'[r] = [row[r] EXCEPT !.expires = now]
  \/ /\ op = "delete" /\ seen.status \in {"scheduled", "destroyed"}
     /\ row'[r] = Deleted /\ r \notin roster' /\ resets'[r] = resets[r]
  \/ /\ op = "delete" /\ seen.status \notin {"scheduled", "destroyed"} /\ Resets
     /\ row'[r] = [DestroyReset(row[r]) EXCEPT !.del = TRUE]
  \/ /\ op = "retryTeardown" /\ Resets
     /\ row'[r] = DestroyReset(row[r])
  \/ /\ op = "update" /\ Keeps
     /\ row'[r] = [row[r] EXCEPT !.clouds = req[q].want]

ApiWrites(q) ==
  LET r == req[q].run IN
  /\ req[q].pc = "write"
  /\ OnlyWrites(r) /\ UNCHANGED exec
  /\ IF Exists(r) THEN ApiRewrites(q)
     ELSE /\ row'[r] = row[r] /\ resets'[r] \in {resets[r], resets[r] + 1}
          /\ r \in roster' => r \in roster
  /\ stale' = IF Exists(r) /\ MovedOn(r, req[q].seen) THEN stale \cup {r} ELSE stale
  /\ \/ req'[q] = DoneReq
     \/ req[q].op = "update" /\ req'[q] = [req[q] EXCEPT !.pc = "reprovision"]

ApiReprovisions(q) ==
  LET r == req[q].run IN
  /\ req[q].pc = "reprovision"
  /\ OnlyWrites(r) /\ (r \in roster' <=> r \in roster) /\ UNCHANGED <<exec, stale, resets>>
  /\ IF row[r].status = "ready"
     THEN /\ row'[r] = [row[r] EXCEPT !.status = "requested"]
          /\ req'[q] = [req[q] EXCEPT !.pc = "trigger"]
     ELSE row'[r] = row[r] /\ req'[q] = DoneReq

ApiTriggers(q) ==
  LET r == req[q].run IN
  /\ req[q].pc = "trigger"
  /\ UNCHANGED <<row, roster, resets>> /\ OnlyWrites(r)
  /\ \/ /\ \E e \in Executions : Queues(e, r)
        /\ req'[q] = DoneReq /\ UNCHANGED stale
     \/ /\ req'[q] = [req[q] EXCEPT !.pc = "rollback"]
        /\ UNCHANGED <<exec, stale>>
     \/ /\ req'[q] = [req[q] EXCEPT !.pc = "rollback"]
        /\ \E e \in Executions : Queues(e, r)
        /\ r \in stale'

ApiRollsBack(q) ==
  LET r == req[q].run
      before == IF req[q].op = "update" THEN "ready" ELSE ClaimFrom(req[q].op)
  IN
  /\ req[q].pc = "rollback"
  /\ OnlyWrites(r) /\ (r \in roster' <=> r \in roster) /\ UNCHANGED <<exec, resets>>
  /\ row'[r] = IF Exists(r) THEN [row[r] EXCEPT !.status = before] ELSE row[r]
  /\ stale' = IF Exists(r) /\ row[r].status # "requested" THEN stale \cup {r} ELSE stale
  /\ req'[q] = DoneReq

ApiDies(q) ==
  /\ req[q].pc \notin {"idle", "done"}
  /\ UNCHANGED <<row, roster, exec, stale, resets>>
  /\ req'[q] = DoneReq

(* A step of a request is one of these, and touches no other request.       *)
LEMMA ApiMoves ==
  ASSUME TypeInv, NEW q \in Requests, ReadFor(q) \/ ClaimStart(q) \/ ApiWrite(q) \/ ApiCrash(q)
  PROVE  /\ UNCHANGED <<now, reaping, due, standing>>
         /\ \A p \in Requests \ {q} : req'[p] = req[p]
         /\ req[q].pc \notin {"idle", "done"} => req[q].run \in Runs
         /\ \/ ApiReads(q) \/ ApiClaims(q) \/ ApiWrites(q) \/ ApiReprovisions(q)
            \/ ApiTriggers(q) \/ ApiRollsBack(q) \/ ApiDies(q)
  <1> DEFINE r == req[q].run
  <1>1. /\ req \in [Requests -> ReqState] /\ row \in [Runs -> Row] /\ exec \in [Executions -> Exec]
        /\ resets \in [Runs -> Nat] /\ req[q] \in ReqState
    BY DEF TypeInv, TypeOK
  <1>2. req[q].pc \notin {"idle", "done"} => r \in Runs
    BY DEF TypeInv, Assigned
  <1>3. UNCHANGED <<now, reaping, due, standing>>
    BY DEF ReadFor, ClaimStart, ApiWrite, ApiCrash, WriteExtend, WriteEnd, WriteDelete,
       WriteRetryTeardown, WriteUpdate, ClaimReprovision, TriggerOk, TriggerThrows, Rollback,
       apiFrame, outside
  <1>4. \A p \in Requests \ {q} : req'[p] = req[p]
    BY <1>1 DEF ReadFor, ClaimStart, ApiWrite, ApiCrash, WriteExtend, WriteEnd, WriteDelete,
       WriteRetryTeardown, WriteUpdate, ClaimReprovision, TriggerOk, TriggerThrows, Rollback,
       Answer, Then
  <1>5. Answer(q) => req'[q] = DoneReq
    BY <1>1 DEF Answer
  <1>6. \A pc : Then(q, pc) => req'[q] = [req[q] EXCEPT !.pc = pc]
    BY <1>1 DEF Then
  <1>7. ASSUME NEW p \in Runs, NEW w, Update(p, w)
        PROVE  /\ \A o \in Runs \ {p} : row'[o] = row[o]
               /\ row'[p] = IF Exists(p) THEN w ELSE row[p]
    BY <1>1, <1>7 DEF Update
  <1>8. CASE ReadFor(q)
    <2>1. ApiReads(q)
      BY <1>1, <1>8 DEF ReadFor, ApiReads, tables, history
    <2> QED
      BY <1>2, <1>3, <1>4, <2>1
  <1>9. CASE ClaimStart(q)
    <2>1. PICK p \in Runs, op \in Ops \cap {"startNow", "retry"} :
            /\ row[p].status = ClaimFrom(op)
            /\ Update(p, [row[p] EXCEPT !.status = "requested"])
            /\ req' = [req EXCEPT ![q] = [IdleReq EXCEPT !.pc = "trigger", !.op = op, !.run = p]]
      BY <1>9 DEF ClaimStart
    <2>2. Exists(p)
      BY <2>1 DEF ClaimFrom, Exists, NoRow
    <2>3. /\ row'[p] = [row[p] EXCEPT !.status = "requested"]
          /\ \A o \in Runs \ {p} : row'[o] = row[o]
      BY <1>7, <2>1, <2>2
    <2>4. OnlyWrites(p) /\ (p \in roster' <=> p \in roster) /\ UNCHANGED <<exec, stale, resets>>
      BY <1>3, <1>9, <2>3 DEF ClaimStart, OnlyWrites, OthersKept, history
    <2>5. req'[q] = [IdleReq EXCEPT !.pc = "trigger", !.op = op, !.run = p] /\ req[q].pc = "idle"
      BY <1>1, <1>9, <2>1 DEF ClaimStart
    <2>6. ApiClaims(q)
      BY <2>1, <2>3, <2>4, <2>5 DEF ApiClaims
    <2> QED
      BY <1>2, <1>3, <1>4, <2>6
  <1>10. CASE ApiCrash(q)
    <2>1. ApiDies(q)
      BY <1>5, <1>10 DEF ApiCrash, ApiDies, tables, history
    <2> QED
      BY <1>2, <1>3, <1>4, <2>1
  <1>11. NoteStale(q) => /\ stale \subseteq stale'
                         /\ \A p \in Runs \ {r} : p \in stale' <=> p \in stale
                         /\ stale' = IF Exists(r) /\ MovedOn(r, req[q].seen)
                                     THEN stale \cup {r} ELSE stale
    BY DEF NoteStale
  <1>12. CASE \/ WriteExtend(q) \/ WriteEnd(q) \/ WriteRetryTeardown(q) \/ WriteUpdate(q)
              \/ WriteDelete(q)
    <2>1. req[q].pc = "write" /\ r \in Runs /\ NoteStale(q) /\ UNCHANGED exec
      BY <1>2, <1>12 DEF WriteExtend, WriteEnd, WriteDelete, WriteRetryTeardown, WriteUpdate, Serving
    <2>2. \/ req'[q] = DoneReq
          \/ req[q].op = "update" /\ req'[q] = [req[q] EXCEPT !.pc = "reprovision"]
      BY <1>5, <1>6, <1>12 DEF WriteExtend, WriteEnd, WriteDelete, WriteRetryTeardown, WriteUpdate,
         Serving
    <2>3. /\ \A p \in Runs \ {r} : row'[p] = row[p] /\ resets'[p] = resets[p]
          /\ \A p \in Runs \ {r} : p \in roster' <=> p \in roster
          /\ ~Exists(r) => /\ row'[r] = row[r]
                           /\ resets'[r] \in {resets[r], resets[r] + 1}
                           /\ r \in roster' => r \in roster
      <3>1. CASE WriteExtend(q) \/ WriteEnd(q) \/ WriteUpdate(q)
        <4>1. UNCHANGED <<roster, resets>>
          BY <3>1 DEF WriteExtend, WriteEnd, WriteUpdate
        <4>2. \E w : Update(r, w)
          BY <3>1 DEF WriteExtend, WriteEnd, WriteUpdate
        <4> QED
          BY <1>7, <2>1, <4>1, <4>2
      <3>2. CASE WriteRetryTeardown(q)
        BY <1>1, <1>7, <2>1, <3>2 DEF WriteRetryTeardown
      <3>3. CASE WriteDelete(q)
        BY <1>1, <1>7, <2>1, <3>3 DEF WriteDelete
      <3> QED
        BY <1>12, <3>1, <3>2, <3>3
    <2>4. OnlyWrites(r)
      BY <1>3, <1>11, <2>1, <2>3 DEF OnlyWrites, OthersKept
    <2>5. Exists(r) => ApiRewrites(q)
      <3>1. CASE WriteExtend(q)
        BY <1>7, <2>1, <3>1 DEF WriteExtend, Serving, ApiRewrites
      <3>2. CASE WriteEnd(q)
        BY <1>7, <2>1, <3>2 DEF WriteEnd, Serving, ApiRewrites
      <3>3. CASE WriteUpdate(q)
        BY <1>7, <2>1, <3>3 DEF WriteUpdate, Serving, ApiRewrites
      <3>4. CASE WriteRetryTeardown(q)
        BY <1>1, <1>7, <2>1, <3>4 DEF WriteRetryTeardown, Serving, ApiRewrites
      <3>5. CASE WriteDelete(q)
        BY <1>1, <1>7, <2>1, <3>5 DEF WriteDelete, Serving, ApiRewrites
      <3> QED
        BY <1>12, <3>1, <3>2, <3>3, <3>4, <3>5
    <2>6. ApiWrites(q)
      BY <1>11, <2>1, <2>2, <2>3, <2>4, <2>5 DEF ApiWrites
    <2> QED
      BY <1>2, <1>3, <1>4, <2>6
  <1>13. CASE ClaimReprovision(q)
    <2>1. req[q].pc = "reprovision" /\ r \in Runs
      BY <1>2, <1>13 DEF ClaimReprovision
    <2>2. UNCHANGED <<roster, exec, stale, resets>>
      BY <1>13 DEF ClaimReprovision, history
    <2>3. CASE row[r].status = "ready"
      <3>1. Exists(r)
        BY <2>3 DEF Exists, NoRow
      <3> QED
        BY <1>2, <1>3, <1>4, <1>6, <1>7, <1>13, <2>1, <2>2, <2>3, <3>1
        DEF ClaimReprovision, ApiReprovisions, OnlyWrites, OthersKept
    <2>4. CASE row[r].status # "ready"
      BY <1>2, <1>3, <1>4, <1>5, <1>13, <2>1, <2>2, <2>4
      DEF ClaimReprovision, ApiReprovisions, OnlyWrites, OthersKept
    <2> QED
      BY <2>3, <2>4
  <1>14. \A e \in Executions : Accept(e, r) => Queues(e, r)
    BY <1>1 DEF Accept, Queues
  <1>15. CASE TriggerOk(q)
    <2>1. ApiTriggers(q)
      BY <1>3, <1>5, <1>14, <1>15 DEF TriggerOk, ApiTriggers, OnlyWrites, OthersKept, tables, history
    <2> QED
      BY <1>2, <1>3, <1>4, <2>1
  <1>16. CASE TriggerThrows(q)
    <2>1. ApiTriggers(q)
      BY <1>3, <1>6, <1>14, <1>16 DEF TriggerThrows, ApiTriggers, OnlyWrites, OthersKept, tables
    <2> QED
      BY <1>2, <1>3, <1>4, <2>1
  <1>17. CASE Rollback(q)
    <2>1. req[q].pc = "rollback" /\ r \in Runs
      BY <1>2, <1>17 DEF Rollback
    <2>2. ApiRollsBack(q)
      BY <1>3, <1>5, <1>7, <1>17, <2>1 DEF Rollback, ApiRollsBack, OnlyWrites, OthersKept
    <2> QED
      BY <1>2, <1>3, <1>4, <2>2
  <1> QED
    BY <1>8, <1>9, <1>10, <1>12, <1>13, <1>15, <1>16, <1>17 DEF ApiWrite

(* The steps of the scheduler.                                              *)
SchedulerClaims ==
  /\ due = {} /\ UNCHANGED exec
  /\ due' = {r \in Runs : DueToStart(row[r])}
  /\ \A r \in Runs : row'[r] = IF r \in due' THEN [row[r] EXCEPT !.status = "requested"] ELSE row[r]

SchedulerQueues ==
  /\ UNCHANGED row
  /\ \E r \in due : (\E e \in Executions : Queues(e, r)) /\ due' = due \ {r}

SchedulerPutsBack ==
  /\ UNCHANGED exec
  /\ \E r \in due :
       /\ Exists(r) /\ due' = due \ {r}
       /\ row'[r] = SetScheduledBack(row[r])
       /\ \A q \in Runs \ {r} : row'[q] = row[q]

LEMMA SchedulerMoves ==
  ASSUME TypeInv, SchedulerNext
  PROVE  /\ UNCHANGED <<roster, standing, now, reaping, req, history>>
         /\ \/ SchedulerClaims \/ SchedulerQueues \/ SchedulerPutsBack
            \/ due' = {} /\ UNCHANGED <<row, exec>>
  <1>1. row \in [Runs -> Row] /\ exec \in [Executions -> Exec] /\ due \subseteq Runs
    BY DEF TypeInv, TypeOK
  <1>2. UNCHANGED <<roster, standing, now, reaping, req, history>>
    BY DEF SchedulerNext, SchedulerStep, SchedulerClaim, SchedulerHandOver, SchedulerPutBack,
       SchedulerAbort, SchedulerCrash, schedulerFrame, tables, outside
  <1>3. CASE SchedulerClaim
    BY <1>2, <1>3 DEF SchedulerClaim, SchedulerClaims
  <1>4. CASE SchedulerHandOver
    <2>1. \A e \in Executions, r \in Runs : Accept(e, r) => Queues(e, r)
      BY <1>1 DEF Accept, Queues
    <2> QED
      BY <1>1, <1>2, <1>4, <2>1 DEF SchedulerHandOver, SchedulerQueues, tables
  <1>5. CASE SchedulerPutBack
    BY <1>1, <1>2, <1>5 DEF SchedulerPutBack, SchedulerPutsBack, Update
  <1>6. CASE SchedulerAbort \/ SchedulerCrash
    BY <1>2, <1>6 DEF SchedulerAbort, SchedulerCrash, tables
  <1> QED
    BY <1>3, <1>4, <1>5, <1>6 DEF SchedulerNext, SchedulerStep

-----------------------------------------------------------------------------
(* The steps of a reaper execution: over its list, and at a run.            *)
ReaperBrowses(x) ==
  /\ UNCHANGED <<row, roster, standing, stale>>
  /\ \/ /\ Step(x) = "idle"
        /\ reaper'[x] =
             [IdleReaper EXCEPT !.pc = "scan", !.todo = {r \in Runs : Reapable(row[r])},
                !.listed = [r \in Runs |-> IF Reapable(row[r]) THEN Glimpse(row[r]) ELSE Blank]]
     \/ /\ Step(x) = "scan"
        /\ \E r \in reaper[x].todo :
             /\ lock[r] = Null
             /\ reaper'[x] = [reaper[x] EXCEPT !.pc = "claim", !.cur = r, !.todo = @ \ {r}]
     \/ /\ Step(x) = "scan"
        /\ \E r \in reaper[x].todo :
             reaper'[x] = [reaper[x] EXCEPT !.todo = @ \ {r}, !.listed[r] = Blank,
                             !.pc = IF reaper[x].todo \ {r} = {} THEN "idle" ELSE "scan"]

ReaperClaims(x) ==
  LET r == Cur(x) IN
  /\ Step(x) = "claim" /\ Exists(r) /\ ~row[r].claimed
  /\ row'[r] = SetDestroyClaim(row[r])
  /\ reaper'[x] = [reaper[x] EXCEPT !.pc = "clouds", !.units = Units(Seen(x).clouds),
                                    !.attempt = row'[r].attempts]
  /\ stale' = IF MovedOn(r, Seen(x)) THEN stale \cup {r} ELSE stale
  /\ StandingKept(r)

(* The step is over and the next one is pc.                                 *)
Goes(x, pc) == reaper'[x] = [reaper[x] EXCEPT !.pc = pc]

ReaperWorks(x) ==
  LET r == Cur(x) IN
  /\ row'[r] = row[r] /\ UNCHANGED stale
  /\ \/ /\ Step(x) = "claim" /\ ~(Exists(r) /\ ~row[r].claimed)
        /\ Goes(x, "abandoned") /\ StandingKept(r)
     \/ /\ Step(x) \in TeardownSteps /\ Exists(r) /\ StandingKept(r)
        /\ \E clears \in BOOLEAN :
             reaper'[x] = [reaper[x] EXCEPT !.pc = "threw", !.clears = clears]
     \/ /\ Step(x) = "clouds" /\ Exists(r) /\ (r \in roster' <=> r \in roster)
        /\ \E u \in reaper[x].units :
             /\ standing'[r] = standing[r] \ {u}
             /\ reaper'[x] = [reaper[x] EXCEPT !.units = @ \ {u},
                                !.pc = IF reaper[x].units = {u} THEN "harness" ELSE "clouds"]
     \/ /\ Step(x) = "harness" /\ Exists(r) /\ Goes(x, "accounts")
        /\ standing'[r] = standing[r] \ {"harness"} /\ (r \in roster' <=> r \in roster)
     \/ /\ Step(x) = "accounts" /\ Exists(r) /\ Goes(x, "orgUnit") /\ (r \in roster' <=> r \in roster)
        /\ standing'[r] = IF r \in roster THEN standing[r] \ {"account"} ELSE standing[r]
     \/ /\ Step(x) = "orgUnit" /\ Exists(r) /\ Goes(x, "forget") /\ (r \in roster' <=> r \in roster)
        /\ standing'[r] = IF Seen(x).ou THEN standing[r] \ {"account", "stray"} ELSE standing[r]
     \/ /\ Step(x) = "forget" /\ Exists(r) /\ Goes(x, "finish")
        /\ standing'[r] = standing[r] /\ r \notin roster'
     \/ /\ Step(x) = "finish" /\ Exists(r) /\ ~row[r].del
        /\ Goes(x, "mark") /\ StandingKept(r)

ReaperLeaves(x) ==
  LET r == Cur(x)
      retry == reaper[x].clears /\ reaper[x].attempt < MAX_DESTROY_ATTEMPTS
  IN
  /\ UNCHANGED <<standing, stale>>
  /\ reaper'[x] \in {Finished(x), IdleReaper}
  /\ \/ /\ Step(x) = "abandoned" /\ (r \in roster' <=> r \in roster)
        /\ row'[r] = IF Exists(r) THEN SetDestroyFailed(row[r]) ELSE row[r]
     \/ /\ Step(x) = "finish" /\ Exists(r) /\ row[r].del
        /\ row'[r] = Deleted /\ r \notin roster'
     \/ /\ Step(x) = "mark" /\ (r \in roster' <=> r \in roster)
        /\ row'[r] = IF Exists(r) THEN SetDestroyed(row[r]) ELSE row[r]
     \/ /\ Step(x) = "threw" /\ Exists(r) /\ (r \in roster' <=> r \in roster)
        /\ row'[r] = IF retry THEN SetDestroyRetry(row[r]) ELSE SetDestroyFailed(row[r])

ReaperStops(x) ==
  /\ UNCHANGED <<row, roster, standing, stale>>
  /\ reaper'[x] = IdleReaper

(* The runs x is not at keep all but the accounts in an org unit of the name. *)
OthersSpared(x) ==
  \A q \in Runs \ {Cur(x)} :
    /\ row'[q] = row[q] /\ (q \in roster' <=> q \in roster)
    /\ \/ standing'[q] = standing[q]
       \/ /\ Step(x) = "orgUnit" /\ NameOf[q] = NameOf[Cur(x)]
          /\ standing'[q] \subseteq standing[q]

LEMMA ReaperMoves ==
  ASSUME TypeInv, NEW x \in Reapers, ReaperStep(x) \/ ReaperThrow(x) \/ ReaperCrash(x)
  PROVE  /\ UNCHANGED <<now, exec, req, due, resets>>
         /\ \A y \in Reapers \ {x} : reaper'[y] = reaper[y]
         /\ OthersSpared(x)
         /\ \/ ReaperBrowses(x) \/ ReaperStops(x)
            \/ Cur(x) \in Runs /\ (ReaperClaims(x) \/ ReaperWorks(x) \/ ReaperLeaves(x))
  <1> DEFINE r == Cur(x)
  <1>1. /\ row \in [Runs -> Row] /\ reaper \in [Reapers -> ReaperState]
        /\ standing \in [Runs -> SUBSET Thing] /\ reaper[x] \in ReaperState
    BY DEF TypeInv, TypeOK
  <1>2. UNCHANGED <<now, exec, req, due, resets>>
    BY DEF ReaperStep, ReaperList, ReaperTryLock, ReaperClaim, ReaperFlagDead, ReaperDestroyCloud,
       ReaperDestroyHarness, ReaperDeleteAccounts, ReaperDeleteOrgUnit, ReaperForget, ReaperFinish,
       ReaperMark, ReaperDecide, ReaperLoseRow, ReaperThrow, ReaperCrash, reaperFrame, history
  <1>3. \A y \in Reapers \ {x} : reaper'[y] = reaper[y]
    BY <1>1 DEF ReaperStep, ReaperList, ReaperTryLock, ReaperClaim, ReaperFlagDead, ReaperDestroyCloud,
       ReaperDestroyHarness, ReaperDeleteAccounts, ReaperDeleteOrgUnit, ReaperForget, ReaperFinish,
       ReaperMark, ReaperDecide, ReaperLoseRow, ReaperThrow, ReaperCrash, Advance, NextRun, Exit
  <1>4. Step(x) \in TeardownSteps \cup {"claim", "abandoned", "threw"} => r \in Runs
    BY DEF TypeInv, Assigned, LockedSteps
  <1>5. ASSUME NEW w, r \in Runs, Update(r, w)
        PROVE  /\ \A q \in Runs \ {r} : row'[q] = row[q]
               /\ row'[r] = IF Exists(r) THEN w ELSE row[r]
    BY <1>1, <1>5 DEF Update
  <1>6. /\ NextRun(x) => reaper'[x] = Finished(x)
        /\ Exit(x) => reaper'[x] = IdleReaper
        /\ \A pc : Advance(x, pc) => Goes(x, pc)
    BY <1>1 DEF NextRun, Exit, Advance, Goes
  <1>7. CASE ReaperList(x)
    BY <1>1, <1>2, <1>3, <1>7 DEF ReaperList, ReaperBrowses, OthersSpared, tables, outside, history
  <1>8. CASE ReaperTryLock(x)
    <2>1. Step(x) = "scan" /\ UNCHANGED <<row, roster, standing, stale>>
      BY <1>8 DEF ReaperTryLock, tables, outside, history
    <2>2. PICK p \in reaper[x].todo :
            LET rest == reaper[x].todo \ {p} IN
            IF lock[p] = Null
            THEN /\ lock' = [lock EXCEPT ![p] = x]
                 /\ reaper' = [reaper EXCEPT ![x].pc = "claim", ![x].cur = p, ![x].todo = rest]
            ELSE /\ reaper' = [reaper EXCEPT ![x].todo = rest, ![x].listed[p] = Blank,
                                             ![x].pc = IF rest = {} THEN "idle" ELSE "scan"]
                 /\ UNCHANGED lock
      BY <1>8 DEF ReaperTryLock
    <2>3. CASE lock[p] = Null
      <3>1. reaper'[x] = [reaper[x] EXCEPT !.pc = "claim", !.cur = p, !.todo = @ \ {p}]
        BY <1>1, <2>2, <2>3 DEF ReaperState
      <3>2. ReaperBrowses(x)
        BY <2>1, <2>2, <2>3, <3>1 DEF ReaperBrowses
      <3> QED
        BY <1>2, <1>3, <2>1, <3>2 DEF OthersSpared
    <2>4. CASE lock[p] # Null
      <3>1. reaper'[x] = [reaper[x] EXCEPT !.todo = @ \ {p}, !.listed[p] = Blank,
                            !.pc = IF reaper[x].todo \ {p} = {} THEN "idle" ELSE "scan"]
        BY <1>1, <2>2, <2>4 DEF ReaperState
      <3>2. ReaperBrowses(x)
        BY <2>1, <2>2, <3>1 DEF ReaperBrowses
      <3> QED
        BY <1>2, <1>3, <2>1, <3>2 DEF OthersSpared
    <2> QED
      BY <2>3, <2>4
  <1>9. CASE ReaperClaim(x)
    <2>1. Step(x) = "claim" /\ r \in Runs /\ UNCHANGED <<roster, standing>>
      BY <1>4, <1>9 DEF ReaperClaim, outside
    <2>2. CASE Exists(r) /\ ~row[r].claimed
      <3>1. /\ Update(r, SetDestroyClaim(row[r]))
            /\ reaper' = [reaper EXCEPT ![x].pc = "clouds", ![x].units = Units(Seen(x).clouds),
                                        ![x].attempt = row'[r].attempts]
            /\ stale' = IF MovedOn(r, Seen(x)) THEN stale \cup {r} ELSE stale
        BY <1>9, <2>2 DEF ReaperClaim
      <3>2. reaper'[x] = [reaper[x] EXCEPT !.pc = "clouds", !.units = Units(Seen(x).clouds),
                                           !.attempt = row'[r].attempts]
        BY <1>1, <3>1 DEF ReaperState
      <3>3. ReaperClaims(x)
        BY <1>5, <2>1, <2>2, <3>1, <3>2 DEF ReaperClaims, StandingKept
      <3> QED
        BY <1>2, <1>3, <1>5, <2>1, <3>1, <3>3 DEF OthersSpared
    <2>3. CASE ~(Exists(r) /\ ~row[r].claimed)
      <3>1. Advance(x, "abandoned") /\ UNCHANGED <<row, stale>>
        BY <1>9, <2>3 DEF ReaperClaim
      <3>2. ReaperWorks(x)
        BY <1>6, <2>1, <2>3, <3>1 DEF ReaperWorks, StandingKept
      <3> QED
        BY <1>2, <1>3, <2>1, <3>1, <3>2 DEF OthersSpared
    <2> QED
      BY <2>2, <2>3
  <1>10. CASE ReaperFlagDead(x)
    <2>1. ReaperLeaves(x) /\ OthersSpared(x) /\ r \in Runs
      BY <1>4, <1>5, <1>6, <1>10 DEF ReaperFlagDead, ReaperLeaves, OthersSpared, outside, history
    <2> QED
      BY <1>2, <1>3, <2>1
  <1>11. CASE ReaperDestroyCloud(x)
    <2>1. PICK u \in reaper[x].units :
            /\ standing' = [standing EXCEPT ![r] = @ \ {u}]
            /\ reaper' = [reaper EXCEPT ![x].units = @ \ {u},
                            ![x].pc = IF reaper[x].units = {u} THEN "harness" ELSE "clouds"]
      BY <1>11 DEF ReaperDestroyCloud
    <2>2. /\ Step(x) = "clouds" /\ Exists(r) /\ r \in Runs
          /\ UNCHANGED <<row, roster, stale>>
      BY <1>4, <1>11 DEF ReaperDestroyCloud, tables, history, TeardownSteps
    <2>3. reaper'[x] = [reaper[x] EXCEPT !.units = @ \ {u},
                          !.pc = IF reaper[x].units = {u} THEN "harness" ELSE "clouds"]
      BY <1>1, <2>1 DEF ReaperState
    <2>4. standing'[r] = standing[r] \ {u} /\ OthersSpared(x)
      BY <1>1, <2>1, <2>2 DEF OthersSpared
    <2>5. ReaperWorks(x)
      BY <2>2, <2>3, <2>4 DEF ReaperWorks
    <2> QED
      BY <1>2, <1>3, <2>2, <2>4, <2>5
  <1>12. CASE ReaperDestroyHarness(x)
    <2>1. ReaperWorks(x) /\ OthersSpared(x) /\ r \in Runs
      BY <1>1, <1>4, <1>6, <1>12
      DEF ReaperDestroyHarness, ReaperWorks, OthersSpared, tables, history, TeardownSteps
    <2> QED
      BY <1>2, <1>3, <2>1
  <1>13. CASE ReaperDeleteAccounts(x)
    <2>1. ReaperWorks(x) /\ OthersSpared(x) /\ r \in Runs
      BY <1>1, <1>4, <1>6, <1>13
      DEF ReaperDeleteAccounts, ReaperWorks, OthersSpared, tables, history, TeardownSteps
    <2> QED
      BY <1>2, <1>3, <2>1
  <1>14. CASE ReaperDeleteOrgUnit(x)
    <2>1. Step(x) = "orgUnit" /\ Exists(r) /\ r \in Runs /\ UNCHANGED <<row, roster, stale>>
      BY <1>4, <1>14 DEF ReaperDeleteOrgUnit, tables, history, TeardownSteps
    <2>2. \A q \in Runs : standing'[q] = IF Seen(x).ou /\ NameOf[q] = NameOf[r]
                                         THEN standing[q] \ {"account", "stray"} ELSE standing[q]
      BY <1>14 DEF ReaperDeleteOrgUnit, outside
    <2>3. Goes(x, "forget")
      BY <1>6, <1>14 DEF ReaperDeleteOrgUnit
    <2>4. ReaperWorks(x) /\ OthersSpared(x)
      BY <2>1, <2>2, <2>3 DEF ReaperWorks, OthersSpared
    <2> QED
      BY <1>2, <1>3, <2>1, <2>4
  <1>15. CASE ReaperForget(x)
    <2>1. ReaperWorks(x) /\ OthersSpared(x) /\ r \in Runs
      BY <1>1, <1>4, <1>6, <1>15
      DEF ReaperForget, ReaperWorks, OthersSpared, outside, history, TeardownSteps
    <2> QED
      BY <1>2, <1>3, <2>1
  <1>16. CASE ReaperFinish(x)
    <2>1. Step(x) = "finish" /\ Exists(r) /\ r \in Runs /\ UNCHANGED <<standing, stale>>
      BY <1>4, <1>16 DEF ReaperFinish, outside, history, TeardownSteps
    <2>2. CASE row[r].del
      <3>1. ReaperLeaves(x) /\ OthersSpared(x)
        BY <1>1, <1>6, <1>16, <2>1, <2>2 DEF ReaperFinish, ReaperLeaves, OthersSpared
      <3> QED
        BY <1>2, <1>3, <2>1, <3>1
    <2>3. CASE ~row[r].del
      <3>1. ReaperWorks(x) /\ OthersSpared(x)
        BY <1>6, <1>16, <2>1, <2>3 DEF ReaperFinish, ReaperWorks, OthersSpared, StandingKept, tables
      <3> QED
        BY <1>2, <1>3, <2>1, <3>1
    <2> QED
      BY <2>2, <2>3
  <1>17. CASE ReaperMark(x)
    <2>1. ReaperLeaves(x) /\ OthersSpared(x) /\ r \in Runs
      BY <1>4, <1>5, <1>6, <1>17
      DEF ReaperMark, ReaperLeaves, OthersSpared, outside, history, TeardownSteps
    <2> QED
      BY <1>2, <1>3, <2>1
  <1>18. CASE ReaperDecide(x)
    <2>1. ReaperLeaves(x) /\ OthersSpared(x) /\ r \in Runs
      BY <1>4, <1>5, <1>6, <1>18 DEF ReaperDecide, ReaperLeaves, OthersSpared, outside, history
    <2> QED
      BY <1>2, <1>3, <2>1
  <1>19. CASE ReaperThrow(x)
    <2>1. PICK clears \in BOOLEAN :
            reaper' = [reaper EXCEPT ![x].pc = "threw", ![x].clears = clears]
      BY <1>19 DEF ReaperThrow
    <2>2. reaper'[x] = [reaper[x] EXCEPT !.pc = "threw", !.clears = clears]
      BY <1>1, <2>1 DEF ReaperState
    <2>3. ReaperWorks(x) /\ OthersSpared(x) /\ r \in Runs
      BY <1>4, <1>19, <2>2
      DEF ReaperThrow, ReaperWorks, OthersSpared, StandingKept, tables, outside, history
    <2> QED
      BY <1>2, <1>3, <2>3
  <1>20. CASE ReaperLoseRow(x) \/ ReaperCrash(x)
    <2>1. ReaperStops(x) /\ OthersSpared(x)
      BY <1>6, <1>20 DEF ReaperLoseRow, ReaperCrash, ReaperStops, OthersSpared, tables, outside, history
    <2> QED
      BY <1>2, <1>3, <2>1
  <1> QED
    BY <1>7, <1>8, <1>9, <1>10, <1>11, <1>12, <1>13, <1>14, <1>15, <1>16, <1>17, <1>18, <1>19, <1>20
    DEF ReaperStep

-----------------------------------------------------------------------------
(* End times.                                                              *)

(* Once an event has an end time it keeps one for as long as it has a row.  *)
Ended(r) == row[r].expires # NoExpiry \/ row[r].status = "deleted"

(* A live row has an end time, one not booked yet has none.                 *)
RowsEnd == \A r \in Runs : /\ row[r].expires >= NoExpiry
                           /\ row[r].status = "ready" => Ended(r)
                           /\ row[r].status = "unbooked" => row[r].expires = NoExpiry

(* What an execution or a request learned of an end time is still so, and a *)
(* grow whose claim may be rolled back started from a live row.             *)
ExecsKnowEnd ==
  \A e \in Executions :
    /\ exec[e].expires >= NoExpiry
    /\ exec[e].pc \in BuildSteps \cup {"announce"} /\ exec[e].expires # NoExpiry => Ended(RunOf(e))

ReqsKnowEnd ==
  \A q \in Requests :
    /\ req[q].seen.expires >= NoExpiry
    /\ req[q].pc = "write" /\ req[q].seen.expires # NoExpiry => Ended(req[q].run)
    /\ req[q].pc \in {"trigger", "rollback"} /\ req[q].op = "update" => Ended(req[q].run)

(* A claim of a row that is not live is not a grow's.                       *)
OpsFit ==
  \A q \in Requests :
    /\ req[q].pc = "reprovision" => req[q].op = "update"
    /\ req[q].pc \in {"trigger", "rollback"} => req[q].op \in {"startNow", "retry", "update"}

ExpiryInv == RowsEnd /\ ExecsKnowEnd /\ ReqsKnowEnd /\ OpsFit

(* What a step does to the end times of the rows.                           *)
EndsLast == RowsEnd' /\ \A r \in Runs : Ended(r) => Ended(r)'

LEMMA RunnerEnds ==
  ASSUME TypeInv, ExpiryInv, NEW e \in Executions,
         RunnerStep(e) \/ RunnerLateVerdict(e) \/ RunnerFail(e) \/ RunnerCrash(e)
  PROVE  ExpiryInv'
  <1> DEFINE t == IF exec[e].expires # NoExpiry THEN exec[e].expires ELSE now + exec[e].ttl
  <1>1. /\ row \in [Runs -> Row] /\ exec[e] \in Exec /\ now \in Nat
    BY ConstantsAssumption DEF TypeInv, TypeOK
  <1>2. PICK r \in Runs :
          /\ r = RunOf(e) /\ OthersKept(r)
          /\ UNCHANGED <<now, reaping, req, due, died, resets>>
          /\ \A d \in Executions \ {e} : exec'[d] = exec[d]
          /\ RunnerAdvances(e) \/ RunnerLeaves(e) \/ RunnerConcludes(e)
    BY RunnerMoves
  <1>3. row[r] \in Row
    BY <1>1, <1>2
  <1>4. t >= NoExpiry /\ t # NoExpiry /\ t \in Int
    BY <1>1 DEF ExpiryInv, ExecsKnowEnd, Exec, NoExpiry
  <1>5. ASSUME row'[r].expires >= NoExpiry, row'[r].status = "ready" => Ended(r)', Ended(r) => Ended(r)',
               row'[r].status = "unbooked" => row'[r] = row[r]
        PROVE  EndsLast
    BY <1>2, <1>5 DEF EndsLast, RowsEnd, OthersKept, Ended, ExpiryInv
  <1>6. CASE RunnerAdvances(e)
    <2>1. EndsLast
      <3>1. /\ row'[r].expires = row[r].expires
            /\ row'[r].status \in {row[r].status, "provisioning", "applying"}
            /\ row[r].status \notin NoRow
        BY <1>2, <1>3, <1>6 DEF RunnerAdvances, SetProvisioning, SetOrgUnitPath, SetApplying, Exists, NoRow, Row
      <3> QED
        BY <1>2, <1>5, <3>1 DEF Ended, ExpiryInv, RowsEnd, NoRow
    <2>2. /\ exec'[e].expires = IF At(e, "queued") THEN row[r].expires ELSE exec[e].expires
          /\ exec'[e].run = r /\ exec[e].pc \in BuildSteps \cup {"queued"}
      BY <1>2, <1>6, AdvanceStays DEF RunOf, At, BuildSteps
    <2>3. ExecsKnowEnd'
      BY <1>2, <2>1, <2>2 DEF ExecsKnowEnd, ExpiryInv, EndsLast, RowsEnd, Ended, RunOf, TypeInv, Assigned, At, BuildSteps
    <2> QED
      BY <1>2, <2>1, <2>3 DEF ExpiryInv, EndsLast, ReqsKnowEnd, OpsFit, TypeInv, Assigned
  <1>8. ASSUME EndsLast, RunnerLeaves(e) \/ RunnerConcludes(e)
        PROVE  ExpiryInv'
    <2>1. exec'[e].expires \in {exec[e].expires, NoExpiry}
          /\ (exec'[e].pc \in BuildSteps \cup {"announce"} =>
                exec[e].pc \in BuildSteps /\ exec'[e].expires = exec[e].expires /\ RunOf(e)' = r)
      BY <1>2, <1>8, LeavingLetsGo DEF DoneExec, IdleExec, BuildSteps, At
    <2>2. ExecsKnowEnd'
      BY <1>2, <1>8, <2>1 DEF ExecsKnowEnd, ExpiryInv, EndsLast, RunOf, TypeInv, Assigned, BuildSteps, NoExpiry
    <2> QED
      BY <1>2, <1>8, <2>2 DEF ExpiryInv, EndsLast, ReqsKnowEnd, OpsFit, TypeInv, Assigned
  <1>7. CASE RunnerLeaves(e)
    <2>1. EndsLast
      <3>1. CASE row'[r] = row[r]
        BY <1>2, <1>5, <3>1 DEF Ended, ExpiryInv, RowsEnd
      <3>2. CASE /\ At(e, "clouds") /\ Exists(r)
                 /\ row'[r] = SetReady(row[r], t)
        <4>1. row'[r].expires = t /\ row'[r].status = "ready"
          BY <1>3, <3>2 DEF SetReady, Row
        <4> QED
          BY <1>4, <1>5, <4>1 DEF Ended
      <3>3. CASE exec[e].pc \in BuildSteps /\ Exists(r) /\ row'[r] = Caught(e, row[r])
        <4>1. /\ row'[r].expires = row[r].expires /\ row[r].status # "deleted"
              /\ row'[r].status = "ready" => exec[e].expires # NoExpiry
              /\ row'[r].status # "unbooked"
          BY <1>3, <3>3 DEF Caught, SetLiveError, SetFailed, Row, Exists, NoRow
        <4>2. exec[e].expires # NoExpiry => Ended(r)
          BY <1>2, <3>3 DEF ExpiryInv, ExecsKnowEnd
        <4> QED
          BY <1>2, <1>5, <4>1, <4>2 DEF Ended, ExpiryInv, RowsEnd
      <3> QED
        BY <1>2, <1>7, <3>1, <3>2, <3>3 DEF RunnerLeaves
    <2> QED
      BY <1>7, <1>8, <2>1
  <1>9. CASE RunnerConcludes(e)
    <2>1. EndsLast
      <3>1. row'[r].status = "ready" => row'[r] = row[r] \/ Ended(r)
        BY <1>2, <1>9, ConcludingKeeps DEF ExpiryInv, ExecsKnowEnd, RunnerConcludes, At
      <3>2. row[r].status = "deleted" => row'[r] = row[r]
        BY <1>2, <1>9, ConcludingKeeps DEF Exists, NoRow
      <3>3. row'[r].expires = row[r].expires /\ (row'[r].status = "unbooked" => row'[r] = row[r])
        BY <1>2, <1>9, ConcludingKeeps
      <3> QED
        BY <1>2, <1>5, <3>1, <3>2, <3>3 DEF Ended, ExpiryInv, RowsEnd
    <2> QED
      BY <1>8, <1>9, <2>1
  <1> QED
    BY <1>2, <1>6, <1>7, <1>9

(* The rows a request may write keep their end.                             *)
LEMMA ApiEnds ==
  ASSUME TypeInv, ExpiryInv, NEW q \in Requests,
         ReadFor(q) \/ ClaimStart(q) \/ ApiWrite(q) \/ ApiCrash(q)
  PROVE  ExpiryInv'
  <1>1. /\ row \in [Runs -> Row] /\ req[q] \in ReqState /\ req[q].seen \in Row /\ now \in Nat
    BY ConstantsAssumption DEF TypeInv, TypeOK, ReqState
  <1>2. /\ UNCHANGED <<now, reaping, due, standing>>
        /\ \A p \in Requests \ {q} : req'[p] = req[p]
        /\ req[q].pc \notin {"idle", "done"} => req[q].run \in Runs
        /\ \/ ApiReads(q) \/ ApiClaims(q) \/ ApiWrites(q) \/ ApiReprovisions(q)
           \/ ApiTriggers(q) \/ ApiRollsBack(q) \/ ApiDies(q)
    BY ApiMoves
  <1>3. ASSUME NEW r \in Runs, OthersKept(r),
               row'[r].expires >= NoExpiry, row'[r].status = "ready" => Ended(r)', Ended(r) => Ended(r)',
               row'[r].status = "unbooked" => row'[r] = row[r]
        PROVE  EndsLast
    BY <1>3 DEF EndsLast, RowsEnd, OthersKept, Ended, ExpiryInv
  <1>4. UNCHANGED row => EndsLast
    BY DEF EndsLast, RowsEnd, Ended, ExpiryInv
  (* Whoever is queued reads the end time later.                              *)
  <1>5. ASSUME EndsLast, \/ UNCHANGED exec
                         \/ \E e \in Executions, r \in Runs : Queues(e, r)
        PROVE  ExecsKnowEnd'
    <2>1. CASE UNCHANGED exec
      BY <1>5, <2>1 DEF ExecsKnowEnd, ExpiryInv, EndsLast, RunOf, TypeInv, Assigned, BuildSteps
    <2>2. ASSUME NEW e \in Executions, NEW r \in Runs, Queues(e, r)
          PROVE  ExecsKnowEnd'
      <3>1. exec[e] \in Exec
        BY DEF TypeInv, TypeOK
      <3>2. exec'[e].expires = exec[e].expires /\ exec'[e].pc = "queued"
        BY <2>2, <3>1 DEF Queues, Exec
      <3> QED
        BY <1>5, <2>2, <3>2 DEF Queues, ExecsKnowEnd, ExpiryInv, EndsLast, RunOf, TypeInv, Assigned, BuildSteps
    <2> QED
      BY <1>5, <2>1, <2>2
  <1>7. /\ DoneReq.pc = "done" /\ DoneReq.seen.expires = NoExpiry /\ NoExpiry >= NoExpiry
        /\ IdleReq.seen.expires = NoExpiry
    BY DEF DoneReq, IdleReq, Unbooked, NoExpiry
  (* The other requests know what they knew.                                  *)
  <1>8. ASSUME EndsLast, ExecsKnowEnd', NEW r \in Runs,
               \/ req'[q] = DoneReq
               \/ /\ req'[q].run = r /\ req'[q].seen.expires >= NoExpiry
                  /\ req'[q].pc = "write" /\ req'[q].seen.expires # NoExpiry => Ended(r)'
                  /\ req'[q].pc \in {"trigger", "rollback"} /\ req'[q].op = "update" => Ended(r)'
                  /\ req'[q].pc = "reprovision" => req'[q].op = "update"
                  /\ req'[q].pc \in {"trigger", "rollback"} => req'[q].op \in {"startNow", "retry", "update"}
        PROVE  ExpiryInv'
    <2>1. ReqsKnowEnd'
      BY <1>2, <1>7, <1>8 DEF ExpiryInv, EndsLast, ReqsKnowEnd, TypeInv, Assigned
    <2>2. OpsFit'
      BY <1>2, <1>7, <1>8 DEF ExpiryInv, OpsFit
    <2> QED
      BY <1>8, <2>1, <2>2 DEF ExpiryInv, EndsLast
  <1>9. CASE ApiReads(q)
    <2>1. PICK r \in Runs, op \in Ops \ {"startNow", "retry"} :
            \E want \in IF op = "update" THEN Bookings \cup {Clouds} ELSE {{}} :
              /\ Exists(r) /\ Accepts(op, row[r], want)
              /\ req'[q] = [pc |-> "write", op |-> op, run |-> r, seen |-> row[r], want |-> want]
      BY <1>9 DEF ApiReads
    <2>2. UNCHANGED <<row, exec>>
      BY <1>9 DEF ApiReads
    <2>3. req'[q].run = r /\ req'[q].seen = row[r] /\ req'[q].pc = "write"
      BY <2>1
    <2> QED
      BY <1>4, <1>5, <1>8, <2>2, <2>3 DEF ExpiryInv, RowsEnd, Ended
  <1>10. CASE ApiClaims(q)
    <2>1. PICK r \in Runs, op \in {"startNow", "retry"} :
            /\ row[r].status = ClaimFrom(op)
            /\ row'[r] = [row[r] EXCEPT !.status = "requested"]
            /\ OnlyWrites(r)
            /\ req'[q] = [IdleReq EXCEPT !.pc = "trigger", !.op = op, !.run = r]
      BY <1>10 DEF ApiClaims
    <2>2. row'[r].expires = row[r].expires /\ row'[r].status = "requested" /\ row[r].status # "deleted"
      BY <1>1, <2>1 DEF Row, ClaimFrom
    <2>3. EndsLast
      BY <1>3, <2>1, <2>2 DEF OnlyWrites, Ended, ExpiryInv, RowsEnd
    <2>4. req'[q].run = r /\ req'[q].pc = "trigger" /\ req'[q].op = op
          /\ req'[q].seen.expires >= NoExpiry
      BY <1>7, <2>1 DEF IdleReq
    <2> QED
      BY <1>5, <1>8, <1>10, <2>3, <2>4 DEF ApiClaims
  <1>11. CASE ApiWrites(q)
    <2>1. PICK r \in Runs : r = req[q].run
      BY <1>2, <1>11 DEF ApiWrites
    <2>2. /\ row'[r].expires >= NoExpiry
          /\ row'[r].status = "ready" => row'[r].status = row[r].status
          /\ row'[r].status = "unbooked" => row'[r] = row[r]
          /\ Ended(r) => Ended(r)'
      <3>1. CASE Exists(r) /\ row[r].status # "deleted"
        <4>1. /\ row[r] \in Row /\ ApiRewrites(q) /\ row[r].expires >= NoExpiry
              /\ row[r].status # "unbooked"
          BY <1>1, <1>11, <2>1, <3>1 DEF ApiWrites, ExpiryInv, RowsEnd, Exists, NoRow
        <4>2. CASE req[q].op = "extend"
          <5>1. row'[r] = IF req[q].seen.expires # NoExpiry
                          THEN [row[r] EXCEPT !.expires = req[q].seen.expires + EXTENSION]
                          ELSE [row[r] EXCEPT !.ttl = req[q].seen.ttl + EXTENSION]
            BY <2>1, <4>1, <4>2 DEF ApiRewrites
          <5>2. req[q].seen.expires \in Int /\ req[q].seen.expires >= NoExpiry
            BY <1>1 DEF Row, ExpiryInv, ReqsKnowEnd
          <5>3. /\ row'[r].status = row[r].status
                /\ row'[r].expires \in {row[r].expires, req[q].seen.expires + EXTENSION}
                /\ req[q].seen.expires # NoExpiry => row'[r].expires = req[q].seen.expires + EXTENSION
            BY <4>1, <5>1 DEF Row
          <5>4. CASE req[q].seen.expires # NoExpiry
            <6>1. req[q].seen.expires + EXTENSION >= NoExpiry /\ req[q].seen.expires + EXTENSION # NoExpiry
              BY <5>2, <5>4 DEF NoExpiry, EXTENSION
            <6> QED
              BY <4>1, <5>3, <5>4, <6>1 DEF Ended
          <5>5. CASE req[q].seen.expires = NoExpiry
            <6>1. row'[r].expires = row[r].expires
              BY <4>1, <5>1, <5>5 DEF Row
            <6> QED
              BY <4>1, <5>3, <6>1 DEF Ended
          <5> QED
            BY <5>4, <5>5
        <4>3. CASE req[q].op = "end"
          BY <1>1, <2>1, <4>1, <4>3 DEF ApiRewrites, Row, Ended, NoExpiry
        <4>4. CASE req[q].op \in {"delete", "retryTeardown", "update"}
          <5>1. \/ row'[r].expires = row[r].expires /\ row'[r].status \in {row[r].status, "destroying"}
                \/ row'[r] = Deleted
            BY <2>1, <4>1, <4>4 DEF ApiRewrites, Row, DestroyReset
          <5>2. Deleted.expires = NoExpiry /\ Deleted.status = "deleted"
            BY DEF Deleted, Unbooked
          <5> QED
            BY <1>7, <3>1, <4>1, <5>1, <5>2 DEF Ended
        <4> QED
          BY <4>1, <4>2, <4>3, <4>4 DEF ApiRewrites
      <3>2. CASE ~Exists(r)
        BY <1>11, <2>1, <3>2 DEF ApiWrites, ExpiryInv, RowsEnd, Ended
      <3> QED
        BY <3>1, <3>2 DEF Exists, NoRow
    <2>3. EndsLast
      BY <1>3, <1>11, <2>1, <2>2 DEF ApiWrites, OnlyWrites, ExpiryInv, RowsEnd
    <2>4. ExecsKnowEnd'
      BY <1>5, <1>11, <2>3 DEF ApiWrites
    <2>5. \/ req'[q] = DoneReq
          \/ /\ req'[q].run = r /\ req'[q].seen = req[q].seen
             /\ req'[q].pc = "reprovision" /\ req'[q].op = "update"
      BY <1>1, <1>11, <2>1 DEF ApiWrites, ReqState
    <2> QED
      BY <1>8, <2>3, <2>4, <2>5 DEF ExpiryInv, ReqsKnowEnd
  <1>12. CASE ApiReprovisions(q)
    <2>1. PICK r \in Runs : r = req[q].run
      BY <1>2, <1>12 DEF ApiReprovisions
    <2>2. CASE row[r].status = "ready"
      <3>1. /\ row'[r].expires = row[r].expires /\ row'[r].status = "requested"
            /\ row[r].expires # NoExpiry /\ row[r].expires >= NoExpiry
        BY <1>1, <1>12, <2>1, <2>2 DEF ApiReprovisions, Row, ExpiryInv, RowsEnd, Ended
      <3>2. EndsLast
        BY <1>3, <1>12, <2>1, <3>1 DEF ApiReprovisions, OnlyWrites, Ended
      <3>3. /\ req'[q].run = r /\ req'[q].pc = "trigger" /\ req'[q].op = req[q].op
            /\ req'[q].seen = req[q].seen /\ req[q].op = "update"
        BY <1>1, <1>12, <2>1, <2>2 DEF ApiReprovisions, ReqState, ExpiryInv, OpsFit
      <3> QED
        BY <1>5, <1>8, <1>12, <3>1, <3>2, <3>3 DEF ApiReprovisions, ExpiryInv, ReqsKnowEnd, Ended
    <2>3. CASE row[r].status # "ready"
      <3>1. EndsLast
        BY <1>3, <1>12, <2>1, <2>3 DEF ApiReprovisions, OnlyWrites, Ended, ExpiryInv, RowsEnd
      <3> QED
        BY <1>5, <1>8, <1>12, <2>1, <2>3, <3>1 DEF ApiReprovisions
    <2> QED
      BY <2>2, <2>3
  <1>13. CASE ApiTriggers(q)
    <2>1. PICK r \in Runs : r = req[q].run
      BY <1>2, <1>13 DEF ApiTriggers
    <2>2. EndsLast
      BY <1>4, <1>13 DEF ApiTriggers
    <2>3. ExecsKnowEnd'
      BY <1>5, <1>13, <2>1, <2>2 DEF ApiTriggers
    <2>4. \/ req'[q] = DoneReq
          \/ /\ req'[q].run = r /\ req'[q].seen = req[q].seen /\ req'[q].pc = "rollback"
             /\ req'[q].op = req[q].op /\ req[q].pc = "trigger"
      BY <1>1, <1>13, <2>1 DEF ApiTriggers, ReqState
    <2> QED
      BY <1>8, <2>1, <2>2, <2>3, <2>4 DEF ExpiryInv, ReqsKnowEnd, OpsFit, EndsLast
  <1>14. CASE ApiRollsBack(q)
    <2>1. PICK r \in Runs : r = req[q].run
      BY <1>2, <1>14 DEF ApiRollsBack
    <2>2. req[q].op = "update" => Ended(r)
      BY <1>14, <2>1 DEF ApiRollsBack, ExpiryInv, ReqsKnowEnd
    <2>3. CASE Exists(r)
      <3>1. /\ row'[r].expires = row[r].expires /\ row[r].expires >= NoExpiry
            /\ row'[r].status = IF req[q].op = "update" THEN "ready" ELSE ClaimFrom(req[q].op)
            /\ row[r].status # "deleted"
        BY <1>1, <1>14, <2>1, <2>3 DEF ApiRollsBack, Row, ExpiryInv, RowsEnd, Exists, NoRow
      <3>2. EndsLast
        BY <1>3, <1>14, <2>1, <2>2, <3>1 DEF ApiRollsBack, OnlyWrites, Ended, ClaimFrom
      <3> QED
        BY <1>5, <1>8, <1>14, <3>2 DEF ApiRollsBack
    <2>4. CASE ~Exists(r)
      <3>1. EndsLast
        BY <1>3, <1>14, <2>1, <2>4 DEF ApiRollsBack, OnlyWrites, Ended, ExpiryInv, RowsEnd
      <3> QED
        BY <1>5, <1>8, <1>14, <3>1 DEF ApiRollsBack
    <2> QED
      BY <2>3, <2>4
  <1>15. CASE ApiDies(q)
    BY <1>2, <1>4, <1>5, <1>8, <1>15 DEF ApiDies
  <1> QED
    BY <1>2, <1>9, <1>10, <1>11, <1>12, <1>13, <1>14, <1>15

(* Nobody else ends a run's end time but with its row.                      *)
LEMMA OthersEnd ==
  ASSUME TypeInv, ExpiryInv, SchedulerNext \/ ReaperNext \/ Tick \/ UNCHANGED vars
                             \/ \E r \in Runs : CreateScheduledRun(r)
  PROVE  ExpiryInv'
  <1>1. row \in [Runs -> Row] /\ due \subseteq Runs
    BY DEF TypeInv, TypeOK
  <1>2. ASSUME EndsLast, UNCHANGED req, \/ UNCHANGED exec
                                        \/ \E e \in Executions, r \in Runs : Queues(e, r)
        PROVE  ExpiryInv'
    <2>1. ExecsKnowEnd'
      <3>1. CASE UNCHANGED exec
        BY <1>2, <3>1 DEF ExecsKnowEnd, ExpiryInv, EndsLast, RunOf, TypeInv, Assigned, BuildSteps
      <3>2. ASSUME NEW e \in Executions, NEW r \in Runs, Queues(e, r)
            PROVE  ExecsKnowEnd'
        <4>1. exec[e] \in Exec
          BY DEF TypeInv, TypeOK
        <4>2. exec'[e].expires = exec[e].expires /\ exec'[e].pc = "queued"
          BY <3>2, <4>1 DEF Queues, Exec
        <4> QED
          BY <1>2, <3>2, <4>2 DEF Queues, ExecsKnowEnd, ExpiryInv, EndsLast, RunOf, TypeInv, Assigned, BuildSteps
      <3> QED
        BY <1>2, <3>1, <3>2
    <2> QED
      BY <1>2, <2>1 DEF ExpiryInv, EndsLast, ReqsKnowEnd, OpsFit, TypeInv, Assigned
  <1>3. ASSUME NEW r \in Runs, \A q \in Runs \ {r} : row'[q] = row[q],
               \/ row'[r] = row[r]
               \/ row[r].status # "deleted" /\ row'[r].expires = row[r].expires
                  /\ row'[r].status \notin {"ready", "unbooked"}
               \/ row'[r].status = "deleted" /\ row'[r].expires >= NoExpiry
        PROVE  EndsLast
    BY <1>3 DEF EndsLast, RowsEnd, Ended, ExpiryInv
  <1>4. UNCHANGED row => EndsLast
    BY DEF EndsLast, RowsEnd, Ended, ExpiryInv
  <1>5. CASE SchedulerNext
    <2>1. EndsLast
      <3>1. CASE SchedulerClaims
        <4>1. \A r \in Runs : \/ row'[r] = row[r]
                              \/ /\ row'[r].expires = row[r].expires /\ row'[r].status = "requested"
                                 /\ row[r].status # "deleted"
          BY <1>1, <3>1 DEF SchedulerClaims, DueToStart, Row
        <4> QED
          BY <4>1 DEF EndsLast, RowsEnd, Ended, ExpiryInv
      <3>2. CASE SchedulerPutsBack
        BY <1>1, <1>3, <3>2 DEF SchedulerPutsBack, SetScheduledBack, Row, Exists, NoRow
      <3> QED
        BY <1>4, <1>5, <3>1, <3>2, SchedulerMoves DEF SchedulerQueues
    <2>2. UNCHANGED exec \/ \E e \in Executions, r \in Runs : Queues(e, r)
      BY <1>1, <1>5, SchedulerMoves DEF SchedulerClaims, SchedulerQueues, SchedulerPutsBack
    <2> QED
      BY <1>2, <1>5, <2>1, <2>2, SchedulerMoves
  <1>6. CASE ReaperNext
    <2>1. PICK x \in Reapers : ReaperStep(x) \/ ReaperThrow(x) \/ ReaperCrash(x)
      BY <1>6 DEF ReaperNext
    <2>2. /\ UNCHANGED <<exec, req>> /\ OthersSpared(x)
          /\ \/ ReaperBrowses(x) \/ ReaperStops(x)
             \/ Cur(x) \in Runs /\ (ReaperClaims(x) \/ ReaperWorks(x) \/ ReaperLeaves(x))
      BY <2>1, ReaperMoves
    <2>3. CASE ReaperBrowses(x) \/ ReaperStops(x)
      BY <1>2, <1>4, <2>2, <2>3 DEF ReaperBrowses, ReaperStops
    <2>4. CASE Cur(x) \in Runs /\ (ReaperClaims(x) \/ ReaperWorks(x) \/ ReaperLeaves(x))
      <3>1. PICK r \in Runs : r = Cur(x)
        BY <2>4
      <3>2. row[r] \in Row /\ \A q \in Runs \ {r} : row'[q] = row[q]
        BY <1>1, <2>2, <3>1 DEF OthersSpared
      <3>3. CASE ReaperClaims(x)
        BY <1>2, <1>3, <2>2, <3>1, <3>2, <3>3 DEF ReaperClaims, SetDestroyClaim, Row, Exists, NoRow
      <3>4. CASE ReaperWorks(x)
        BY <1>2, <1>3, <2>2, <3>1, <3>2, <3>4 DEF ReaperWorks
      <3>5. CASE ReaperLeaves(x)
        <4>1. \/ row'[r] = row[r]
              \/ row'[r] = Deleted
              \/ Exists(r) /\ row'[r] \in {SetDestroyFailed(row[r]), SetDestroyed(row[r]),
                                           SetDestroyRetry(row[r])}
          BY <3>1, <3>5 DEF ReaperLeaves
        <4>2. Deleted.status = "deleted" /\ Deleted.expires >= NoExpiry
          BY DEF Deleted, Unbooked, NoExpiry
        <4>3. \/ row'[r] = row[r]
              \/ row[r].status # "deleted" /\ row'[r].expires = row[r].expires
                 /\ row'[r].status \notin {"ready", "unbooked"}
              \/ row'[r].status = "deleted" /\ row'[r].expires >= NoExpiry
          BY <3>2, <4>1, <4>2 DEF SetDestroyFailed, SetDestroyed, SetDestroyRetry, Row, Exists, NoRow
        <4> QED
          BY <1>2, <1>3, <2>2, <3>2, <4>3
      <3> QED
        BY <2>4, <3>3, <3>4, <3>5
    <2> QED
      BY <2>2, <2>3, <2>4
  <1>7. CASE Tick \/ UNCHANGED vars
    BY <1>2, <1>4, <1>7 DEF Tick, vars, tables
  <1>8. ASSUME NEW r \in Runs, CreateScheduledRun(r)
        PROVE  ExpiryInv'
    <2>1. PICK w : /\ w.status = "scheduled" /\ w.expires = NoExpiry
                   /\ row' = [row EXCEPT ![r] = w]
      BY <1>8 DEF CreateScheduledRun, Unbooked
    <2>2. row[r].status = "unbooked" /\ UNCHANGED <<exec, req>>
      BY <1>8 DEF CreateScheduledRun
    <2>3. EndsLast
      BY <1>1, <2>1, <2>2 DEF EndsLast, RowsEnd, Ended, ExpiryInv, NoExpiry
    <2> QED
      BY <1>2, <2>2, <2>3
  <1> QED
    BY <1>5, <1>6, <1>7, <1>8

LEMMA ExpiryInvariance == Spec => []ExpiryInv
  <1>1. Init => ExpiryInv
    BY DEF Init, ExpiryInv, RowsEnd, ExecsKnowEnd, ReqsKnowEnd, OpsFit, Unbooked, IdleExec, IdleReq,
       NoExpiry, BuildSteps
  <1>2. TypeInv /\ ExpiryInv /\ [Next]_vars => ExpiryInv'
    BY RunnerEnds, ApiEnds, OthersEnd DEF Next, RunnerNext, ApiNext
  <1> QED
    BY <1>1, <1>2, TypeInvariance, PTL DEF Spec

(* A live event always has an end time, whichever of the paths to ready it  *)
(* took and whatever was written to it meanwhile: the reaper can select it. *)
THEOREM LiveEventsEnd == Spec => []ReadyHasEnd
  <1>1. ExpiryInv => ReadyHasEnd
    BY DEF ExpiryInv, RowsEnd, ReadyHasEnd, Ended
  <1> QED
    BY <1>1, ExpiryInvariance, PTL

-----------------------------------------------------------------------------
(* Ownership.                                                              *)

(* What a write half acts on is what its handler accepted when it read.     *)
ReadsFit ==
  \A q \in Requests : req[q].pc = "write" =>
    LET seen == req[q].seen IN
    /\ req[q].op = "delete" => seen.status \notin InFlight
    /\ req[q].op = "end" => seen.status = "ready"
    /\ req[q].op = "retryTeardown" => seen.status = "destroy_failed"
    /\ req[q].op = "update" =>
         \/ seen.status = "scheduled"
         \/ seen.status = "ready" /\ seen.clouds \subseteq req[q].want

(* A run that is on its way up is in one hand: the scheduler's, a request's *)
(* between its claim and its answer, or an execution's.                     *)
Holds(e, r) == RunOf(e) = r /\ exec[e].pc \in BuildSteps \cup {"queued"}
Calls(q, r) == req[q].run = r /\ req[q].pc \in {"trigger", "rollback"}

OneHand(r) ==
  /\ r \in due => row[r].status = "requested"
  /\ \A q \in Requests : Calls(q, r) =>
       /\ row[r].status = "requested" /\ r \notin due
       /\ \A p \in Requests : Calls(p, r) => p = q
  /\ \A e \in Executions : Holds(e, r) =>
       /\ row[r].status \in IF At(e, "queued") THEN {"requested"} ELSE {"provisioning", "applying"}
       /\ r \notin due
       /\ \A q \in Requests : ~Calls(q, r)
       /\ \A d \in Executions : Holds(d, r) => d = e

(* A run that is on its way down is past every hand that could bring it up. *)
Down == {"destroying", "destroy_failed", "destroyed"}

Lists(x, r) == r \in reaper[x].todo \/ (Cur(x) = r /\ Step(x) \in LockedSteps)
Meets(x, r) == Cur(x) = r /\ Step(x) = "abandoned"

ListedFits(x, r) ==
  LET s == reaper[x].listed[r].status IN
  /\ s \in {"ready", "destroying", "destroyed"}
  /\ row[r].status # "unbooked"
  /\ s # "ready" => row[r].status \in Down \cup {"deleted"}
  /\ s = "destroyed" => row[r].del \/ row[r].status = "deleted"

GoingDown(r) ==
  /\ row[r].del => row[r].status \in Down
  /\ row[r].claimed => row[r].status = "destroying"
  /\ \A x \in Reapers :
       /\ Lists(x, r) => ListedFits(x, r)
       /\ TearingDown(x, r) => row[r].status = "destroying"
       /\ Meets(x, r) => row[r].status \in {"destroying", "deleted"}

Owned == \A r \in Runs \ stale : OneHand(r) /\ GoingDown(r)

(* A step that adds no hand and no teardown to r.                           *)
HandsKept(r) ==
  /\ r \in due' => r \in due
  /\ \A q \in Requests : Calls(q, r)' => Calls(q, r)
  /\ \A e \in Executions : Holds(e, r)' => Holds(e, r) /\ (At(e, "queued")' <=> At(e, "queued"))

TearsKept(r) ==
  \A x \in Reapers :
    /\ Lists(x, r)' => Lists(x, r) /\ reaper'[x].listed[r] = reaper[x].listed[r]
    /\ TearingDown(x, r)' => TearingDown(x, r)
    /\ Meets(x, r)' => Meets(x, r)

(* A run that keeps its status stays in the hands it was in.                *)
LEMMA KeptIsOwned ==
  ASSUME NEW r \in Runs, OneHand(r), GoingDown(r), HandsKept(r), TearsKept(r),
         row'[r].status = row[r].status, row'[r].del = row[r].del, row'[r].claimed = row[r].claimed
  PROVE  OneHand(r)' /\ GoingDown(r)'
  <1>1. OneHand(r)'
    BY DEF OneHand, HandsKept
  <1>2. GoingDown(r)'
    BY DEF GoingDown, TearsKept, ListedFits
  <1> QED
    BY <1>1, <1>2

(* Nobody has r in hand unless it is on its way up.                         *)
LEMMA NoHands ==
  ASSUME NEW r \in Runs, OneHand(r), row[r].status \notin InFlight
  PROVE  /\ r \notin due
         /\ \A q \in Requests : ~Calls(q, r)
         /\ \A e \in Executions : ~Holds(e, r)
  BY DEF OneHand, InFlight

(* Nobody tears r down unless it is being destroyed; while it is on its way *)
(* up it can have been listed when live only.                               *)
LEMMA NoTears ==
  ASSUME NEW r \in Runs, GoingDown(r), row[r].status \notin Down \cup NoRow
  PROVE  /\ ~row[r].del /\ ~row[r].claimed
         /\ \A x \in Reapers : /\ ~TearingDown(x, r) /\ ~Meets(x, r)
                               /\ Lists(x, r) => reaper[x].listed[r].status = "ready"
  BY DEF GoingDown, Down, NoRow, ListedFits

(* A run on its way up, or back to where it can start from, whose listings  *)
(* are of when it was live.                                                 *)
LEMMA UpIsNotDown ==
  ASSUME NEW r \in Runs, GoingDown(r), row[r].status \notin Down \cup NoRow, TearsKept(r),
         row'[r].status \notin Down \cup NoRow, row'[r].del = row[r].del, row'[r].claimed = row[r].claimed
  PROVE  GoingDown(r)'
  BY NoTears DEF GoingDown, TearsKept, ListedFits, NoRow

(* An execution writes its run's status, end time and org unit, and no      *)
(* other column.                                                            *)
LEMMA RunnerKeeps ==
  ASSUME TypeInv, NEW e \in Executions, NEW r \in Runs, r = RunOf(e),
         RunnerAdvances(e) \/ RunnerLeaves(e)
  PROVE  /\ row'[r].del = row[r].del /\ row'[r].claimed = row[r].claimed
         /\ row'[r].attempts = row[r].attempts /\ row'[r].clouds = row[r].clouds
         /\ row'[r].status \in {row[r].status, "provisioning", "applying", "ready", "failed"}
         /\ RunnerAdvances(e) =>
              /\ At(e, "queued") => row'[r].status = "provisioning"
              /\ row'[r].status \in {row[r].status, "provisioning", "applying"}
         /\ RunnerLeaves(e) => row'[r].ou = row[r].ou
  <1>1. row[r] \in Row /\ exec[e] \in Exec
    BY DEF TypeInv, TypeOK
  <1>2. CASE RunnerAdvances(e)
    <2>1. row'[r] \in {row[r], SetProvisioning(row[r]), SetOrgUnitPath(row[r]), SetApplying(row[r])}
          /\ (At(e, "queued") => row'[r] = SetProvisioning(row[r]))
      BY <1>2 DEF RunnerAdvances, At
    <2>2. RunnerLeaves(e) => FALSE
      <3>1. exec'[e].pc \in BuildSteps
        BY <1>2, AdvanceStays
      <3> QED
        BY <3>1, LeavingLetsGo DEF BuildSteps
    <2> QED
      BY <1>1, <2>1, <2>2 DEF SetProvisioning, SetOrgUnitPath, SetApplying, Row
  <1>3. CASE RunnerLeaves(e) /\ ~RunnerAdvances(e)
    <2> DEFINE t == IF exec[e].expires # NoExpiry THEN exec[e].expires ELSE now + exec[e].ttl
    <2>1. \/ row'[r] = SetReady(row[r], t)
          \/ row'[r] = Caught(e, row[r])
          \/ row'[r] = row[r]
      BY <1>3 DEF RunnerLeaves
    <2> HIDE DEF t
    <2>2. PICK s \in {row[r].status, "ready", "failed"}, u \in {row[r].expires, t} :
            row'[r] = [row[r] EXCEPT !.status = s, !.expires = u]
      <3>1. CASE row'[r] = SetReady(row[r], t)
        BY <3>1 DEF SetReady
      <3>3. CASE row'[r] = Caught(e, row[r])
        <4>1. \/ row'[r] = [row[r] EXCEPT !.status = "ready", !.expires = row[r].expires]
              \/ row'[r] = [row[r] EXCEPT !.status = "failed", !.expires = row[r].expires]
          BY <1>1, <3>3 DEF Caught, SetLiveError, SetFailed, Row
        <4> QED
          BY <4>1
      <3>4. CASE row'[r] = row[r]
        BY <1>1, <3>4 DEF Row
      <3> QED
        BY <2>1, <3>1, <3>3, <3>4
    <2> QED
      BY <1>1, <1>3, <2>2 DEF Row
  <1> QED
    BY <1>2, <1>3

(* An execution's step keeps the run it holds, and every other, in hand.    *)
LEMMA RunnerOwned ==
  ASSUME TypeInv, Owned, NEW e \in Executions,
         RunnerStep(e) \/ RunnerLateVerdict(e) \/ RunnerFail(e) \/ RunnerCrash(e)
  PROVE  Owned'
  <1>1. row \in [Runs -> Row] /\ exec[e] \in Exec
    BY DEF TypeInv, TypeOK
  <1>2. PICK r \in Runs :
          /\ r = RunOf(e) /\ OthersKept(r)
          /\ UNCHANGED <<now, reaping, req, due, died, resets>>
          /\ \A d \in Executions \ {e} : exec'[d] = exec[d]
          /\ RunnerAdvances(e) \/ RunnerLeaves(e) \/ RunnerConcludes(e)
    BY RunnerMoves
  <1>3. \/ RunnerAdvances(e) /\ RunOf(e)' = r /\ exec'[e].pc \in BuildSteps
        \/ exec'[e].pc \in {"announce", "done"} /\ ~RunnerAdvances(e)
    BY <1>2, AdvanceStays, LeavingLetsGo DEF BuildSteps
  <1>4. \A q \in Runs \ stale' : q \notin stale
    BY <1>2, ConcludingKeeps DEF RunnerAdvances, RunnerLeaves
  <1>5. \A q \in Runs : TearsKept(q)
    BY <1>2 DEF TearsKept, reaping, Lists, TearingDown, Meets, Step, Cur
  <1>10. ~RunnerAdvances(e) => \A q \in Runs : ~Holds(e, q)'
    BY <1>3 DEF Holds, BuildSteps
  <1>6. ASSUME NEW q \in Runs \ stale', q # r
        PROVE  OneHand(q)' /\ GoingDown(q)'
    <2>1. q \notin stale /\ row'[q] = row[q]
      BY <1>2, <1>4, <1>6 DEF OthersKept
    <2>2. HandsKept(q)
      BY <1>2, <1>3, <1>6, <1>10 DEF HandsKept, Calls, Holds, RunOf, At, BuildSteps
    <2> QED
      BY <1>5, <2>1, <2>2, KeptIsOwned DEF Owned
  <1>11. ASSUME r \notin stale', RunnerConcludes(e)
         PROVE  OneHand(r)' /\ GoingDown(r)'
    <2>1. r \notin stale /\ OneHand(r) /\ GoingDown(r) /\ ~RunnerAdvances(e)
      BY <1>2, <1>4, <1>11, LeavingLetsGo, AdvanceStays DEF Owned, BuildSteps
    <2>2. HandsKept(r)
      BY <1>2, <1>10, <2>1 DEF HandsKept, Calls, Holds, RunOf, At
    <2>3. row'[r].del = row[r].del /\ row'[r].claimed = row[r].claimed
      BY <1>2, <1>11, ConcludingKeeps
    <2>4. CASE row'[r] = row[r]
      BY <1>5, <2>1, <2>2, <2>4, KeptIsOwned
    <2>5. CASE row[r].status = "ready" /\ row'[r].status \in {"ready", "failed"}
      <3>1. GoingDown(r)'
        BY <1>5, <2>1, <2>3, <2>5, UpIsNotDown DEF Down, NoRow
      <3>2. OneHand(r)'
        BY <2>1, <2>2, <2>5, NoHands DEF OneHand, HandsKept, InFlight
      <3> QED
        BY <3>1, <3>2
    <2> QED
      BY <1>2, <1>11, <2>4, <2>5, ConcludingKeeps
  <1>7. ASSUME r \notin stale', RunnerAdvances(e) \/ RunnerLeaves(e)
        PROVE  OneHand(r)' /\ GoingDown(r)'
    <2>1. r \notin stale /\ Holds(e, r) /\ row[r] \in Row
      BY <1>1, <1>2, <1>4, <1>7, AdvanceStays, LeavingLetsGo DEF Holds
    <2>2. /\ OneHand(r) /\ GoingDown(r) /\ row[r].status \in InFlight
          /\ At(e, "queued") => row[r].status = "requested"
          /\ ~At(e, "queued") => row[r].status \in {"provisioning", "applying"}
          /\ r \notin due
          /\ \A q \in Requests : ~Calls(q, r)
          /\ \A d \in Executions : Holds(d, r) => d = e
      BY <2>1 DEF Owned, OneHand, InFlight
    <2>3. /\ row'[r].del = row[r].del /\ row'[r].claimed = row[r].claimed
          /\ row'[r].status \in InFlight \cup {"ready", "failed"}
          /\ RunnerAdvances(e) => row'[r].status \in {"provisioning", "applying"}
      BY <1>2, <1>7, <2>1, <2>2, RunnerKeeps DEF InFlight
    <2>4. GoingDown(r)'
      BY <1>5, <2>2, <2>3, UpIsNotDown DEF InFlight, Down, NoRow
    <2>5. CASE RunnerAdvances(e)
      <3>1. exec'[e].pc \in BuildSteps /\ RunOf(e)' = r
        BY <1>2, <2>5, AdvanceStays
      <3>2. /\ \A d \in Executions : Holds(d, r)' => d = e
            /\ \A q \in Requests : ~Calls(q, r)'
            /\ r \notin due'
            /\ ~At(e, "queued")'
        BY <1>2, <2>2, <3>1 DEF Holds, Calls, RunOf, At, BuildSteps
      <3>3. OneHand(r)'
        BY <2>3, <2>5, <3>2 DEF OneHand
      <3> QED
        BY <2>4, <3>3
    <2>6. CASE ~RunnerAdvances(e)
      <3>1. /\ \A d \in Executions : ~Holds(d, r)'
            /\ \A q \in Requests : ~Calls(q, r)'
            /\ r \notin due'
        BY <1>2, <1>10, <2>2, <2>6 DEF Holds, Calls, RunOf
      <3> QED
        BY <2>4, <3>1 DEF OneHand
    <2> QED
      BY <2>5, <2>6
  <1> QED
    BY <1>2, <1>6, <1>7, <1>11 DEF Owned

(* So do the scheduler and the clock.                                       *)
LEMMA SchedulerOwned ==
  ASSUME TypeInv, Owned, SchedulerNext \/ Tick \/ UNCHANGED vars
  PROVE  Owned'
  <1>1. row \in [Runs -> Row] /\ due \subseteq Runs /\ exec \in [Executions -> Exec]
    BY DEF TypeInv, TypeOK
  <1>2. UNCHANGED <<reaping, req, history>>
    BY SchedulerMoves DEF Tick, vars
  <1>3. \A r \in Runs : TearsKept(r)
    BY <1>2 DEF TearsKept, reaping, Lists, TearingDown, Meets, Step, Cur
  <1>4. \A r \in Runs \ stale' : r \notin stale /\ OneHand(r) /\ GoingDown(r)
    BY <1>2 DEF history, Owned
  <1>5. CASE SchedulerNext /\ SchedulerClaims
    <2> SUFFICES ASSUME NEW r \in Runs \ stale' PROVE OneHand(r)' /\ GoingDown(r)'
      BY DEF Owned
    <2>1. UNCHANGED exec /\ due = {}
      BY <1>5 DEF SchedulerClaims
    <2>2. CASE r \in due'
      <3>1. /\ row[r].status = "scheduled" /\ row'[r].status = "requested"
            /\ row'[r].del = row[r].del /\ row'[r].claimed = row[r].claimed
        BY <1>1, <1>5, <2>2 DEF SchedulerClaims, DueToStart, Row
      <3>2. GoingDown(r)'
        BY <1>3, <1>4, <3>1, UpIsNotDown DEF Down, NoRow
      <3>3. (\A q \in Requests : ~Calls(q, r)) /\ (\A e \in Executions : ~Holds(e, r))
        BY <1>4, <3>1, NoHands DEF InFlight
      <3>4. OneHand(r)'
        BY <1>2, <2>1, <3>1, <3>3 DEF OneHand, Calls, Holds, RunOf
      <3> QED
        BY <3>2, <3>4
    <2>3. CASE r \notin due'
      <3>1. row'[r] = row[r] /\ HandsKept(r)
        BY <1>2, <1>5, <2>1, <2>3 DEF SchedulerClaims, HandsKept, Calls, Holds, RunOf, At
      <3> QED
        BY <1>3, <1>4, <3>1, KeptIsOwned
    <2> QED
      BY <2>2, <2>3
  <1>6. CASE SchedulerNext /\ SchedulerQueues
    <2>1. PICK p \in due, e \in Executions : UNCHANGED row /\ Queues(e, p) /\ due' = due \ {p}
      BY <1>6 DEF SchedulerQueues
    <2>2. exec'[e].pc = "queued" /\ exec'[e].run = p /\ \A d \in Executions \ {e} : exec'[d] = exec[d]
      BY <1>1, <2>1 DEF Queues, Exec
    <2> SUFFICES ASSUME NEW r \in Runs \ stale' PROVE OneHand(r)' /\ GoingDown(r)'
      BY DEF Owned
    <2>3. GoingDown(r)'
      BY <1>3, <1>4, <2>1 DEF GoingDown, TearsKept, ListedFits
    <2>4. CASE r = p
      <3>1. /\ row[r].status = "requested" /\ \A q \in Requests : ~Calls(q, r)
            /\ \A d \in Executions : ~Holds(d, r)
        BY <1>4, <2>1, <2>4 DEF OneHand
      <3>2. OneHand(r)'
        BY <1>2, <2>1, <2>2, <2>4, <3>1 DEF OneHand, Calls, Holds, RunOf, At
      <3> QED
        BY <2>3, <3>2
    <2>5. CASE r # p
      <3>1. HandsKept(r)
        BY <1>2, <2>1, <2>2, <2>5 DEF HandsKept, Calls, Holds, RunOf, At
      <3> QED
        BY <1>3, <1>4, <2>1, <3>1, KeptIsOwned
    <2> QED
      BY <2>4, <2>5
  <1>7. CASE SchedulerNext /\ SchedulerPutsBack
    <2>1. PICK p \in due : /\ UNCHANGED exec /\ Exists(p) /\ due' = due \ {p}
                           /\ row'[p] = SetScheduledBack(row[p])
                           /\ \A q \in Runs \ {p} : row'[q] = row[q]
      BY <1>7 DEF SchedulerPutsBack
    <2> SUFFICES ASSUME NEW r \in Runs \ stale' PROVE OneHand(r)' /\ GoingDown(r)'
      BY DEF Owned
    <2>2. HandsKept(r)
      BY <1>2, <2>1 DEF HandsKept, Calls, Holds, RunOf, At
    <2>3. CASE r = p
      <3>1. /\ row[r].status = "requested" /\ \A q \in Requests : ~Calls(q, r)
            /\ \A d \in Executions : ~Holds(d, r)
        BY <1>4, <2>1, <2>3 DEF OneHand
      <3>2. /\ row'[r].status = "scheduled" /\ row'[r].del = row[r].del
            /\ row'[r].claimed = row[r].claimed
        BY <1>1, <2>1, <2>3 DEF SetScheduledBack, Row
      <3>3. GoingDown(r)'
        BY <1>3, <1>4, <3>1, <3>2, UpIsNotDown DEF Down, NoRow
      <3>4. OneHand(r)'
        BY <2>1, <2>2, <2>3, <3>1 DEF OneHand, HandsKept
      <3> QED
        BY <3>3, <3>4
    <2>4. CASE r # p
      BY <1>3, <1>4, <2>1, <2>2, <2>4, KeptIsOwned
    <2> QED
      BY <2>3, <2>4
  <1>8. CASE due' \subseteq due /\ UNCHANGED <<row, exec>>
    <2> SUFFICES ASSUME NEW r \in Runs \ stale' PROVE OneHand(r)' /\ GoingDown(r)'
      BY DEF Owned
    <2>1. HandsKept(r)
      BY <1>2, <1>8 DEF HandsKept, Calls, Holds, RunOf, At
    <2> QED
      BY <1>3, <1>4, <1>8, <2>1, KeptIsOwned
  <1>9. CASE Tick \/ UNCHANGED vars
    BY <1>8, <1>9 DEF Tick, vars, tables
  <1> QED
    BY <1>5, <1>6, <1>7, <1>8, <1>9, SchedulerMoves

(* Only a read gives a request something to write.                          *)
LEMMA ReadsStayFit == TypeInv /\ ReadsFit /\ [Next]_vars => ReadsFit'
  <1> SUFFICES ASSUME TypeInv, ReadsFit, [Next]_vars PROVE ReadsFit'
    OBVIOUS
  <1>1. CASE UNCHANGED req
    BY <1>1 DEF ReadsFit
  <1>2. ASSUME NEW q \in Requests, ReadFor(q) \/ ClaimStart(q) \/ ApiWrite(q) \/ ApiCrash(q)
        PROVE  ReadsFit'
    <2>1. req[q] \in ReqState
      BY DEF TypeInv, TypeOK
    <2>2. /\ \A p \in Requests \ {q} : req'[p] = req[p]
          /\ \/ ApiReads(q) \/ ApiClaims(q) \/ ApiWrites(q) \/ ApiReprovisions(q)
             \/ ApiTriggers(q) \/ ApiRollsBack(q) \/ ApiDies(q)
      BY <1>2, ApiMoves
    <2>3. ASSUME req'[q].pc # "write"
          PROVE  ReadsFit'
      BY <2>2, <2>3 DEF ReadsFit
    <2>4. CASE ApiReads(q)
      <3>1. PICK r \in Runs, op \in Ops \ {"startNow", "retry"} :
              \E want \in IF op = "update" THEN Bookings \cup {Clouds} ELSE {{}} :
                /\ Exists(r) /\ Accepts(op, row[r], want)
                /\ req'[q] = [pc |-> "write", op |-> op, run |-> r, seen |-> row[r], want |-> want]
        BY <2>4 DEF ApiReads
      <3>2. PICK want : /\ Accepts(op, row[r], want)
                        /\ req'[q] = [pc |-> "write", op |-> op, run |-> r, seen |-> row[r], want |-> want]
        BY <3>1
      <3>3. /\ op = "delete" => row[r].status \notin InFlight
            /\ op = "end" => row[r].status = "ready"
            /\ op = "retryTeardown" => row[r].status = "destroy_failed"
            /\ op = "update" => \/ row[r].status = "scheduled"
                                \/ row[r].status = "ready" /\ row[r].clouds \subseteq want
        BY <3>2 DEF Accepts, Editability
      <3> QED
        BY <2>2, <3>2, <3>3 DEF ReadsFit
    <2>5. CASE \/ ApiClaims(q) \/ ApiWrites(q) \/ ApiReprovisions(q) \/ ApiTriggers(q)
               \/ ApiRollsBack(q) \/ ApiDies(q)
      <3>1. req'[q].pc # "write"
        BY <2>1, <2>5 DEF ApiClaims, ApiWrites, ApiReprovisions, ApiTriggers, ApiRollsBack, ApiDies,
           DoneReq, IdleReq, ReqState
      <3> QED
        BY <2>3, <3>1
    <2> QED
      BY <2>2, <2>4, <2>5
  <1>3. CASE SchedulerNext \/ RunnerNext \/ ReaperNext \/ Tick \/ UNCHANGED vars
    BY <1>1, <1>3, SchedulerMoves, RunnerMoves, ReaperMoves DEF RunnerNext, ReaperNext, Tick, vars
  <1>4. ASSUME NEW r \in Runs, CreateScheduledRun(r)
        PROVE  ReadsFit'
    BY <1>1, <1>4 DEF CreateScheduledRun
  <1> QED
    BY <1>2, <1>3, <1>4 DEF Next, ApiNext

(* A write that nobody outdated meets the status its handler read.          *)
LEMMA FreshWrite ==
  ASSUME TypeInv, ReadsFit, NEW q \in Requests, ApiWrites(q), req[q].run \notin stale', Exists(req[q].run)
  PROVE  /\ row[req[q].run].status = req[q].seen.status
         /\ row[req[q].run].clouds = req[q].seen.clouds
         /\ ApiRewrites(q)
  BY DEF ApiWrites, MovedOn

(* What people ask for keeps every run in one hand.                         *)
LEMMA ApiOwned ==
  ASSUME TypeInv, Owned, ReadsFit, OpsFit, NEW q \in Requests,
         ReadFor(q) \/ ClaimStart(q) \/ ApiWrite(q) \/ ApiCrash(q)
  PROVE  Owned'
  <1>1. row \in [Runs -> Row] /\ exec \in [Executions -> Exec] /\ req[q] \in ReqState
    BY DEF TypeInv, TypeOK
  <1>2. /\ UNCHANGED <<now, reaping, due, standing>>
        /\ \A p \in Requests \ {q} : req'[p] = req[p]
        /\ req[q].pc \notin {"idle", "done"} => req[q].run \in Runs
        /\ \/ ApiReads(q) \/ ApiClaims(q) \/ ApiWrites(q) \/ ApiReprovisions(q)
           \/ ApiTriggers(q) \/ ApiRollsBack(q) \/ ApiDies(q)
    BY ApiMoves
  <1>3. \A r \in Runs : TearsKept(r)
    BY <1>2 DEF TearsKept, reaping, Lists, TearingDown, Meets, Step, Cur
  <1>4. DoneReq.pc = "done"
    BY DEF DoneReq
  (* Runs that the step does not write.                                       *)
  <1>5. ASSUME NEW r \in Runs, r \notin stale, HandsKept(r), row'[r] = row[r]
        PROVE  OneHand(r)' /\ GoingDown(r)'
    BY <1>3, <1>5, KeptIsOwned DEF Owned
  <1>6. ASSUME NEW r \in Runs, UNCHANGED exec, Calls(q, r)' => Calls(q, r)
        PROVE  HandsKept(r)
    BY <1>2, <1>6 DEF HandsKept, Calls, Holds, RunOf, At
  <1>7. CASE ApiReads(q) \/ ApiDies(q)
    <2> SUFFICES ASSUME NEW r \in Runs \ stale' PROVE OneHand(r)' /\ GoingDown(r)'
      BY DEF Owned
    <2>1. UNCHANGED <<row, exec, stale>> /\ req'[q].pc \in {"write", "done"}
      <3>1. CASE ApiReads(q)
        <4>1. PICK o, p, s, w : req'[q] = [pc |-> "write", op |-> o, run |-> p, seen |-> s, want |-> w]
          BY <3>1 DEF ApiReads
        <4> QED
          BY <3>1, <4>1 DEF ApiReads
      <3>2. CASE ApiDies(q)
        BY <1>4, <3>2 DEF ApiDies
      <3> QED
        BY <1>7, <3>1, <3>2
    <2>2. HandsKept(r)
      BY <1>6, <2>1 DEF Calls
    <2> QED
      BY <1>5, <2>1, <2>2
  (* A claim: the row is taken up, and the request holds it.                  *)
  <1>8. ASSUME NEW p \in Runs, OnlyWrites(p), UNCHANGED <<exec, stale>>,
               row[p].status \in {"scheduled", "failed", "ready"},
               row'[p] = [row[p] EXCEPT !.status = "requested"],
               req[q].pc \notin {"trigger", "rollback"},
               req'[q].run = p, req'[q].pc = "trigger"
        PROVE  Owned'
    <2> SUFFICES ASSUME NEW r \in Runs \ stale' PROVE OneHand(r)' /\ GoingDown(r)'
      BY DEF Owned
    <2>1. r \notin stale /\ OneHand(r) /\ GoingDown(r)
      BY <1>8 DEF Owned
    <2>2. CASE r = p
      <3>1. /\ row'[r].status = "requested" /\ row'[r].del = row[r].del
            /\ row'[r].claimed = row[r].claimed
        BY <1>1, <1>8, <2>2 DEF Row
      <3>2. GoingDown(r)'
        BY <1>3, <1>8, <2>1, <2>2, <3>1, UpIsNotDown DEF Down, NoRow
      <3>3. /\ r \notin due /\ (\A o \in Requests : ~Calls(o, r)) /\ (\A e \in Executions : ~Holds(e, r))
        BY <1>8, <2>1, <2>2, NoHands DEF InFlight
      <3>4. OneHand(r)'
        BY <1>2, <1>8, <3>1, <3>3 DEF OneHand, Calls, Holds, RunOf
      <3> QED
        BY <3>2, <3>4
    <2>3. CASE r # p
      <3>1. HandsKept(r)
        BY <1>2, <1>8, <2>3 DEF HandsKept, Calls, Holds, RunOf, At
      <3> QED
        BY <1>5, <1>8, <2>1, <2>3, <3>1 DEF OnlyWrites, OthersKept
    <2> QED
      BY <2>2, <2>3
  <1>9. CASE ApiClaims(q)
    <2>1. PICK p \in Runs, op \in {"startNow", "retry"} :
            /\ row[p].status = ClaimFrom(op)
            /\ row'[p] = [row[p] EXCEPT !.status = "requested"]
            /\ OnlyWrites(p)
            /\ req'[q] = [IdleReq EXCEPT !.pc = "trigger", !.op = op, !.run = p]
      BY <1>9 DEF ApiClaims
    <2>2. req'[q].run = p /\ req'[q].pc = "trigger" /\ row[p].status \in {"scheduled", "failed"}
      BY <2>1 DEF IdleReq, ClaimFrom
    <2> QED
      BY <1>8, <1>9, <2>1, <2>2 DEF ApiClaims
  <1>10. CASE ApiReprovisions(q)
    <2>1. PICK p \in Runs : p = req[q].run
      BY <1>2, <1>10 DEF ApiReprovisions
    <2>2. CASE row[p].status = "ready"
      <3>1. req'[q].run = p /\ req'[q].pc = "trigger"
        BY <1>1, <1>10, <2>1, <2>2 DEF ApiReprovisions, ReqState
      <3> QED
        BY <1>8, <1>10, <2>1, <2>2, <3>1 DEF ApiReprovisions
    <2>3. CASE row[p].status # "ready"
      <3> SUFFICES ASSUME NEW r \in Runs \ stale' PROVE OneHand(r)' /\ GoingDown(r)'
        BY DEF Owned
      <3>1. HandsKept(r) /\ r \notin stale /\ row'[r] = row[r]
        BY <1>4, <1>6, <1>10, <2>1, <2>3 DEF ApiReprovisions, OnlyWrites, OthersKept, Calls
      <3> QED
        BY <1>5, <3>1
    <2> QED
      BY <2>2, <2>3
  <1>11. CASE ApiWrites(q)
    <2>1. PICK p \in Runs : p = req[q].run
      BY <1>2, <1>11 DEF ApiWrites
    <2>2. req'[q].pc \in {"done", "reprovision"} /\ UNCHANGED exec /\ OnlyWrites(p) /\ req[q].pc = "write"
      BY <1>1, <1>4, <1>11, <2>1 DEF ApiWrites, ReqState
    <2> SUFFICES ASSUME NEW r \in Runs \ stale' PROVE OneHand(r)' /\ GoingDown(r)'
      BY DEF Owned
    <2>3. HandsKept(r) /\ r \notin stale
      BY <1>6, <2>2 DEF Calls, OnlyWrites
    <2>4. OneHand(r) /\ GoingDown(r)
      BY <2>3 DEF Owned
    <2>5. CASE r # p \/ ~Exists(r)
      <3>1. row'[r] = row[r]
        BY <1>11, <2>1, <2>2, <2>5 DEF ApiWrites, OnlyWrites, OthersKept
      <3> QED
        BY <1>5, <2>3, <3>1
    <2>6. CASE r = p /\ Exists(r)
      <3>1. /\ row[r].status = req[q].seen.status /\ ApiRewrites(q) /\ row[r] \in Row
            /\ row[r].status \notin NoRow
        BY <1>1, <1>11, <2>1, <2>6, FreshWrite DEF Exists
      <3>2. CASE req[q].op \in {"extend", "end", "update"}
        <4>1. /\ row'[r].status = row[r].status /\ row'[r].del = row[r].del
              /\ row'[r].claimed = row[r].claimed
          BY <2>1, <2>6, <3>1, <3>2 DEF ApiRewrites, Row
        <4> QED
          BY <1>3, <2>3, <2>4, <4>1, KeptIsOwned
      <3>3. CASE req[q].op \in {"delete", "retryTeardown"}
        <4>1. row[r].status \notin InFlight
          BY <2>2, <3>1, <3>3 DEF ReadsFit, InFlight
        <4>2. OneHand(r)'
          BY <2>3, <2>4, <4>1, NoHands DEF OneHand, HandsKept
        <4>3. CASE row'[r] = Deleted /\ row[r].status \in {"scheduled", "destroyed"}
          <5>1. /\ row'[r].status = "deleted" /\ ~row'[r].del /\ ~row'[r].claimed
            BY <4>3 DEF Deleted, Unbooked
          <5>2. GoingDown(r)'
            BY <1>3, <2>4, <4>3, <5>1 DEF GoingDown, TearsKept, ListedFits
          <5> QED
            BY <4>2, <5>2
        <4>4. CASE /\ row'[r].status = "destroying" /\ ~row'[r].claimed
                   /\ row[r].del => row'[r].del
          <5>1. GoingDown(r)'
            BY <1>3, <2>4, <3>1, <4>4 DEF GoingDown, TearsKept, ListedFits, Down, NoRow
          <5> QED
            BY <4>2, <5>1
        <4>5. \/ row'[r] = Deleted /\ row[r].status \in {"scheduled", "destroyed"}
              \/ row'[r] \in {DestroyReset(row[r]), [DestroyReset(row[r]) EXCEPT !.del = TRUE]}
          BY <2>1, <2>6, <3>1, <3>3 DEF ApiRewrites
        <4> QED
          BY <3>1, <4>3, <4>4, <4>5 DEF DestroyReset, Row
      <3> QED
        BY <3>1, <3>2, <3>3 DEF ApiRewrites
    <2> QED
      BY <2>5, <2>6
  <1>12. CASE ApiTriggers(q)
    <2>1. PICK p \in Runs : p = req[q].run
      BY <1>2, <1>12 DEF ApiTriggers
    <2>2. UNCHANGED row /\ OnlyWrites(p) /\ Calls(q, p)
      BY <1>12, <2>1 DEF ApiTriggers, Calls
    <2> SUFFICES ASSUME NEW r \in Runs \ stale' PROVE OneHand(r)' /\ GoingDown(r)'
      BY DEF Owned
    <2>3. r \notin stale /\ OneHand(r) /\ GoingDown(r)
      BY <2>2 DEF OnlyWrites, Owned
    <2>4. CASE r = p
      <3>1. CASE UNCHANGED exec
        <4>1. HandsKept(r)
          BY <1>6, <2>2, <2>4, <3>1
        <4> QED
          BY <1>5, <2>2, <2>3, <4>1
      <3>2. CASE ~UNCHANGED exec
        <4>1. PICK e \in Executions : Queues(e, p) /\ req'[q] = DoneReq
          BY <1>12, <2>1, <2>4, <3>2 DEF ApiTriggers
        <4>2. exec'[e].pc = "queued" /\ exec'[e].run = p /\ \A d \in Executions \ {e} : exec'[d] = exec[d]
          BY <1>1, <4>1 DEF Queues, Exec
        <4>3. /\ row[r].status = "requested" /\ r \notin due
              /\ \A o \in Requests : Calls(o, r) => o = q
              /\ \A d \in Executions : ~Holds(d, r)
          BY <2>2, <2>3, <2>4 DEF OneHand
        <4>4. OneHand(r)'
          BY <1>2, <1>4, <2>2, <2>4, <4>1, <4>2, <4>3 DEF OneHand, Calls, Holds, RunOf, At
        <4>5. GoingDown(r)'
          BY <1>3, <2>2, <2>3 DEF GoingDown, TearsKept, ListedFits
        <4> QED
          BY <4>4, <4>5
      <3> QED
        BY <3>1, <3>2
    <2>5. CASE r # p
      <3>1. ~Calls(q, r)'
        BY <1>1, <1>4, <1>12, <2>1, <2>5 DEF ApiTriggers, Calls, ReqState
      <3>2. \A e \in Executions : Holds(e, r)' => Holds(e, r) /\ (At(e, "queued")' <=> At(e, "queued"))
        <4>1. CASE UNCHANGED exec
          BY <4>1 DEF Holds, RunOf, At
        <4>2. CASE \E e \in Executions : Queues(e, p)
          <5>1. PICK e \in Executions : Queues(e, p)
            BY <4>2
          <5>2. exec'[e].run = p /\ \A d \in Executions \ {e} : exec'[d] = exec[d]
            BY <1>1, <5>1 DEF Queues, Exec
          <5> QED
            BY <2>5, <5>2 DEF Holds, RunOf, At
        <4> QED
          BY <1>12, <2>1, <4>1, <4>2 DEF ApiTriggers
      <3>3. HandsKept(r)
        BY <1>2, <3>1, <3>2 DEF HandsKept, Calls
      <3> QED
        BY <1>5, <2>2, <2>3, <3>3
    <2> QED
      BY <2>4, <2>5
  <1>13. CASE ApiRollsBack(q)
    <2>1. PICK p \in Runs : p = req[q].run
      BY <1>2, <1>13 DEF ApiRollsBack
    <2>2. UNCHANGED exec /\ OnlyWrites(p) /\ Calls(q, p) /\ req'[q] = DoneReq
      BY <1>13, <2>1 DEF ApiRollsBack, Calls
    <2> SUFFICES ASSUME NEW r \in Runs \ stale' PROVE OneHand(r)' /\ GoingDown(r)'
      BY DEF Owned
    <2>3. r \notin stale /\ OneHand(r) /\ GoingDown(r) /\ HandsKept(r)
      BY <1>4, <1>6, <2>2 DEF OnlyWrites, Owned, Calls
    <2>4. CASE r = p
      <3>1. /\ row[r].status = "requested" /\ r \notin due
            /\ \A o \in Requests : Calls(o, r) => o = q
            /\ \A d \in Executions : ~Holds(d, r)
        BY <2>2, <2>3, <2>4 DEF OneHand
      <3>2. /\ row'[r].status \in {"ready", "scheduled", "failed"} /\ row'[r].del = row[r].del
            /\ row'[r].claimed = row[r].claimed
        BY <1>1, <1>13, <2>1, <2>4, <3>1 DEF ApiRollsBack, ClaimFrom, Exists, NoRow, Row
      <3>3. GoingDown(r)'
        BY <1>3, <2>3, <3>1, <3>2, UpIsNotDown DEF Down, NoRow
      <3>4. OneHand(r)'
        BY <1>4, <2>2, <2>3, <3>1 DEF OneHand, HandsKept, Calls
      <3> QED
        BY <3>3, <3>4
    <2>5. CASE r # p
      BY <1>5, <2>2, <2>3, <2>5 DEF OnlyWrites, OthersKept
    <2> QED
      BY <2>4, <2>5
  <1> QED
    BY <1>2, <1>7, <1>9, <1>10, <1>11, <1>12, <1>13

(* A booking makes a row nobody has heard of.                               *)
LEMMA BookingOwned ==
  ASSUME TypeInv, Owned, NEW p \in Runs, CreateScheduledRun(p)
  PROVE  Owned'
  <1>1. /\ row[p].status = "unbooked" /\ row \in [Runs -> Row]
        /\ UNCHANGED <<reaping, exec, req, due, stale>>
    BY DEF CreateScheduledRun, apiFrame, history, TypeInv, TypeOK
  <1>2. PICK w : /\ w.status = "scheduled" /\ ~w.del /\ ~w.claimed
                 /\ row' = [row EXCEPT ![p] = w]
    BY DEF CreateScheduledRun, Unbooked
  <1> SUFFICES ASSUME NEW r \in Runs \ stale' PROVE OneHand(r)' /\ GoingDown(r)'
    BY DEF Owned
  <1>3. r \notin stale /\ OneHand(r) /\ GoingDown(r)
    BY <1>1 DEF Owned
  <1>4. HandsKept(r) /\ TearsKept(r)
    BY <1>1 DEF HandsKept, TearsKept, reaping, Calls, Holds, RunOf, At, Lists, TearingDown, Meets, Step, Cur
  <1>5. CASE r = p
    <2>1. /\ row'[r].status = "scheduled" /\ ~row'[r].del /\ ~row'[r].claimed
          /\ row[r].status = "unbooked"
      BY <1>1, <1>2, <1>5
    <2>2. OneHand(r)'
      BY <1>3, <1>4, <2>1, NoHands DEF OneHand, HandsKept, InFlight
    <2>3. GoingDown(r)'
      BY <1>3, <1>4, <2>1 DEF GoingDown, TearsKept, ListedFits
    <2> QED
      BY <2>2, <2>3
  <1>6. CASE r # p
    <2>1. row'[r] = row[r]
      BY <1>1, <1>2, <1>6
    <2> QED
      BY <1>3, <1>4, <2>1, KeptIsOwned
  <1> QED
    BY <1>5, <1>6

(* Two executions are never at one run between its claim and its release.   *)
LEMMA OneReaper ==
  ASSUME LockHeld, NEW x \in Reapers, NEW y \in Reapers, NEW r,
         Cur(x) = r, Step(x) \in LockedSteps, Cur(y) = r, Step(y) \in LockedSteps
  PROVE  x = y
  BY DEF LockHeld

(* At a run, an execution keeps the run and the rest of its list.           *)
LEMMA ReaperStays ==
  ASSUME TypeInv, NEW x \in Reapers, ReaperClaims(x) \/ ReaperWorks(x)
  PROVE  /\ reaper'[x].cur = Cur(x)
         /\ reaper'[x].todo = reaper[x].todo
         /\ reaper'[x].listed = reaper[x].listed
  <1>1. reaper[x] \in ReaperState
    BY DEF TypeInv, TypeOK
  <1>2. CASE ReaperClaims(x)
    BY <1>1, <1>2 DEF ReaperClaims, ReaperState, Cur
  <1>3. CASE ReaperWorks(x)
    <2>1. \/ \E pc : Goes(x, pc)
          \/ \E clears : reaper'[x] = [reaper[x] EXCEPT !.pc = "threw", !.clears = clears]
          \/ \E units, pc : reaper'[x] = [reaper[x] EXCEPT !.units = units, !.pc = pc]
      BY <1>3 DEF ReaperWorks
    <2> QED
      BY <1>1, <2>1 DEF Goes, ReaperState, Cur
  <1> QED
    BY <1>2, <1>3

(* What a reaper may hold of a run once its step is over, whichever it is.  *)
LEMMA ReaperOwned ==
  ASSUME TypeInv, LockHeld, Owned, NEW x \in Reapers,
         ReaperStep(x) \/ ReaperThrow(x) \/ ReaperCrash(x)
  PROVE  Owned'
  <1>1. /\ row \in [Runs -> Row] /\ reaper \in [Reapers -> ReaperState] /\ reaper[x] \in ReaperState
        /\ Null \notin Runs
    BY ConstantsAssumption DEF TypeInv, TypeOK
  <1>2. /\ UNCHANGED <<exec, req, due>> /\ stale \subseteq stale'
        /\ \A y \in Reapers \ {x} : reaper'[y] = reaper[y]
        /\ \A q \in Runs \ {Cur(x)} : row'[q] = row[q]
        /\ \/ ReaperBrowses(x) \/ ReaperStops(x)
           \/ Cur(x) \in Runs /\ (ReaperClaims(x) \/ ReaperWorks(x) \/ ReaperLeaves(x))
    BY ReaperMoves DEF OthersSpared, ReaperBrowses, ReaperStops, ReaperClaims, ReaperWorks, ReaperLeaves
  <1> SUFFICES ASSUME NEW r \in Runs \ stale' PROVE OneHand(r)' /\ GoingDown(r)'
    BY DEF Owned
  <1>3. r \notin stale /\ OneHand(r) /\ GoingDown(r) /\ row[r] \in Row
    BY <1>1, <1>2 DEF Owned
  <1>4. HandsKept(r)
    BY <1>2 DEF HandsKept, Calls, Holds, RunOf, At
  (* What the other executions are at is as it was.                          *)
  <1>5. \A y \in Reapers \ {x} : /\ Lists(y, r)' <=> Lists(y, r)
                                 /\ reaper'[y].listed[r] = reaper[y].listed[r]
                                 /\ TearingDown(y, r)' <=> TearingDown(y, r)
                                 /\ Meets(y, r)' <=> Meets(y, r)
    BY <1>2 DEF Lists, TearingDown, Meets, Step, Cur
  (* A step that changes nothing of the row, and at most moves x on.         *)
  <1>6. ASSUME row'[r] = row[r],
               Lists(x, r)' => Lists(x, r) /\ reaper'[x].listed[r] = reaper[x].listed[r],
               TearingDown(x, r)' => TearingDown(x, r),
               Meets(x, r)' => Meets(x, r) \/ row[r].status \in {"destroying", "deleted"}
        PROVE  OneHand(r)' /\ GoingDown(r)'
    <2>1. OneHand(r)'
      BY <1>3, <1>4, <1>6 DEF OneHand, HandsKept
    <2>2. GoingDown(r)'
      BY <1>3, <1>5, <1>6 DEF GoingDown, ListedFits
    <2> QED
      BY <2>1, <2>2
  (* x is done with the run it was at, and keeps the rest of its list.       *)
  <1>7. ASSUME reaper'[x] \in {Finished(x), IdleReaper}
        PROVE  /\ Lists(x, r)' => r \in reaper[x].todo /\ reaper'[x].listed[r] = reaper[x].listed[r]
               /\ ~TearingDown(x, r)' /\ ~Meets(x, r)'
    <2>1. /\ reaper'[x].cur = Null /\ reaper'[x].pc \in {"idle", "scan"}
          /\ \/ reaper'[x].todo = {}
             \/ reaper'[x].todo = reaper[x].todo
                /\ (r \in reaper[x].todo => reaper'[x].listed[r] = reaper[x].listed[r])
      <3>1. CASE reaper'[x] = IdleReaper
        BY <3>1 DEF IdleReaper
      <3>2. CASE reaper'[x] = Finished(x)
        <4>1. /\ reaper'[x].cur = Null /\ reaper'[x].pc \in {"idle", "scan"}
              /\ reaper'[x].todo = reaper[x].todo
              /\ reaper'[x].listed = [p \in Runs |-> IF p \in reaper[x].todo
                                                     THEN reaper[x].listed[p] ELSE Blank]
          BY <3>2 DEF Finished, IdleReaper
        <4> QED
          BY <4>1
      <3> QED
        BY <1>7, <3>1, <3>2
    <2> QED
      BY <1>1, <2>1 DEF Lists, TearingDown, Meets, Step, Cur
  <1>8. CASE ReaperBrowses(x)
    <2>1. UNCHANGED row
      BY <1>8 DEF ReaperBrowses
    (* Listing: a run due for teardown is past every other hand.              *)
    <2>2. CASE reaper'[x] =
                 [IdleReaper EXCEPT !.pc = "scan", !.todo = {p \in Runs : Reapable(row[p])},
                    !.listed = [p \in Runs |-> IF Reapable(row[p]) THEN Glimpse(row[p]) ELSE Blank]]
      <3>1. /\ reaper'[x].cur = Null /\ reaper'[x].pc = "scan"
            /\ r \in reaper'[x].todo => Reapable(row[r]) /\ reaper'[x].listed[r].status = row[r].status
        BY <2>2 DEF IdleReaper, Glimpse
      <3>2. ~TearingDown(x, r)' /\ ~Meets(x, r)' /\ (Lists(x, r)' => r \in reaper'[x].todo)
        BY <1>1, <3>1 DEF TearingDown, Meets, Lists, Step, Cur
      <3>3. Reapable(row[r]) => /\ row[r].status \in {"ready", "destroying", "destroyed"}
                                /\ row[r].status = "destroyed" => row[r].del
        BY <1>3 DEF Reapable, GoingDown, Down
      <3>4. OneHand(r)'
        BY <1>3, <1>4, <2>1 DEF OneHand, HandsKept
      <3>5. \A y \in Reapers : Lists(y, r)' => ListedFits(y, r)'
        BY <1>3, <1>5, <2>1, <3>1, <3>2, <3>3 DEF GoingDown, ListedFits, Down
      <3>6. GoingDown(r)'
        BY <1>3, <1>5, <2>1, <3>2, <3>5 DEF GoingDown
      <3> QED
        BY <3>4, <3>6
    (* Taking the next run off the list.                                      *)
    <2>3. CASE /\ Step(x) = "scan"
               /\ \E p \in reaper[x].todo :
                    reaper'[x] = [reaper[x] EXCEPT !.pc = "claim", !.cur = p, !.todo = @ \ {p}]
      <3>1. PICK p \in reaper[x].todo :
                   reaper'[x] = [reaper[x] EXCEPT !.pc = "claim", !.cur = p, !.todo = @ \ {p}]
        BY <2>3
      <3>2. /\ reaper'[x].pc = "claim" /\ reaper'[x].cur = p /\ reaper'[x].todo \subseteq reaper[x].todo
            /\ reaper'[x].listed = reaper[x].listed
        BY <1>1, <3>1 DEF ReaperState
      <3> QED
        BY <1>6, <2>1, <3>2 DEF Lists, TearingDown, Meets, Step, Cur, TeardownSteps
    (* Passing over a locked run.                                             *)
    <2>4. CASE /\ Step(x) = "scan"
               /\ \E p \in reaper[x].todo :
                    reaper'[x] = [reaper[x] EXCEPT !.todo = @ \ {p}, !.listed[p] = Blank,
                                    !.pc = IF reaper[x].todo \ {p} = {} THEN "idle" ELSE "scan"]
      <3>1. PICK p \in reaper[x].todo :
                   reaper'[x] = [reaper[x] EXCEPT !.todo = @ \ {p}, !.listed[p] = Blank,
                                    !.pc = IF reaper[x].todo \ {p} = {} THEN "idle" ELSE "scan"]
        BY <2>4
      <3>2. /\ reaper'[x].pc \in {"idle", "scan"} /\ reaper'[x].todo = reaper[x].todo \ {p}
            /\ r # p => reaper'[x].listed[r] = reaper[x].listed[r]
        BY <1>1, <3>1 DEF ReaperState
      <3> QED
        BY <1>6, <2>1, <3>2 DEF Lists, TearingDown, Meets, Step, Cur, TeardownSteps, LockedSteps
    <2> QED
      BY <1>8, <2>2, <2>3, <2>4 DEF ReaperBrowses
  <1>9. CASE ReaperStops(x)
    <2>1. UNCHANGED row /\ reaper'[x].todo = {} /\ reaper'[x].cur = Null
      BY <1>9 DEF ReaperStops, IdleReaper
    <2> QED
      BY <1>1, <1>6, <2>1 DEF Lists, TearingDown, Meets, Step, Cur
  (* At a run other than r, the step changes the hold on r in no way.        *)
  <1>10. ASSUME Cur(x) \in Runs, Cur(x) # r, ReaperClaims(x) \/ ReaperWorks(x) \/ ReaperLeaves(x)
         PROVE  OneHand(r)' /\ GoingDown(r)'
    <2>1. \/ reaper'[x].cur = Cur(x) /\ reaper'[x].todo = reaper[x].todo /\ reaper'[x].listed = reaper[x].listed
          \/ reaper'[x] \in {Finished(x), IdleReaper}
      BY <1>10, ReaperStays DEF ReaperLeaves
    <2>2. row'[r] = row[r]
      BY <1>2, <1>10
    <2>3. CASE reaper'[x].cur = Cur(x) /\ reaper'[x].todo = reaper[x].todo /\ reaper'[x].listed = reaper[x].listed
      BY <1>6, <1>10, <2>2, <2>3 DEF Lists, TearingDown, Meets, Step, Cur
    <2>4. CASE reaper'[x] \in {Finished(x), IdleReaper}
      BY <1>6, <1>7, <2>2, <2>4 DEF Lists
    <2> QED
      BY <2>1, <2>3, <2>4
  (* At r: nobody else is, and r is in no hand that brings it up.            *)
  <1>11. ASSUME Cur(x) = r, Step(x) \in LockedSteps
         PROVE  /\ \A y \in Reapers \ {x} : ~TearingDown(y, r) /\ ~Meets(y, r)
                /\ ListedFits(x, r)
    BY <1>3, <1>11, OneReaper DEF TearingDown, Meets, LockedSteps, TeardownSteps, GoingDown, Lists
  <1>12. CASE Cur(x) = r /\ ReaperClaims(x)
    <2>1. /\ Step(x) = "claim" /\ row'[r] = SetDestroyClaim(row[r])
          /\ ~MovedOn(r, reaper[x].listed[r])
      BY <1>12 DEF ReaperClaims, Seen
    <2>2. ListedFits(x, r) /\ row[r].status = reaper[x].listed[r].status
      BY <1>11, <1>12, <2>1 DEF LockedSteps, MovedOn
    <2>3. OneHand(r)'
      BY <1>3, <1>4, <2>2, NoHands DEF OneHand, HandsKept, ListedFits, InFlight
    <2>4. row'[r].status = "destroying" /\ row'[r].del = row[r].del
      BY <1>3, <2>1 DEF SetDestroyClaim, Row
    <2>5. \A y \in Reapers : Lists(y, r)' => Lists(y, r) /\ reaper'[y].listed[r] = reaper[y].listed[r]
      <3>1. reaper'[x].todo = reaper[x].todo /\ reaper'[x].listed = reaper[x].listed
        BY <1>1, <1>12 DEF ReaperClaims, ReaperState
      <3> QED
        BY <1>5, <1>12, <2>1, <3>1 DEF Lists, LockedSteps, Step, Cur
    <2>6. row[r].status \in {"ready", "destroying", "destroyed"}
      BY <2>2 DEF ListedFits
    <2>7. \A y \in Reapers : Lists(y, r)' => ListedFits(y, r)'
      BY <1>3, <2>4, <2>5, <2>6 DEF GoingDown, ListedFits, Down
    <2>8. GoingDown(r)'
      BY <2>4, <2>7 DEF GoingDown, Down
    <2> QED
      BY <2>3, <2>8
  <1>13. CASE Cur(x) = r /\ ReaperWorks(x)
    <2>1. row'[r] = row[r]
      BY <1>13 DEF ReaperWorks
    <2>2. /\ reaper'[x].cur = r /\ reaper'[x].todo = reaper[x].todo /\ reaper'[x].listed = reaper[x].listed
          /\ \/ Step(x) = "claim" /\ ~(Exists(r) /\ ~row[r].claimed) /\ reaper'[x].pc = "abandoned"
             \/ Step(x) \in TeardownSteps /\ reaper'[x].pc \in TeardownSteps \cup {"threw"}
      <3>1. CASE Step(x) = "claim"
        BY <1>1, <1>13, <3>1 DEF ReaperWorks, Goes, ReaperState, TeardownSteps, Cur
      <3>2. CASE Step(x) \in TeardownSteps /\ \E c : reaper'[x] = [reaper[x] EXCEPT !.pc = "threw", !.clears = c]
        BY <1>1, <1>13, <3>2 DEF ReaperState, Cur
      <3>3. CASE /\ Step(x) = "clouds"
                 /\ \E u : reaper'[x] = [reaper[x] EXCEPT !.units = @ \ {u},
                                !.pc = IF reaper[x].units = {u} THEN "harness" ELSE "clouds"]
        BY <1>1, <1>13, <3>3 DEF ReaperState, TeardownSteps, Cur
      <3>4. CASE Step(x) \in TeardownSteps /\ \E pc \in TeardownSteps : Goes(x, pc)
        BY <1>1, <1>13, <3>4 DEF Goes, ReaperState, Cur
      <3>5. \/ Step(x) = "claim"
            \/ Step(x) \in TeardownSteps /\ \E c : reaper'[x] = [reaper[x] EXCEPT !.pc = "threw", !.clears = c]
            \/ /\ Step(x) = "clouds"
               /\ \E u : reaper'[x] = [reaper[x] EXCEPT !.units = @ \ {u},
                                !.pc = IF reaper[x].units = {u} THEN "harness" ELSE "clouds"]
            \/ Step(x) \in TeardownSteps /\ \E pc \in TeardownSteps : Goes(x, pc)
        BY <1>13 DEF ReaperWorks, TeardownSteps
      <3> QED
        BY <3>1, <3>2, <3>3, <3>4, <3>5
    <2>3. Step(x) = "claim" => ListedFits(x, r)
      BY <1>11, <1>13 DEF LockedSteps
    <2>4. Step(x) = "claim" => row[r].status \in {"destroying", "deleted"} \/ Step(x) # "claim"
      BY <1>3, <2>2, <2>3 DEF ListedFits, GoingDown, Exists, NoRow, TeardownSteps
    <2>5. Step(x) \in LockedSteps
      BY <2>2 DEF LockedSteps
    <2>6. Lists(x, r)
      BY <1>13, <2>5 DEF Lists
    <2>7. TearingDown(x, r)' => TearingDown(x, r)
      BY <1>13, <2>2 DEF TearingDown, Step, Cur, TeardownSteps
    <2>8. Meets(x, r)' => row[r].status \in {"destroying", "deleted"}
      BY <1>13, <2>2, <2>4 DEF Meets, Step, Cur, TeardownSteps
    <2> QED
      BY <1>6, <2>1, <2>2, <2>6, <2>7, <2>8
  <1>14. CASE Cur(x) = r /\ ReaperLeaves(x)
    <2>1. /\ Step(x) \in {"abandoned", "finish", "mark", "threw"}
          /\ reaper'[x] \in {Finished(x), IdleReaper}
      BY <1>14 DEF ReaperLeaves
    <2>2. row[r].status \in {"destroying", "deleted"}
      BY <1>3, <1>14, <2>1 DEF GoingDown, TearingDown, Meets, TeardownSteps
    <2>3. \/ row'[r] = row[r] /\ ~Exists(r)
          \/ row'[r] = Deleted
          \/ Exists(r) /\ row'[r] \in {SetDestroyFailed(row[r]), SetDestroyed(row[r]),
                                       SetDestroyRetry(row[r])}
      BY <1>14 DEF ReaperLeaves
    <2>4. /\ row'[r].status \in Down \cup {"deleted"} /\ ~row'[r].claimed
          /\ row'[r].status = "deleted" => ~row'[r].del
          /\ row'[r].status # "deleted" => row'[r].del = row[r].del /\ row[r].status # "deleted"
      <3>1. CASE row'[r] = row[r] /\ ~Exists(r)
        BY <1>3, <2>2, <3>1 DEF Exists, NoRow, GoingDown, Down
      <3>2. CASE row'[r] = Deleted
        BY <3>2 DEF Deleted, Unbooked
      <3>3. CASE Exists(r) /\ row'[r] \in {SetDestroyFailed(row[r]), SetDestroyed(row[r]),
                                           SetDestroyRetry(row[r])}
        <4>1. row[r].status = "destroying"
          BY <2>2, <3>3 DEF Exists, NoRow
        <4>2. /\ row'[r].del = row[r].del /\ row'[r].claimed = FALSE
              /\ row'[r].status \in {"destroying", "destroy_failed", "destroyed"}
          BY <1>3, <3>3 DEF SetDestroyFailed, SetDestroyed, SetDestroyRetry, Row
        <4> QED
          BY <4>1, <4>2 DEF Down
      <3> QED
        BY <2>3, <3>1, <3>2, <3>3
    <2>5. OneHand(r)'
      BY <1>3, <1>4, <2>2, NoHands DEF OneHand, HandsKept, InFlight
    <2>6. Step(x) \in LockedSteps
      BY <2>1 DEF LockedSteps, TeardownSteps
    <2>7. \A y \in Reapers : ~TearingDown(y, r)' /\ ~Meets(y, r)'
      BY <1>5, <1>7, <1>11, <1>14, <2>1, <2>6
    <2>8. \A y \in Reapers : Lists(y, r)' => Lists(y, r) /\ reaper'[y].listed[r] = reaper[y].listed[r]
      BY <1>5, <1>7, <2>1 DEF Lists
    <2>9. \A y \in Reapers : Lists(y, r)' => ListedFits(y, r)'
      BY <1>3, <2>2, <2>4, <2>8 DEF GoingDown, ListedFits, Down
    <2>10. GoingDown(r)'
      BY <2>4, <2>7, <2>9 DEF GoingDown, Down
    <2> QED
      BY <2>5, <2>10
  <1> QED
    BY <1>2, <1>8, <1>9, <1>10, <1>12, <1>13, <1>14

(* Hands, listings and teardowns stay as Owned says, at every step.         *)
LEMMA OwnedInvariance == Spec => [](ReadsFit /\ Owned)
  <1>1. Init => ReadsFit /\ Owned
    BY ConstantsAssumption
    DEF Init, ReadsFit, Owned, OneHand, GoingDown, Calls, Holds, RunOf, Lists, TearingDown, Meets, Step, Cur,
        Unbooked, IdleExec, IdleReq, IdleReaper, LockedSteps, TeardownSteps, BuildSteps
  <1>2. TypeInv /\ LockHeld /\ OpsFit /\ ReadsFit /\ Owned /\ [Next]_vars => ReadsFit' /\ Owned'
    BY ReadsStayFit, RunnerOwned, SchedulerOwned, ApiOwned, BookingOwned, ReaperOwned
    DEF Next, RunnerNext, ApiNext, ReaperNext
  <1>3. ExpiryInv => OpsFit
    BY DEF ExpiryInv
  <1> QED
    BY <1>1, <1>2, <1>3, TypeInvariance, LockInvariance, ExpiryInvariance, PTL DEF Spec

-----------------------------------------------------------------------------
(* What may happen to a run that failed, was flagged, or was torn down.     *)

SettledMoves(r) ==
  \/ row'[r].status = row[r].status
  \/ row'[r].status = "deleted"
  \/ /\ row'[r].status = "destroying" /\ resets'[r] = resets[r] + 1
     /\ row[r].status = "failed" => row'[r].del
  \/ row[r].status = "destroyed" /\ row[r].del
  \/ row[r].status = "failed" /\ row'[r].status = "requested"

LEMMA RequestsMoveSettled ==
  ASSUME TypeInv, Owned, ReadsFit, NEW q \in Requests,
         ReadFor(q) \/ ClaimStart(q) \/ ApiWrite(q) \/ ApiCrash(q),
         NEW r \in Runs \ stale', row[r].status \in {"failed", "destroy_failed", "destroyed"}
  PROVE  SettledMoves(r)
  <1>1. /\ row \in [Runs -> Row]
        /\ req[q].pc \notin {"idle", "done"} => req[q].run \in Runs
        /\ \/ ApiReads(q) \/ ApiClaims(q) \/ ApiWrites(q) \/ ApiReprovisions(q)
           \/ ApiTriggers(q) \/ ApiRollsBack(q) \/ ApiDies(q)
    BY ApiMoves DEF TypeInv, TypeOK
  <1>2. CASE ApiReads(q) \/ ApiTriggers(q) \/ ApiDies(q)
    BY <1>2 DEF ApiReads, ApiTriggers, ApiDies, SettledMoves
  <1>3. CASE ApiClaims(q)
    <2>1. PICK p \in Runs, op \in {"startNow", "retry"} :
            /\ row[p].status = ClaimFrom(op) /\ OnlyWrites(p)
            /\ row'[p] = [row[p] EXCEPT !.status = "requested"]
      BY <1>3 DEF ApiClaims
    <2> QED
      BY <1>1, <2>1 DEF ClaimFrom, OnlyWrites, OthersKept, Row, SettledMoves
  <1>4. CASE ApiReprovisions(q)
    BY <1>1, <1>4 DEF ApiReprovisions, OnlyWrites, OthersKept, SettledMoves
  <1>5. CASE ApiRollsBack(q)
    <2>1. PICK p \in Runs : p = req[q].run /\ OnlyWrites(p) /\ Calls(q, p)
      BY <1>1, <1>5 DEF ApiRollsBack, Calls
    <2>2. r \notin stale
      BY <2>1 DEF OnlyWrites
    <2>3. r # p
      BY <2>1, <2>2 DEF Owned, OneHand
    <2> QED
      BY <2>1, <2>3 DEF OnlyWrites, OthersKept, SettledMoves
  <1>6. CASE ApiWrites(q)
    <2>1. PICK p \in Runs : p = req[q].run /\ OnlyWrites(p) /\ req[q].pc = "write"
      BY <1>1, <1>6 DEF ApiWrites
    <2>2. CASE r # p
      BY <2>1, <2>2 DEF OnlyWrites, OthersKept, SettledMoves
    <2>3. CASE r = p
      <3>1. /\ row[r].status = req[q].seen.status /\ ApiRewrites(q) /\ row[r] \in Row
        BY <1>1, <1>6, <2>1, <2>3, FreshWrite DEF Exists, NoRow
      <3>2. CASE req[q].op \in {"extend", "end", "update"}
        BY <2>1, <2>3, <3>1, <3>2 DEF ApiRewrites, Row, SettledMoves
      <3>3. CASE req[q].op = "delete"
        BY <2>1, <2>3, <3>1, <3>3 DEF ApiRewrites, Row, SettledMoves, Deleted, Unbooked, DestroyReset
      <3>4. CASE req[q].op = "retryTeardown"
        <4>1. row[r].status = "destroy_failed"
          BY <2>1, <3>1, <3>4 DEF ReadsFit
        <4> QED
          BY <2>1, <2>3, <3>1, <3>4, <4>1 DEF ApiRewrites, Row, SettledMoves, DestroyReset
      <3> QED
        BY <3>1, <3>2, <3>3, <3>4 DEF ApiRewrites
    <2> QED
      BY <2>2, <2>3
  <1> QED
    BY <1>1, <1>2, <1>3, <1>4, <1>5, <1>6

LEMMA SettledMove ==
  ASSUME TypeInv, Owned, ReadsFit, [Next]_vars,
         NEW r \in Runs \ stale', row[r].status \in {"failed", "destroy_failed", "destroyed"}
  PROVE  SettledMoves(r)
  <1>1. row \in [Runs -> Row]
    BY DEF TypeInv, TypeOK
  <1>2. r \notin stale => /\ r \notin due /\ (\A e \in Executions : ~Holds(e, r))
                          /\ \A x \in Reapers : ~TearingDown(x, r) /\ ~Meets(x, r)
    BY NoHands DEF Owned, InFlight, GoingDown
  <1>3. row'[r] = row[r] => SettledMoves(r)
    BY DEF SettledMoves
  <1>4. CASE RunnerNext
    <2>1. PICK e \in Executions : RunnerStep(e) \/ RunnerLateVerdict(e) \/ RunnerFail(e) \/ RunnerCrash(e)
      BY <1>4 DEF RunnerNext
    <2>2. /\ OthersKept(RunOf(e)) /\ RunOf(e) \in Runs
          /\ RunnerAdvances(e) \/ RunnerLeaves(e) \/ RunnerConcludes(e)
      BY <2>1, RunnerMoves
    <2>3. CASE RunnerConcludes(e) /\ r = RunOf(e)
      BY <1>3, <2>3, ConcludingKeeps
    <2>4. CASE RunnerAdvances(e) \/ RunnerLeaves(e)
      <3>1. exec[e].pc \in BuildSteps \cup {"queued"} /\ UNCHANGED stale
        BY <2>4, AdvanceStays DEF RunnerAdvances, RunnerLeaves
      <3>2. r # RunOf(e)
        BY <1>2, <3>1 DEF Holds
      <3> QED
        BY <1>3, <2>2, <3>2 DEF OthersKept
    <2> QED
      BY <1>3, <2>2, <2>3, <2>4 DEF OthersKept
  <1>5. CASE SchedulerNext
    <2>1. r \notin stale /\ r \notin due
      BY <1>2, <1>5, SchedulerMoves DEF history
    <2> QED
      BY <1>1, <1>3, <1>5, <2>1, SchedulerMoves
      DEF SchedulerClaims, SchedulerQueues, SchedulerPutsBack, DueToStart
  <1>6. CASE Tick \/ UNCHANGED vars
    BY <1>3, <1>6 DEF Tick, vars, tables
  <1>7. CASE ReaperNext
    <2>1. PICK x \in Reapers : ReaperStep(x) \/ ReaperThrow(x) \/ ReaperCrash(x)
      BY <1>7 DEF ReaperNext
    <2>2. /\ OthersSpared(x)
          /\ \/ ReaperBrowses(x) \/ ReaperStops(x)
             \/ Cur(x) \in Runs /\ (ReaperClaims(x) \/ ReaperWorks(x) \/ ReaperLeaves(x))
      BY <2>1, ReaperMoves
    <2>3. CASE Cur(x) = r /\ ReaperClaims(x)
      <3>1. r \notin stale /\ row[r].status = reaper[x].listed[r].status /\ Lists(x, r)
        BY <2>3 DEF ReaperClaims, Seen, MovedOn, Lists, LockedSteps
      <3>2. row[r].status \in {"ready", "destroying", "destroyed"}
            /\ (row[r].status = "destroyed" => row[r].del)
        BY <3>1 DEF Owned, GoingDown, ListedFits
      <3> QED
        BY <3>2 DEF SettledMoves
    <2>4. CASE Cur(x) = r /\ ReaperLeaves(x)
      <3>1. r \notin stale /\ (TearingDown(x, r) \/ Meets(x, r))
        BY <2>4 DEF ReaperLeaves, TearingDown, Meets, TeardownSteps
      <3> QED
        BY <1>2, <3>1
    <2> QED
      BY <1>3, <2>2, <2>3, <2>4 DEF OthersSpared, ReaperBrowses, ReaperStops, ReaperWorks
  <1>8. CASE ApiNext
    <2>1. ASSUME NEW p \in Runs, CreateScheduledRun(p)
          PROVE  SettledMoves(r)
      BY <1>3, <2>1 DEF CreateScheduledRun
    <2> QED
      BY <1>8, <2>1, RequestsMoveSettled DEF ApiNext
  <1> QED
    BY <1>4, <1>5, <1>6, <1>7, <1>8 DEF Next

(* A failed provision never leads to a teardown on its own, whoever else is *)
(* at work: between the failure and the teardown somebody deleted the run.  *)
THEOREM FailuresKeepTheirClouds == Spec => FailureNeverDestroys
  <1>1. TypeInv /\ Owned /\ ReadsFit /\ [Next]_vars =>
          [\A r \in Runs \ stale' :
             row[r].status = "failed" /\ row'[r].status = "destroying" => row'[r].del]_vars
    BY SettledMove DEF SettledMoves
  <1> QED
    BY <1>1, TypeInvariance, OwnedInvariance, PTL DEF Spec, FailureNeverDestroys

(* A teardown that was flagged, or finished, starts again only for a person. *)
THEOREM SettledIsLeftAlone == Spec => SettledStaysSettled
  <1>1. TypeInv /\ Owned /\ ReadsFit /\ [Next]_vars =>
          [\A r \in Runs \ stale' : row[r].status \in {"destroy_failed", "destroyed"} =>
             \/ row'[r].status \in {row[r].status, "deleted"}
             \/ resets'[r] # resets[r]
             \/ row[r].status = "destroyed" /\ row[r].del]_vars
    <2>1. TypeInv => resets \in [Runs -> Nat]
      BY DEF TypeInv, TypeOK
    <2> QED
      BY <2>1, SettledMove DEF SettledMoves
  <1> QED
    BY <1>1, TypeInvariance, OwnedInvariance, PTL DEF Spec, SettledStaysSettled

-----------------------------------------------------------------------------
(* How often a run is attempted.                                           *)

Settled == {"destroy_failed", "destroyed"}

(* The counter is below its bound wherever a claim may come next.           *)
Bounded(r) == row[r].attempts <= MAX_DESTROY_ATTEMPTS + resets[r]
Spare(r) == row[r].attempts < MAX_DESTROY_ATTEMPTS + resets[r]

AttemptsFit(r) ==
  /\ Bounded(r)
  /\ row[r].status \notin Settled /\ ~row[r].claimed => Spare(r)
  /\ row[r].status = "destroyed" /\ row[r].del => Spare(r)
  /\ \A x \in Reapers : TearingDown(x, r) =>
       /\ reaper[x].attempt = row[r].attempts
       /\ Step(x) = "mark" /\ row[r].del => Spare(r)

AttemptInv == \A r \in Runs \ stale : AttemptsFit(r)

(* What everybody but a reaper does to the counter and the claim: nothing,  *)
(* or a person grants one attempt more, or the row is a fresh one.          *)
CountKept(r) ==
  \/ /\ row'[r].attempts = row[r].attempts
     /\ \/ /\ resets'[r] = resets[r]
           /\ row'[r].status = row[r].status
           /\ row'[r].del = row[r].del /\ row'[r].claimed = row[r].claimed
        \/ /\ resets'[r] = resets[r]
           /\ row[r].status \notin Down /\ row'[r].status \notin Settled
        \/ resets'[r] = resets[r] + 1
  \/ row'[r].attempts = 0 /\ resets'[r] = resets[r] /\ row[r].status # "destroying"

LEMMA CountIsKept ==
  ASSUME TypeInv, TypeInv', NEW r \in Runs, GoingDown(r), AttemptsFit(r), CountKept(r), UNCHANGED reaper
  PROVE  AttemptsFit(r)'
  <1>1. /\ row[r].attempts \in Nat /\ row'[r].attempts \in Nat
        /\ resets[r] \in Nat /\ resets'[r] \in Nat
    BY CapIsNat DEF TypeInv, TypeOK, Row
  <1>2. \A x \in Reapers : TearingDown(x, r)' => TearingDown(x, r) /\ row[r].status = "destroying"
                              /\ reaper'[x] = reaper[x] /\ Step(x)' = Step(x)
    BY DEF TearingDown, Step, Cur, GoingDown
  <1>3. CASE /\ row'[r].attempts = row[r].attempts /\ resets'[r] = resets[r]
             /\ row'[r].status = row[r].status
             /\ row'[r].del = row[r].del /\ row'[r].claimed = row[r].claimed
    BY <1>2, <1>3 DEF AttemptsFit, Bounded, Spare
  <1>4. CASE /\ row'[r].attempts = row[r].attempts /\ resets'[r] = resets[r]
             /\ row[r].status \notin Down /\ row'[r].status \notin Settled
    <2>1. Spare(r)
      BY <1>4 DEF AttemptsFit, GoingDown, Down, Settled
    <2> QED
      BY <1>2, <1>4, <2>1 DEF AttemptsFit, Bounded, Spare, Down
  <1>5. CASE row'[r].attempts = row[r].attempts /\ resets'[r] = resets[r] + 1
    <2>1. Spare(r)'
      BY <1>1, <1>5 DEF AttemptsFit, Bounded, Spare, MAX_DESTROY_ATTEMPTS
    <2>2. Bounded(r)'
      BY <1>1, <1>5 DEF AttemptsFit, Bounded, MAX_DESTROY_ATTEMPTS
    <2> QED
      BY <1>2, <1>5, <2>1, <2>2 DEF AttemptsFit
  <1>6. CASE row'[r].attempts = 0 /\ resets'[r] = resets[r] /\ row[r].status # "destroying"
    <2>1. Spare(r)' /\ Bounded(r)'
      BY <1>1, <1>6 DEF Spare, Bounded, MAX_DESTROY_ATTEMPTS
    <2> QED
      BY <1>2, <1>6, <2>1 DEF AttemptsFit
  <1> QED
    BY <1>3, <1>4, <1>5, <1>6 DEF CountKept

LEMMA RequestsKeepCount ==
  ASSUME TypeInv, Owned, ReadsFit, NEW q \in Requests,
         ReadFor(q) \/ ClaimStart(q) \/ ApiWrite(q) \/ ApiCrash(q), NEW r \in Runs \ stale'
  PROVE  CountKept(r) /\ r \notin stale
  <1>1. /\ row \in [Runs -> Row]
        /\ req[q].pc \notin {"idle", "done"} => req[q].run \in Runs
        /\ \/ ApiReads(q) \/ ApiClaims(q) \/ ApiWrites(q) \/ ApiReprovisions(q)
           \/ ApiTriggers(q) \/ ApiRollsBack(q) \/ ApiDies(q)
    BY ApiMoves DEF TypeInv, TypeOK
  <1>2. ASSUME NEW p \in Runs, OnlyWrites(p), p # r
        PROVE  CountKept(r) /\ r \notin stale
    BY <1>2 DEF OnlyWrites, OthersKept, CountKept
  <1>3. CASE ApiReads(q) \/ ApiTriggers(q) \/ ApiDies(q)
    BY <1>3 DEF ApiReads, ApiTriggers, ApiDies, CountKept, OnlyWrites
  <1>4. CASE ApiClaims(q)
    <2>1. PICK p \in Runs, op \in {"startNow", "retry"} :
            /\ row[p].status = ClaimFrom(op) /\ OnlyWrites(p)
            /\ row'[p] = [row[p] EXCEPT !.status = "requested"]
      BY <1>4 DEF ApiClaims
    <2>2. UNCHANGED <<stale, resets>>
      BY <1>4 DEF ApiClaims
    <2> QED
      BY <1>1, <1>2, <2>1, <2>2 DEF ClaimFrom, Row, CountKept, Down, Settled
  <1>5. CASE ApiReprovisions(q)
    <2>1. PICK p \in Runs : /\ p = req[q].run /\ OnlyWrites(p) /\ UNCHANGED <<stale, resets>>
                            /\ \/ row'[p] = row[p]
                               \/ /\ row[p].status = "ready"
                                  /\ row'[p] = [row[p] EXCEPT !.status = "requested"]
      BY <1>1, <1>5 DEF ApiReprovisions
    <2> QED
      BY <1>1, <1>2, <2>1 DEF Row, CountKept, Down, Settled
  <1>6. CASE ApiRollsBack(q)
    <2>1. PICK p \in Runs : /\ p = req[q].run /\ OnlyWrites(p) /\ Calls(q, p) /\ UNCHANGED resets
                            /\ stale \subseteq stale'
                            /\ \E s \in {"ready", "scheduled", "failed"} :
                                 row'[p] \in {row[p], [row[p] EXCEPT !.status = s]}
      BY <1>1, <1>6 DEF ApiRollsBack, Calls, ClaimFrom
    <2>2. CASE r = p
      <3>1. r \notin stale /\ row[r].status = "requested"
        BY <2>1, <2>2 DEF Owned, OneHand
      <3> QED
        BY <1>1, <2>1, <2>2, <3>1 DEF Row, CountKept, Down, Settled
    <2> QED
      BY <1>2, <2>1, <2>2
  <1>7. CASE ApiWrites(q)
    <2>1. PICK p \in Runs : p = req[q].run /\ OnlyWrites(p) /\ req[q].pc = "write"
      BY <1>1, <1>7 DEF ApiWrites
    <2>2. CASE r = p /\ ~Exists(r)
      BY <1>7, <2>1, <2>2 DEF ApiWrites, CountKept, OnlyWrites
    <2>3. CASE r = p /\ Exists(r)
      <3>1. row[r].status = req[q].seen.status /\ ApiRewrites(q) /\ row[r] \in Row /\ r \notin stale
        BY <1>1, <1>7, <2>1, <2>3, FreshWrite DEF OnlyWrites
      <3>2. CASE req[q].op \in {"extend", "end", "update"}
        BY <2>1, <2>3, <3>1, <3>2 DEF ApiRewrites, Row, CountKept
      <3>3. CASE row'[r] = Deleted /\ row[r].status \in {"scheduled", "destroyed"} /\ resets'[r] = resets[r]
        BY <3>1, <3>3 DEF CountKept, Deleted, Unbooked
      <3>4. CASE /\ row'[r] \in {DestroyReset(row[r]), [DestroyReset(row[r]) EXCEPT !.del = TRUE]}
                 /\ resets'[r] = resets[r] + 1
        BY <3>1, <3>4 DEF CountKept, DestroyReset, Row
      <3> QED
        BY <2>1, <2>3, <3>1, <3>2, <3>3, <3>4 DEF ApiRewrites
    <2> QED
      BY <1>2, <2>1, <2>2, <2>3
  <1> QED
    BY <1>1, <1>3, <1>4, <1>5, <1>6, <1>7

LEMMA OthersKeepCount ==
  ASSUME TypeInv, Owned, RunnerNext \/ SchedulerNext \/ Tick \/ UNCHANGED vars
                           \/ (\E p \in Runs : CreateScheduledRun(p)),
         NEW r \in Runs \ stale'
  PROVE  CountKept(r) /\ r \notin stale
  <1>1. row \in [Runs -> Row]
    BY DEF TypeInv, TypeOK
  <1>2. UNCHANGED resets /\ (RunnerNext \/ UNCHANGED stale)
    BY RunnerMoves, SchedulerMoves DEF RunnerNext, Tick, vars, CreateScheduledRun, history
  <1>9. RunnerNext => r \notin stale
    BY RunnerMoves, ConcludingKeeps DEF RunnerNext, RunnerAdvances, RunnerLeaves
  <1>3. r \notin stale /\ OneHand(r) /\ GoingDown(r)
    BY <1>2, <1>9 DEF Owned
  <1>4. row'[r] = row[r] => CountKept(r)
    BY <1>2 DEF CountKept
  <1>5. CASE RunnerNext
    <2>1. PICK e \in Executions : RunnerStep(e) \/ RunnerLateVerdict(e) \/ RunnerFail(e) \/ RunnerCrash(e)
      BY <1>5 DEF RunnerNext
    <2>2. PICK p \in Runs : /\ p = RunOf(e) /\ OthersKept(p)
                            /\ RunnerAdvances(e) \/ RunnerLeaves(e) \/ RunnerConcludes(e)
      BY <2>1, RunnerMoves
    <2>3. CASE r = p /\ (RunnerAdvances(e) \/ RunnerLeaves(e))
      <3>1. exec[e].pc \in BuildSteps \cup {"queued"}
        BY <2>3, AdvanceStays, LeavingLetsGo
      <3>2. row[r].status \in InFlight
        BY <1>3, <2>2, <2>3, <3>1 DEF OneHand, Holds, InFlight
      <3> QED
        BY <1>2, <1>3, <2>2, <2>3, <3>2, RunnerKeeps DEF CountKept, InFlight, Down, Settled
    <2>4. CASE r = p /\ RunnerConcludes(e)
      <3>1. \/ row'[r] = row[r]
            \/ row[r].status = "ready" /\ row'[r].status \in {"ready", "failed"}
        BY <2>2, <2>4, ConcludingKeeps
      <3>2. row'[r].attempts = row[r].attempts
        BY <2>2, <2>4, ConcludingKeeps
      <3> QED
        BY <1>2, <1>3, <1>4, <3>1, <3>2 DEF CountKept, Down, Settled
    <2> QED
      BY <1>3, <1>4, <2>2, <2>3, <2>4 DEF OthersKept
  <1>6. CASE SchedulerNext
    <2>1. CASE SchedulerClaims
      <3>1. \/ row'[r] = row[r]
            \/ row[r].status = "scheduled" /\ row'[r] = [row[r] EXCEPT !.status = "requested"]
        BY <1>1, <2>1 DEF SchedulerClaims, DueToStart
      <3> QED
        BY <1>1, <1>2, <1>3, <1>4, <3>1 DEF CountKept, Row, Down, Settled
    <2>2. CASE SchedulerPutsBack
      <3>1. \/ row'[r] = row[r]
            \/ r \in due /\ row'[r] = [row[r] EXCEPT !.status = "scheduled"]
        BY <1>1, <2>2 DEF SchedulerPutsBack, SetScheduledBack
      <3> QED
        BY <1>1, <1>2, <1>3, <1>4, <3>1 DEF CountKept, OneHand, Row, Down, Settled
    <2> QED
      BY <1>3, <1>4, <1>6, <2>1, <2>2, SchedulerMoves DEF SchedulerQueues
  <1>7. CASE Tick \/ UNCHANGED vars
    BY <1>3, <1>4, <1>7 DEF Tick, vars, tables
  <1>8. ASSUME NEW p \in Runs, CreateScheduledRun(p)
        PROVE  CountKept(r)
    <2>1. PICK w : w.attempts = 0 /\ row' = [row EXCEPT ![p] = w]
      BY <1>8 DEF CreateScheduledRun, Unbooked
    <2>2. row[p].status = "unbooked"
      BY <1>8 DEF CreateScheduledRun
    <2> QED
      BY <1>1, <1>2, <1>4, <2>1, <2>2 DEF CountKept
  <1> QED
    BY <1>3, <1>5, <1>6, <1>7, <1>8

LEMMA ReaperCounts ==
  ASSUME TypeInv, TypeInv', LockHeld, Owned, AttemptInv, NEW x \in Reapers,
         ReaperStep(x) \/ ReaperThrow(x) \/ ReaperCrash(x)
  PROVE  AttemptInv'
  <1>1. /\ row \in [Runs -> Row] /\ reaper \in [Reapers -> ReaperState] /\ reaper[x] \in ReaperState
        /\ Null \notin Runs
    BY ConstantsAssumption DEF TypeInv, TypeOK
  <1>2. /\ UNCHANGED resets /\ stale \subseteq stale'
        /\ \A y \in Reapers \ {x} : reaper'[y] = reaper[y]
        /\ \A q \in Runs \ {Cur(x)} : row'[q] = row[q]
        /\ \/ ReaperBrowses(x) \/ ReaperStops(x)
           \/ Cur(x) \in Runs /\ (ReaperClaims(x) \/ ReaperWorks(x) \/ ReaperLeaves(x))
    BY ReaperMoves DEF OthersSpared, ReaperBrowses, ReaperStops, ReaperClaims, ReaperWorks, ReaperLeaves
  <1> SUFFICES ASSUME NEW r \in Runs \ stale' PROVE AttemptsFit(r)'
    BY DEF AttemptInv
  <1>3. r \notin stale /\ GoingDown(r) /\ AttemptsFit(r) /\ row[r] \in Row
    BY <1>1, <1>2 DEF Owned, AttemptInv
  <1>4. row[r].attempts \in Nat /\ row'[r].attempts \in Nat /\ resets[r] \in Nat
    BY CapIsNat DEF TypeInv, TypeOK, Row
  <1>5. \A y \in Reapers \ {x} : /\ TearingDown(y, r)' <=> TearingDown(y, r)
                                 /\ reaper'[y].attempt = reaper[y].attempt /\ Step(y)' = Step(y)
    BY <1>2 DEF TearingDown, Step, Cur
  (* The row stays, and x goes on tearing it down at most.                   *)
  <1>6. ASSUME row'[r] = row[r],
               TearingDown(x, r)' => /\ TearingDown(x, r) /\ reaper'[x].attempt = reaper[x].attempt
                                     /\ Step(x)' = "mark" => Step(x) = "mark" \/ ~row[r].del
        PROVE  AttemptsFit(r)'
    BY <1>2, <1>3, <1>5, <1>6 DEF AttemptsFit, Bounded, Spare
  (* The row is written while nobody else tears it down, and x leaves it.    *)
  <1>7. ASSUME Cur(x) = r, Step(x) \in LockedSteps
        PROVE  \A y \in Reapers \ {x} : ~TearingDown(y, r)
    BY <1>7, OneReaper DEF TearingDown, LockedSteps
  <1>8. ASSUME reaper'[x] \in {Finished(x), IdleReaper}
        PROVE  ~TearingDown(x, r)'
    <2>1. reaper'[x].cur = Null
      <3>1. Finished(x).cur = Null /\ IdleReaper.cur = Null
        BY DEF Finished, IdleReaper
      <3> QED
        BY <1>8, <3>1
    <2> QED
      BY <1>1, <2>1 DEF TearingDown, Cur
  <1>9. CASE ReaperBrowses(x)
    <2>1. UNCHANGED row /\ reaper'[x].pc \in {"idle", "scan", "claim"}
      <3>1. UNCHANGED row
        BY <1>9 DEF ReaperBrowses
      <3>2. CASE reaper'[x] =
                   [IdleReaper EXCEPT !.pc = "scan", !.todo = {p \in Runs : Reapable(row[p])},
                      !.listed = [p \in Runs |-> IF Reapable(row[p]) THEN Glimpse(row[p]) ELSE Blank]]
        BY <3>1, <3>2 DEF IdleReaper
      <3>3. ASSUME NEW p \in reaper[x].todo,
                   reaper'[x] = [reaper[x] EXCEPT !.pc = "claim", !.cur = p, !.todo = @ \ {p}]
            PROVE  reaper'[x].pc = "claim"
        BY <1>1, <3>3 DEF ReaperState
      <3>4. ASSUME NEW p \in reaper[x].todo,
                   reaper'[x] = [reaper[x] EXCEPT !.todo = @ \ {p}, !.listed[p] = Blank,
                                   !.pc = IF reaper[x].todo \ {p} = {} THEN "idle" ELSE "scan"]
            PROVE  reaper'[x].pc \in {"idle", "scan"}
        BY <1>1, <3>4 DEF ReaperState
      <3> QED
        BY <1>9, <3>1, <3>2, <3>3, <3>4 DEF ReaperBrowses
    <2> QED
      BY <1>6, <2>1 DEF TearingDown, Step, TeardownSteps
  <1>10. CASE ReaperStops(x)
    BY <1>6, <1>8, <1>10 DEF ReaperStops
  <1>11. ASSUME Cur(x) \in Runs, Cur(x) # r, ReaperClaims(x) \/ ReaperWorks(x) \/ ReaperLeaves(x)
         PROVE  AttemptsFit(r)'
    <2>1. reaper'[x].cur = Cur(x) \/ reaper'[x] \in {Finished(x), IdleReaper}
      BY <1>11, ReaperStays DEF ReaperLeaves
    <2> QED
      BY <1>2, <1>6, <1>8, <1>11, <2>1 DEF TearingDown, Cur
  (* A claim counts one attempt, and there was one to spare.                 *)
  <1>12. CASE Cur(x) = r /\ ReaperClaims(x)
    <2>1. /\ Step(x) = "claim" /\ row'[r] = SetDestroyClaim(row[r]) /\ ~row[r].claimed
          /\ ~MovedOn(r, reaper[x].listed[r])
          /\ reaper'[x].pc = "clouds" /\ reaper'[x].attempt = row'[r].attempts
      BY <1>1, <1>12 DEF ReaperClaims, Seen, ReaperState
    <2>2. ListedFits(x, r) /\ row[r].status = reaper[x].listed[r].status
      BY <1>3, <1>12, <2>1 DEF LockedSteps, MovedOn, GoingDown, Lists
    <2>3. Spare(r)
      BY <1>3, <2>1, <2>2 DEF ListedFits, AttemptsFit, Settled
    <2>4. /\ row'[r].status = "destroying" /\ row'[r].claimed
          /\ row'[r].attempts \in {row[r].attempts, row[r].attempts + 1}
      BY <1>3, <2>1 DEF SetDestroyClaim, Row
    <2>5. Bounded(r)'
      BY <1>2, <1>4, <2>3, <2>4 DEF Bounded, Spare, MAX_DESTROY_ATTEMPTS
    <2>6. \A y \in Reapers \ {x} : ~TearingDown(y, r)'
      BY <1>5, <1>7, <1>12, <2>1 DEF LockedSteps
    <2> QED
      BY <2>1, <2>4, <2>5, <2>6 DEF AttemptsFit, Settled, Step
  <1>13. CASE Cur(x) = r /\ ReaperWorks(x)
    <2>1. row'[r] = row[r]
      BY <1>13 DEF ReaperWorks
    <2>2. /\ reaper'[x].attempt = reaper[x].attempt
          /\ \/ reaper'[x].pc = "abandoned"
             \/ Step(x) \in TeardownSteps /\ reaper'[x].pc # "mark"
             \/ Step(x) \in TeardownSteps /\ ~row[r].del
      <3>1. CASE Step(x) = "claim"
        BY <1>1, <1>13, <3>1 DEF ReaperWorks, Goes, ReaperState, TeardownSteps
      <3>2. CASE Step(x) \in TeardownSteps /\ \E c : reaper'[x] = [reaper[x] EXCEPT !.pc = "threw", !.clears = c]
        BY <1>1, <3>2 DEF ReaperState
      <3>3. CASE /\ Step(x) \in TeardownSteps
                 /\ \E u : reaper'[x] = [reaper[x] EXCEPT !.units = @ \ {u},
                                !.pc = IF reaper[x].units = {u} THEN "harness" ELSE "clouds"]
        BY <1>1, <3>3 DEF ReaperState
      <3>4. CASE /\ Step(x) \in TeardownSteps
                 /\ \/ \E pc \in {"accounts", "orgUnit", "forget", "finish"} : Goes(x, pc)
                    \/ Goes(x, "mark") /\ ~row[r].del
        BY <1>1, <3>4 DEF Goes, ReaperState
      <3> QED
        BY <1>13, <3>1, <3>2, <3>3, <3>4 DEF ReaperWorks, TeardownSteps
    <2> QED
      BY <1>6, <1>13, <2>1, <2>2 DEF TearingDown, Step, TeardownSteps
  <1>14. CASE Cur(x) = r /\ ReaperLeaves(x)
    <2>1. /\ Step(x) \in {"abandoned", "finish", "mark", "threw"}
          /\ reaper'[x] \in {Finished(x), IdleReaper}
      BY <1>14 DEF ReaperLeaves
    <2>2. \A y \in Reapers : ~TearingDown(y, r)'
      BY <1>5, <1>7, <1>8, <1>14, <2>1 DEF LockedSteps, TeardownSteps
    <2>3. CASE row'[r] = row[r]
      BY <1>6, <2>2, <2>3
    <2>4. CASE row'[r] = Deleted
      <3>1. row'[r].attempts = 0 /\ row'[r].status = "deleted"
        BY <2>4 DEF Deleted, Unbooked
      <3> QED
        BY <1>2, <1>4, <2>2, <3>1 DEF AttemptsFit, Bounded, Spare, MAX_DESTROY_ATTEMPTS
    <2>5. CASE row'[r] = SetDestroyFailed(row[r])
      <3>1. row'[r].attempts = row[r].attempts /\ row'[r].status = "destroy_failed"
        BY <1>3, <2>5 DEF SetDestroyFailed, Row
      <3> QED
        BY <1>2, <1>3, <2>2, <3>1 DEF AttemptsFit, Bounded, Settled
    <2>6. CASE row'[r] = SetDestroyed(row[r]) /\ Step(x) = "mark"
      <3>1. /\ row'[r].attempts = row[r].attempts /\ row'[r].status = "destroyed"
            /\ row'[r].del = row[r].del
        BY <1>3, <2>6 DEF SetDestroyed, Row
      <3>2. row[r].del => Spare(r)
        BY <1>3, <1>14, <2>6 DEF AttemptsFit, TearingDown, TeardownSteps
      <3> QED
        BY <1>2, <1>3, <2>2, <3>1, <3>2 DEF AttemptsFit, Bounded, Spare, Settled
    <2>7. CASE row'[r] = SetDestroyRetry(row[r]) /\ Step(x) = "threw" /\ reaper[x].attempt < MAX_DESTROY_ATTEMPTS
      <3>1. row'[r].attempts = row[r].attempts
        BY <1>3, <2>7 DEF SetDestroyRetry, Row
      <3>2. row[r].attempts < MAX_DESTROY_ATTEMPTS
        BY <1>3, <1>14, <2>7 DEF AttemptsFit, TearingDown
      <3>3. Spare(r)' /\ Bounded(r)'
        BY <1>2, <1>4, <3>1, <3>2 DEF Spare, Bounded, MAX_DESTROY_ATTEMPTS
      <3> QED
        BY <2>2, <3>3 DEF AttemptsFit
    <2> QED
      BY <1>14, <2>3, <2>4, <2>5, <2>6, <2>7 DEF ReaperLeaves
  <1> QED
    BY <1>2, <1>9, <1>10, <1>11, <1>12, <1>13, <1>14

LEMMA AttemptInvariance == Spec => []AttemptInv
  <1>1. Init => AttemptInv
    BY DEF Init, AttemptInv, AttemptsFit, Bounded, Spare, TearingDown, Step, Cur, TeardownSteps,
       IdleReaper, Unbooked, MAX_DESTROY_ATTEMPTS
  <1>2. TypeInv /\ TypeInv' /\ LockHeld /\ ReadsFit /\ Owned /\ AttemptInv /\ [Next]_vars => AttemptInv'
    <2> SUFFICES ASSUME TypeInv, TypeInv', LockHeld, ReadsFit, Owned, AttemptInv, [Next]_vars
                 PROVE  AttemptInv'
      OBVIOUS
    <2>1. CASE ReaperNext
      BY <2>1, ReaperCounts DEF ReaperNext
    <2>2. ASSUME UNCHANGED reaper, \A r \in Runs \ stale' : CountKept(r) /\ r \notin stale
          PROVE  AttemptInv'
      BY <2>2, CountIsKept DEF AttemptInv, Owned
    <2>3. CASE RunnerNext \/ SchedulerNext \/ Tick \/ UNCHANGED vars \/ \E p \in Runs : CreateScheduledRun(p)
      <3>1. UNCHANGED reaper
        BY <2>3, RunnerMoves, SchedulerMoves
        DEF RunnerNext, Tick, vars, CreateScheduledRun, apiFrame, reaping
      <3> QED
        BY <2>2, <2>3, <3>1, OthersKeepCount
    <2>4. ASSUME NEW q \in Requests, ReadFor(q) \/ ClaimStart(q) \/ ApiWrite(q) \/ ApiCrash(q)
          PROVE  AttemptInv'
      BY <2>2, <2>4, ApiMoves, RequestsKeepCount DEF reaping
    <2> QED
      BY <2>1, <2>3, <2>4 DEF Next, ApiNext
  <1> QED
    BY <1>1, <1>2, TypeInvariance, LockInvariance, OwnedInvariance, PTL DEF Spec

(* However attempts fail or die, and however many reapers overlap, a run is *)
(* attempted at most MAX_DESTROY_ATTEMPTS times and once more for each      *)
(* request by a person.                                                     *)
THEOREM AttemptsAreBounded == Spec => []AttemptsBounded
  <1>1. AttemptInv => AttemptsBounded
    BY DEF AttemptInv, AttemptsFit, Bounded, AttemptsBounded
  <1> QED
    BY <1>1, AttemptInvariance, PTL
=============================================================================
