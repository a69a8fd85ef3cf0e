------------------------------- MODULE Runner -------------------------------
(***************************************************************************)
(* tf-runner: one Cloud Run execution provisions or converges one run.     *)
(*                                                                         *)
(* The execution reads the row once, at the start, and works from that     *)
(* copy for up to an hour.  It takes no lock and every status it writes is *)
(* an unconditional update by id.  Any step may fail having already made   *)
(* what it was making, and the container may be killed at any moment.      *)
(*                                                                         *)
(* A step stands for the calls it makes in the other service and the       *)
(* statements that record them; a failure between the two is RunnerFail or *)
(* RunnerCrash leaving part of the step's work behind.  Throwing is of no  *)
(* consequence to others until the catch block writes, so the two are one  *)
(* action; when the catch block's own log line throws nothing is written,  *)
(* which is RunnerCrash.                                                   *)
(***************************************************************************)
EXTENDS RunTable

BuildSteps == {"orgUnit", "accounts", "harness", "clouds"}

Exec == [pc      : {"idle", "queued", "announce", "done"} \cup BuildSteps,
         run     : Runs \cup {Null},
         expires : Int,              \* run.expires_at as read at the start
         ttl     : Nat,              \* run.ttl_seconds as read at the start
         units   : SUBSET Thing]     \* layers still to apply, from run.clouds

IdleExec == [pc |-> "idle", run |-> Null, expires |-> NoExpiry, ttl |-> 0, units |-> {}]
DoneExec == [IdleExec EXCEPT !.pc = "done"]

At(e, step) == exec[e].pc = step
RunOf(e) == exec[e].run

(* A trigger that reaches Cloud Run: an execution is queued for the run.    *)
Accept(e, r) ==
  /\ At(e, "idle")
  /\ exec' = [exec EXCEPT ![e] = [@ EXCEPT !.pc = "queued", !.run = r]]

Leave(e) == exec' = [exec EXCEPT ![e] = DoneExec]
GoTo(e, step) == exec' = [exec EXCEPT ![e].pc = step]

runnerFrame == <<now, reaping, req, due, history>>

(* getRun and setProvisioning; a run that is gone is refused.               *)
RunnerStart(e) ==
  LET r == RunOf(e) IN
  /\ At(e, "queued")
  /\ Update(r, SetProvisioning(row[r]))
  /\ IF Exists(r)
     THEN exec' = [exec EXCEPT ![e] = [pc |-> "orgUnit", run |-> r,
                                       expires |-> row[r].expires,
                                       ttl |-> row[r].ttl,
                                       units |-> Units(row[r].clouds)]]
     ELSE Leave(e)
  /\ UNCHANGED <<roster, outside, runnerFrame>>

(* createOrgUnit adopts an org unit of the same name; setOrgUnitPath.       *)
RunnerOrgUnit(e) ==
  LET r == RunOf(e) IN
  /\ At(e, "orgUnit") /\ Exists(r)
  /\ orgUnits' = orgUnits \cup {NameOf[r]}
  /\ Update(r, SetOrgUnitPath(row[r]))
  /\ GoTo(e, "accounts")
  /\ UNCHANGED <<roster, standing, runnerFrame>>

(* Accounts already on the roster are kept; the missing ones are created    *)
(* inside the org unit and recorded.                                        *)
RunnerAccounts(e) ==
  LET r == RunOf(e) IN
  /\ At(e, "accounts") /\ Exists(r)
  /\ roster' = roster \cup {r}
  /\ standing' = [standing EXCEPT ![r] = IF r \in roster THEN @ ELSE @ \cup {"account"}]
  /\ GoTo(e, "harness")
  /\ UNCHANGED <<row, orgUnits, runnerFrame>>

(* The organization, its secrets, content, projects and grants: each call   *)
(* treats what is there already as done.                                    *)
RunnerHarness(e) ==
  LET r == RunOf(e) IN
  /\ At(e, "harness") /\ Exists(r)
  /\ standing' = [standing EXCEPT ![r] = @ \cup {"harness"}]
  /\ GoTo(e, "clouds")
  /\ UNCHANGED <<tables, orgUnits, runnerFrame>>

(* One cloud's terraform apply.  Only the two GCP paths call setApplying,   *)
(* and they share one state, so applying the project replaces the sandbox   *)
(* layer that state described.                                              *)
RunnerApply(e) ==
  LET r == RunOf(e) IN
  /\ At(e, "clouds") /\ Exists(r)
  /\ \E u \in exec[e].units :
       /\ exec' = [exec EXCEPT ![e].units = @ \ {u}]
       /\ standing' = [standing EXCEPT ![r] =
                         (@ \ (IF u = "gcp" THEN {"sandbox"} ELSE {})) \cup {u}]
       /\ IF u \in {"gcp", "sandbox"} THEN Update(r, SetApplying(row[r])) ELSE UNCHANGED row
  /\ UNCHANGED <<roster, orgUnits, runnerFrame>>

(* The catch block: a run that had an end time goes back to ready, any      *)
(* other is failed.                                                         *)
Caught(e, w) == IF exec[e].expires # NoExpiry THEN SetLiveError(w) ELSE SetFailed(w)

(* Mutant of the next action: no end time on a first provision.             *)
RunnerReadyEndless(e) ==
  LET r == RunOf(e) IN
  /\ At(e, "clouds") /\ exec[e].units = {} /\ Exists(r)
  /\ Update(r, SetReady(row[r], exec[e].expires))
  /\ GoTo(e, "announce")
  /\ UNCHANGED <<roster, outside, runnerFrame>>

(* setReady.  The end time comes from the copy read at the start, for a     *)
(* workshop that was live already and for one that was not.                 *)
RunnerReady(e) ==
  LET r == RunOf(e)
      expires == IF exec[e].expires # NoExpiry THEN exec[e].expires ELSE now + exec[e].ttl
  IN
  /\ At(e, "clouds") /\ exec[e].units = {} /\ Exists(r)
  /\ Update(r, SetReady(row[r], expires))
  /\ GoTo(e, "announce")
  /\ UNCHANGED <<roster, outside, runnerFrame>>

(* The log line that announces it; by now people and the reaper see the     *)
(* event as live.                                                           *)
RunnerAnnounce(e) ==
  /\ At(e, "announce") /\ Exists(RunOf(e))
  /\ Leave(e)
  /\ UNCHANGED <<tables, outside, runnerFrame>>

(* The log line is inside the try: should it throw, the catch block has the *)
(* last word, however long that took and whatever became of the row.        *)
RunnerLateVerdict(e) ==
  LET r == RunOf(e) IN
  /\ At(e, "announce") /\ Exists(r)
  /\ Update(r, Caught(e, row[r]))
  /\ stale' = IF row[r].status = "ready" THEN stale ELSE stale \cup {r}
  /\ Leave(e)
  /\ UNCHANGED <<roster, outside, now, reaping, req, due, died, resets>>

(* What an interrupted step may have made without recording it.             *)
Halfway(e) ==
  CASE At(e, "accounts") -> {"stray"}
    [] At(e, "harness") -> {"harness"}
    [] At(e, "clouds") -> exec[e].units
    [] OTHER -> {}

LeaveHalfway(e) ==
  /\ \E part \in SUBSET Halfway(e) :
       standing' = [standing EXCEPT ![RunOf(e)] = @ \cup part]
  /\ \/ UNCHANGED orgUnits
     \/ At(e, "orgUnit") /\ orgUnits' = orgUnits \cup {NameOf[RunOf(e)]}

(* A step of the provision throws.                                          *)
RunnerFail(e) ==
  LET r == RunOf(e) IN
  /\ exec[e].pc \in BuildSteps /\ Exists(r)
  /\ LeaveHalfway(e)
  /\ Update(r, Caught(e, row[r]))
  /\ Leave(e)
  /\ UNCHANGED <<roster, runnerFrame>>

(* The row went away: the next log line has nothing to reference, and       *)
(* neither does the one the catch block writes, so the process exits.       *)
RunnerLoseRow(e) ==
  /\ exec[e].pc \in BuildSteps \cup {"announce"} /\ ~Exists(RunOf(e))
  /\ Leave(e)
  /\ UNCHANGED <<tables, outside, runnerFrame>>

(* The container is killed, or never starts.                                *)
RunnerCrash(e) ==
  /\ exec[e].pc \in BuildSteps \cup {"queued", "announce"}
  /\ LeaveHalfway(e)
  /\ Leave(e)
  /\ UNCHANGED <<tables, runnerFrame>>

RunnerStep(e) ==
  \/ RunnerStart(e)
  \/ RunnerOrgUnit(e)
  \/ RunnerAccounts(e)
  \/ RunnerHarness(e)
  \/ RunnerApply(e)
  \/ RunnerReady(e)
  \/ RunnerAnnounce(e)
  \/ RunnerLoseRow(e)

RunnerNext == \E e \in Executions : RunnerStep(e) \/ RunnerLateVerdict(e) \/ RunnerFail(e) \/ RunnerCrash(e)
=============================================================================
