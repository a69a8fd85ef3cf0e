---------------------------- MODULE WorkshopRuns ----------------------------
(***************************************************************************)
(* The life of a run: the web app, the scheduler, the runner and the       *)
(* reaper acting on one table, interleaved statement by statement.         *)
(***************************************************************************)
EXTENDS Scheduler

Init ==
  /\ row = [r \in Runs |-> Unbooked]
  /\ roster = {}
  /\ standing = [r \in Runs |-> {}]
  /\ orgUnits = {}
  /\ now = 0
  /\ lock = [r \in Runs |-> Null]
  /\ reaper = [x \in Reapers |-> IdleReaper]
  /\ exec = [e \in Executions |-> IdleExec]
  /\ req = [q \in Requests |-> IdleReq]
  /\ due = {}
  /\ stale = {}
  /\ died = {}
  /\ resets = [r \in Runs |-> 0]

(* A day passes.  MaxNow bounds the clock.                                  *)
Tick ==
  /\ now < MaxNow
  /\ now' = now + 1
  /\ UNCHANGED <<tables, outside, reaping, exec, req, due, history>>

Next == ApiNext \/ SchedulerNext \/ RunnerNext \/ ReaperNext \/ Tick

Spec == Init /\ [][Next]_vars

(* What the platform provides: the cron job starts reaper executions for    *)
(* ever and an execution that is not killed goes on; likewise the           *)
(* scheduler, an accepted runner execution, and a handler that has begun.   *)
(* Nothing obliges a step to fail or a process to die, and nothing forbids  *)
(* it; but reapers are not killed at the same statement on every tick.      *)
Fairness ==
  /\ \A x \in Reapers : WF_vars(ReaperStep(x))
  /\ SF_vars(\E x \in Reapers : ReaperTryLock(x))
  /\ SF_vars(\E x \in Reapers : ReaperClaim(x))
  /\ SF_vars(\E x \in Reapers : ReaperFlagDead(x))
  /\ \A e \in Executions : WF_vars(RunnerStep(e))
  /\ \A q \in Requests : WF_vars(ApiWrite(q))
  /\ WF_vars(SchedulerStep)

FairSpec == Spec /\ Fairness

-----------------------------------------------------------------------------
TypeOK ==
  /\ row \in [Runs -> Row]
  /\ roster \subseteq Runs
  /\ standing \in [Runs -> SUBSET Thing]
  /\ orgUnits \subseteq {NameOf[r] : r \in Runs}
  /\ now \in 0 .. MaxNow
  /\ lock \in [Runs -> Reapers \cup {Null}]
  /\ reaper \in [Reapers -> ReaperState]
  /\ exec \in [Executions -> Exec]
  /\ req \in [Requests -> ReqState]
  /\ due \subseteq Runs
  /\ stale \subseteq Runs
  /\ died \subseteq Runs
  /\ resets \in [Runs -> Nat]

(* Two reaper executions are never inside one run's teardown at once,       *)
(* however their ticks overlap, and whatever people do to the row meanwhile. *)
TeardownExclusive ==
  \A r \in Runs : \A x, y \in Reapers : TearingDown(x, r) /\ TearingDown(y, r) => x = y

(* A claim still set means an attempt is at work under it or was killed: no *)
(* way out of destroyRun leaves one behind.  This is what claimDestroy's    *)
(* verdict of a death rests on.                                             *)
ClaimExplained ==
  \A r \in Runs : row[r].claimed => r \in died \/ \E x \in Reapers : TearingDown(x, r)

(* "Holding the lock and seeing a claim is proof the claimant is gone": a    *)
(* claim met by the holder of the lock was left by an attempt that was      *)
(* killed, never by one at work nor by one that ended some other way.       *)
ClaimMeansDeath ==
  \A x \in Reapers : Step(x) = "claim" /\ row[Cur(x)].claimed => Cur(x) \in died

(* Some of the properties below set the runs in stale aside: those that a   *)
(* request, a reaper or the late verdict of an announcing execution wrote   *)
(* to although the row had moved on from what it knew (DocClaims has what   *)
(* becomes of them).                                                        *)

(* A live event always has an end time: reapableRuns never selects one that *)
(* has none, and its clouds would run for ever.                             *)
ReadyHasEnd == \A r \in Runs : row[r].status = "ready" => row[r].expires # NoExpiry

(* A run shown as live has its accounts and its organization, whichever of  *)
(* the paths to ready it took (first provision, grow, failed grow, refused  *)
(* grow, a failed announcement), unless it was written to while stale.      *)
ReadyIsBuilt ==
  \A r \in Runs \ stale : row[r].status = "ready" => {"account", "harness"} \subseteq standing[r]

(* The row is the only record of what there is to tear down, so it is       *)
(* marked destroyed, or dropped, only once nothing is left standing: after  *)
(* failed steps, killed attempts, retries, half-finished provisions and     *)
(* failed announcements, unless it was written to while stale.              *)
NothingLeft ==
  \A r \in Runs \ stale : row[r].status \in {"deleted", "destroyed"} => standing[r] = {}

(* A failed provision never leads to a teardown on its own: only somebody   *)
(* deleting the run does, unless it was written to while stale.  Without    *)
(* that exemption this is FailureWaits of DocClaims, which fails.           *)
FailureNeverDestroys ==
  [][\A r \in Runs \ stale' :
       row[r].status = "failed" /\ row'[r].status = "destroying" => row'[r].del]_vars

(* A teardown that was flagged, or finished, is left alone until a person   *)
(* asks for another; one that finished just as somebody deleted the run is  *)
(* repeated for that request's sake.  Again unless written to while stale.  *)
SettledStaysSettled ==
  [][\A r \in Runs \ stale' : row[r].status \in {"destroy_failed", "destroyed"} =>
       \/ row'[r].status \in {row[r].status, "deleted"}
       \/ resets'[r] # resets[r]
       \/ row[r].status = "destroyed" /\ row[r].del]_vars

(* However attempts fail or die, a run is attempted at most                 *)
(* MAX_DESTROY_ATTEMPTS times, and once more for each request by a person.  *)
AttemptsBounded ==
  \A r \in Runs \ stale : row[r].attempts <= MAX_DESTROY_ATTEMPTS + resets[r]

(* Whatever happens to the attempts, no run is left in mid-teardown: it is   *)
(* gone, or destroyed, or flagged for a person.                             *)
TeardownSettles == \A r \in Runs : []<>(row[r].status # "destroying")

(* A run somebody deleted goes, or is flagged for a person, also when the   *)
(* request came between the two statements of setDestroyed.                 *)
DeleteHonoured ==
  \A r \in Runs : []<>(row[r].del => row[r].status \in {"deleted", "destroy_failed"})

(* An event past its end does not stay live: it is torn down, or somebody   *)
(* extended it, or its provision failed after all.                          *)
EndIsKept == \A r \in Runs : []<>~(row[r].status = "ready" /\ Expired(row[r]))
=============================================================================
