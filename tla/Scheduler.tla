------------------------------ MODULE Scheduler ------------------------------
(***************************************************************************)
(* tf-scheduler: the job that provisions what is about to start.           *)
(*                                                                         *)
(* One statement claims every run that is due; each is then handed to a    *)
(* runner execution of its own.  Between the two the job may be killed, or *)
(* meet a run whose row has gone, and either leaves the rest of what it    *)
(* claimed where the claim put it.                                         *)
(***************************************************************************)
EXTENDS EventsApi

schedulerFrame == <<outside, now, reaping, req, history>>

(* claimDueScheduledRuns.                                                   *)
SchedulerClaim ==
  LET found == {r \in Runs : DueToStart(row[r])} IN
  /\ due = {} /\ found # {}
  /\ row' = [r \in Runs |-> IF r \in found THEN [row[r] EXCEPT !.status = "requested"] ELSE row[r]]
  /\ due' = found
  /\ UNCHANGED <<roster, exec, schedulerFrame>>

(* The log line, then the trigger.                                          *)
SchedulerHandOver ==
  /\ \E r \in due :
       /\ Exists(r)
       /\ \E e \in Executions : Accept(e, r)
       /\ due' = due \ {r}
  /\ UNCHANGED <<tables, schedulerFrame>>

(* The trigger throws: setScheduledBack, whatever the status is by now.     *)
SchedulerPutBack ==
  /\ \E r \in due :
       /\ Exists(r)
       /\ Update(r, SetScheduledBack(row[r]))
       /\ due' = due \ {r}
  /\ UNCHANGED <<roster, exec, schedulerFrame>>

(* The row is gone: the log line throws, so does the one in the catch block, *)
(* and the job ends with whatever it had not reached still claimed.          *)
SchedulerAbort ==
  /\ \E r \in due : ~Exists(r)
  /\ due' = {}
  /\ UNCHANGED <<tables, exec, schedulerFrame>>

SchedulerCrash ==
  /\ due # {}
  /\ due' = {}
  /\ UNCHANGED <<tables, exec, schedulerFrame>>

SchedulerStep == SchedulerClaim \/ SchedulerHandOver \/ SchedulerPutBack \/ SchedulerAbort
SchedulerNext == SchedulerStep \/ SchedulerCrash
=============================================================================
