------------------------------- MODULE Reaper -------------------------------
(***************************************************************************)
(* tf-reaper: the job that tears runs down.                                *)
(*                                                                         *)
(* An execution lists the runs that are due once, then takes them one by   *)
(* one under the run's advisory lock, working from the listed copy of the  *)
(* row.  A teardown outlasts the five-minute tick, so executions overlap.  *)
(* The lock is session scoped: the death of the process releases it.  The  *)
(* claim (destroy_started_at) is a column: the death of the process leaves *)
(* it set, which is how the next holder of the lock learns of the death.   *)
(***************************************************************************)
EXTENDS Runner

TeardownSteps == {"clouds", "harness", "accounts", "orgUnit", "forget", "finish", "mark"}

(* Steps at which the execution holds cur's lock.                           *)
LockedSteps == TeardownSteps \cup {"claim", "abandoned", "threw"}

(* What the reaper uses of the row it listed.                               *)
Listing == [status : RunStatus \cup NoRow, clouds : SUBSET Clouds, ou : BOOLEAN]
Blank == [status |-> "unbooked", clouds |-> {}, ou |-> FALSE]
Glimpse(w) == [status |-> w.status, clouds |-> w.clouds, ou |-> w.ou]

ReaperState ==
  [pc      : {"idle", "scan"} \cup LockedSteps,
   todo    : SUBSET Runs,           \* listed runs not taken yet
   listed  : [Runs -> Listing],
   cur     : Runs \cup {Null},
   units   : SUBSET Thing,          \* layers of cur still to destroy
   attempt : 0 .. AttemptCap,       \* claim.attempt
   clears  : BOOLEAN]               \* is the error on the self-clearing list?

IdleReaper == [pc |-> "idle", todo |-> {}, listed |-> [r \in Runs |-> Blank], cur |-> Null,
               units |-> {}, attempt |-> 0, clears |-> FALSE]

Step(x) == reaper[x].pc
Cur(x) == reaper[x].cur
Seen(x) == reaper[x].listed[Cur(x)]

(* x is inside the part of destroyRun that changes anything outside.        *)
TearingDown(x, r) == Cur(x) = r /\ Step(x) \in TeardownSteps \cup {"threw"}

Advance(x, step) == reaper' = [reaper EXCEPT ![x].pc = step]
Unlock(x) == lock' = [r \in Runs |-> IF lock[r] = x THEN Null ELSE lock[r]]

(* The run is behind the execution: on to the next one listed.              *)
Finished(x) ==
  [IdleReaper EXCEPT !.pc = IF reaper[x].todo = {} THEN "idle" ELSE "scan",
                     !.todo = reaper[x].todo,
                     !.listed = [r \in Runs |-> IF r \in reaper[x].todo
                                                THEN reaper[x].listed[r] ELSE Blank]]
NextRun(x) == Unlock(x) /\ reaper' = [reaper EXCEPT ![x] = Finished(x)]

Exit(x) == Unlock(x) /\ reaper' = [reaper EXCEPT ![x] = IdleReaper]

reaperFrame == <<now, exec, req, due>>

(* reapableRuns: one query, all columns.                                    *)
ReaperList(x) ==
  LET found == {r \in Runs : Reapable(row[r])} IN
  /\ Step(x) = "idle" /\ found # {}
  /\ reaper' = [reaper EXCEPT ![x] =
       [IdleReaper EXCEPT !.pc = "scan", !.todo = found,
          !.listed = [r \in Runs |-> IF r \in found THEN Glimpse(row[r]) ELSE Blank]]]
  /\ UNCHANGED <<tables, outside, lock, history, reaperFrame>>

(* Mutant of the next action: the lock's answer is not looked at.           *)
ReaperTryLockBlind(x) ==
  /\ Step(x) = "scan"
  /\ \E r \in reaper[x].todo :
       /\ lock' = [lock EXCEPT ![r] = IF @ = Null THEN x ELSE @]
       /\ reaper' = [reaper EXCEPT ![x].pc = "claim", ![x].cur = r,
                                   ![x].todo = reaper[x].todo \ {r}]
  /\ UNCHANGED <<tables, outside, history, reaperFrame>>

(* withRunLock: try the lock; a run another execution holds is skipped.     *)
ReaperTryLock(x) ==
  /\ Step(x) = "scan"
  /\ \E r \in reaper[x].todo :
       LET rest == reaper[x].todo \ {r} IN
       IF lock[r] = Null
       THEN /\ lock' = [lock EXCEPT ![r] = x]
            /\ reaper' = [reaper EXCEPT ![x].pc = "claim", ![x].cur = r, ![x].todo = rest]
       ELSE /\ reaper' = [reaper EXCEPT ![x].todo = rest, ![x].listed[r] = Blank,
                                        ![x].pc = IF rest = {} THEN "idle" ELSE "scan"]
            /\ UNCHANGED lock
  /\ UNCHANGED <<tables, outside, history, reaperFrame>>

(* claimDestroy looks at the claim and nothing else.  No row updated means  *)
(* a claim was set already, or that the row is gone: both read as abandoned. *)
ReaperClaim(x) ==
  LET r == Cur(x) IN
  /\ Step(x) = "claim"
  /\ IF Exists(r) /\ ~row[r].claimed
     THEN /\ Update(r, SetDestroyClaim(row[r]))
          /\ reaper' = [reaper EXCEPT ![x].pc = "clouds",
                                      ![x].units = Units(Seen(x).clouds),
                                      ![x].attempt = row'[r].attempts]
          /\ stale' = IF MovedOn(r, Seen(x)) THEN stale \cup {r} ELSE stale
          /\ died' = died \ {r}
     ELSE /\ Advance(x, "abandoned")
          /\ UNCHANGED <<row, stale, died>>
  /\ UNCHANGED <<roster, outside, lock, resets, reaperFrame>>

(* Mutant of the next action: the death is logged and not recorded.         *)
ReaperFlagDeadLogOnly(x) ==
  /\ Step(x) = "abandoned"
  /\ IF Exists(Cur(x)) THEN NextRun(x) ELSE Exit(x)
  /\ UNCHANGED <<tables, outside, history, reaperFrame>>

(* The abandoned branch: the log line, then the flag.  With no row the log  *)
(* line fails, which ends the whole execution.                              *)
ReaperFlagDead(x) ==
  LET r == Cur(x) IN
  /\ Step(x) = "abandoned"
  /\ Update(r, SetDestroyFailed(row[r]))
  /\ IF Exists(r) THEN NextRun(x) ELSE Exit(x)
  /\ UNCHANGED <<roster, outside, history, reaperFrame>>

(* The clouds of the listed row, one at a time.                             *)
ReaperDestroyCloud(x) ==
  LET r == Cur(x) IN
  /\ Step(x) = "clouds" /\ Exists(r)
  /\ \E u \in reaper[x].units :
       /\ standing' = [standing EXCEPT ![r] = @ \ {u}]
       /\ reaper' = [reaper EXCEPT ![x].units = @ \ {u},
                                   ![x].pc = IF reaper[x].units = {u} THEN "harness" ELSE "clouds"]
  /\ UNCHANGED <<tables, orgUnits, lock, history, reaperFrame>>

(* destroyHarness: projects, catalog, delegate token, organization.         *)
ReaperDestroyHarness(x) ==
  LET r == Cur(x) IN
  /\ Step(x) = "harness" /\ Exists(r)
  /\ standing' = [standing EXCEPT ![r] = @ \ {"harness"}]
  /\ Advance(x, "accounts")
  /\ UNCHANGED <<tables, orgUnits, lock, history, reaperFrame>>

(* deleteAccount for everyone on the roster, as it is now.                  *)
ReaperDeleteAccounts(x) ==
  LET r == Cur(x) IN
  /\ Step(x) = "accounts" /\ Exists(r)
  /\ standing' = [standing EXCEPT ![r] = IF r \in roster THEN @ \ {"account"} ELSE @]
  /\ Advance(x, "orgUnit")
  /\ UNCHANGED <<tables, orgUnits, lock, history, reaperFrame>>

(* Mutant of the next action: only accounts on the roster are looked for.   *)
ReaperDeleteOrgUnitOnly(x) ==
  /\ Step(x) = "orgUnit" /\ Exists(Cur(x))
  /\ orgUnits' = IF Seen(x).ou THEN orgUnits \ {NameOf[Cur(x)]} ELSE orgUnits
  /\ Advance(x, "forget")
  /\ UNCHANGED <<tables, standing, lock, history, reaperFrame>>

(* deleteOrgUnit empties the org unit of whoever is in it: every run that   *)
(* was booked under the name has its accounts there.                        *)
ReaperDeleteOrgUnit(x) ==
  LET r == Cur(x)
      shared == {q \in Runs : NameOf[q] = NameOf[r]}
  IN
  /\ Step(x) = "orgUnit" /\ Exists(r)
  /\ IF Seen(x).ou
     THEN /\ orgUnits' = orgUnits \ {NameOf[r]}
          /\ standing' = [q \in Runs |-> IF q \in shared THEN standing[q] \ {"account", "stray"}
                                                         ELSE standing[q]]
     ELSE UNCHANGED outside
  /\ Advance(x, "forget")
  /\ UNCHANGED <<tables, lock, history, reaperFrame>>

(* deleteAccounts and deleteResources: only now is the roster forgotten.    *)
ReaperForget(x) ==
  LET r == Cur(x) IN
  /\ Step(x) = "forget" /\ Exists(r)
  /\ roster' = roster \ {r}
  /\ Advance(x, "finish")
  /\ UNCHANGED <<row, outside, lock, history, reaperFrame>>

(* setDestroyed, first statement: a run somebody deleted goes, and its      *)
(* roster with it by cascade.                                               *)
ReaperFinish(x) ==
  LET r == Cur(x) IN
  /\ Step(x) = "finish" /\ Exists(r)
  /\ IF row[r].del
     THEN row' = [row EXCEPT ![r] = Deleted] /\ roster' = roster \ {r} /\ NextRun(x)
     ELSE Advance(x, "mark") /\ UNCHANGED <<tables, lock>>
  /\ UNCHANGED <<outside, history, reaperFrame>>

(* setDestroyed, second statement: any other is marked destroyed.           *)
ReaperMark(x) ==
  LET r == Cur(x) IN
  /\ Step(x) = "mark"
  /\ Update(r, SetDestroyed(row[r]))
  /\ NextRun(x)
  /\ UNCHANGED <<roster, outside, history, reaperFrame>>

(* A step of the teardown throws.                                           *)
ReaperThrow(x) ==
  /\ Step(x) \in TeardownSteps /\ Exists(Cur(x))
  /\ \E clears \in BOOLEAN :
       reaper' = [reaper EXCEPT ![x].pc = "threw", ![x].clears = clears]
  /\ UNCHANGED <<tables, outside, lock, history, reaperFrame>>

(* Mutant of the next action: a failure that clears itself is always retried. *)
ReaperDecideForever(x) ==
  LET r == Cur(x) IN
  /\ Step(x) = "threw" /\ Exists(r)
  /\ Update(r, IF reaper[x].clears THEN SetDestroyRetry(row[r]) ELSE SetDestroyFailed(row[r]))
  /\ NextRun(x)
  /\ UNCHANGED <<roster, outside, history, reaperFrame>>

(* decideDestroyFailure: another tick for a failure known to clear itself,  *)
(* while attempts remain; a flag for any other.                             *)
ReaperDecide(x) ==
  LET r == Cur(x)
      retry == reaper[x].clears /\ reaper[x].attempt < MAX_DESTROY_ATTEMPTS
  IN
  /\ Step(x) = "threw" /\ Exists(r)
  /\ Update(r, IF retry THEN SetDestroyRetry(row[r]) ELSE SetDestroyFailed(row[r]))
  /\ NextRun(x)
  /\ UNCHANGED <<roster, outside, history, reaperFrame>>

(* The row went away under the attempt: the next log line throws, the one   *)
(* in the catch block throws again, and the execution ends.                 *)
ReaperLoseRow(x) ==
  /\ Step(x) \in (TeardownSteps \ {"mark"}) \cup {"threw"} /\ ~Exists(Cur(x))
  /\ Exit(x)
  /\ UNCHANGED <<tables, outside, history, reaperFrame>>

(* The process is killed: its locks go, its claim stays.                    *)
ReaperCrash(x) ==
  /\ Step(x) # "idle"
  /\ died' = IF Step(x) \in TeardownSteps \cup {"threw"} /\ row[Cur(x)].claimed
             THEN died \cup {Cur(x)} ELSE died
  /\ Exit(x)
  /\ UNCHANGED <<tables, outside, stale, resets, reaperFrame>>

ReaperStep(x) ==
  \/ ReaperList(x)
  \/ ReaperTryLock(x)
  \/ ReaperClaim(x)
  \/ ReaperFlagDead(x)
  \/ ReaperDestroyCloud(x)
  \/ ReaperDestroyHarness(x)
  \/ ReaperDeleteAccounts(x)
  \/ ReaperDeleteOrgUnit(x)
  \/ ReaperForget(x)
  \/ ReaperFinish(x)
  \/ ReaperMark(x)
  \/ ReaperDecide(x)
  \/ ReaperLoseRow(x)

ReaperNext == \E x \in Reapers : ReaperStep(x) \/ ReaperThrow(x) \/ ReaperCrash(x)
=============================================================================
