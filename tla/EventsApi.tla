------------------------------ MODULE EventsApi ------------------------------
(***************************************************************************)
(* The web app's event routes: what people do to a run.                    *)
(*                                                                         *)
(* Most handlers read the row, decide, and then write by id with no        *)
(* condition on what was read, so any other actor may come between the two *)
(* (ReadFor and the Write actions).  The three that start a runner claim   *)
(* the row with a conditional update first (a compare and set on status),  *)
(* call Cloud Run, and put the status back when that call fails.  The      *)
(* instance serving a request may die between any two steps.               *)
(***************************************************************************)
EXTENDS Reaper

ReqState == [pc   : {"idle", "write", "reprovision", "trigger", "rollback", "done"},
             op   : AllOps \cup {"none"},
             run  : Runs \cup {Null},
             seen : Row,                 \* the row as the handler read it
             want : SUBSET Clouds]       \* the configuration asked for

IdleReq == [pc |-> "idle", op |-> "none", run |-> Null, seen |-> Unbooked, want |-> {}]
DoneReq == [IdleReq EXCEPT !.pc = "done"]

Editability(w) == CASE w.status = "scheduled" -> "full"
                    [] w.status = "ready" -> "grow"
                    [] OTHER -> "locked"

Serving(q, pc, op) == req[q].pc = pc /\ req[q].op = op
Answer(q) == req' = [req EXCEPT ![q] = DoneReq]
Then(q, pc) == req' = [req EXCEPT ![q].pc = pc]

apiFrame == <<outside, now, reaping, due>>

(* createScheduledRun: one insert.                                          *)
CreateScheduledRun(r) ==
  /\ row[r].status = "unbooked"
  /\ \E clouds \in Bookings, start \in StartDays :
       row' = [row EXCEPT ![r] = [Unbooked EXCEPT !.status = "scheduled", !.ttl = DEFAULT_TTL,
                                                  !.start = start, !.clouds = clouds]]
  /\ UNCHANGED <<roster, exec, req, history, apiFrame>>

(* What each handler accepts of the row it read.                            *)
Accepts(op, w, want) ==
  CASE op = "extend" ->
         ~w.del /\ w.status \notin {"destroying", "destroy_failed", "destroyed", "failed"}
    [] op = "end" -> w.status = "ready" /\ ~w.del
    [] op = "delete" -> w.status \notin InFlight
    [] op = "retryTeardown" -> w.status = "destroy_failed"
    [] op = "update" ->
         /\ want # w.clouds
         /\ \/ Editability(w) = "full"
            \/ Editability(w) = "grow" /\ w.clouds \subseteq want

(* The read half of extendRun, endRunNow, deleteRun, retryTeardown and      *)
(* updateRunConfig; a refused request changes nothing.                      *)
ReadFor(q) ==
  /\ req[q].pc = "idle"
  /\ \E r \in Runs, op \in Ops \ {"startNow", "retry"} :
       \E want \in IF op = "update" THEN Bookings \cup {Clouds} ELSE {{}} :
         /\ Exists(r) /\ Accepts(op, row[r], want)
         /\ req' = [req EXCEPT ![q] = [pc |-> "write", op |-> op, run |-> r,
                                       seen |-> row[r], want |-> want]]
  /\ UNCHANGED <<tables, exec, history, apiFrame>>

(* A write that lands on a row which moved on since it was read.            *)
NoteStale(q) ==
  LET r == req[q].run IN
  stale' = IF Exists(r) /\ MovedOn(r, req[q].seen) THEN stale \cup {r} ELSE stale

(* extendRun: a day added to the value that was read.                       *)
WriteExtend(q) ==
  LET r == req[q].run
      seen == req[q].seen
  IN
  /\ Serving(q, "write", "extend")
  /\ Update(r, IF seen.expires # NoExpiry
               THEN [row[r] EXCEPT !.expires = seen.expires + EXTENSION]
               ELSE [row[r] EXCEPT !.ttl = seen.ttl + EXTENSION])
  /\ NoteStale(q)
  /\ Answer(q)
  /\ UNCHANGED <<roster, exec, died, resets, apiFrame>>

(* endRunNow: the end time becomes now.                                     *)
WriteEnd(q) ==
  LET r == req[q].run IN
  /\ Serving(q, "write", "end")
  /\ Update(r, [row[r] EXCEPT !.expires = now])
  /\ NoteStale(q)
  /\ Answer(q)
  /\ UNCHANGED <<roster, exec, died, resets, apiFrame>>

(* DESTROY_RESET: hand the teardown to the reaper for one fresh attempt.    *)
DestroyReset(w) == [w EXCEPT !.status = "destroying", !.claimed = FALSE]

(* deleteRun: a run with nothing to tear down is dropped, with its roster   *)
(* by cascade; any other is marked and handed to the reaper.                *)
WriteDelete(q) ==
  LET r == req[q].run IN
  /\ Serving(q, "write", "delete")
  /\ IF req[q].seen.status \in {"scheduled", "destroyed"}
     THEN /\ Update(r, Deleted)
          /\ roster' = roster \ {r}
          /\ UNCHANGED <<died, resets>>
     ELSE /\ Update(r, [DestroyReset(row[r]) EXCEPT !.del = TRUE])
          /\ resets' = [resets EXCEPT ![r] = @ + 1]
          /\ died' = died \ {r}
          /\ UNCHANGED roster
  /\ NoteStale(q)
  /\ Answer(q)
  /\ UNCHANGED <<exec, apiFrame>>

WriteRetryTeardown(q) ==
  LET r == req[q].run IN
  /\ Serving(q, "write", "retryTeardown")
  /\ Update(r, DestroyReset(row[r]))
  /\ resets' = [resets EXCEPT ![r] = @ + 1]
  /\ died' = died \ {r}
  /\ NoteStale(q)
  /\ Answer(q)
  /\ UNCHANGED <<roster, exec, apiFrame>>

(* updateRunConfig, and whether the PATCH route goes on to reprovisionRun.  *)
WriteUpdate(q) ==
  LET r == req[q].run IN
  /\ Serving(q, "write", "update")
  /\ Update(r, [row[r] EXCEPT !.clouds = req[q].want])
  /\ NoteStale(q)
  /\ IF Exists(r) /\ Editability(req[q].seen) = "grow" THEN Then(q, "reprovision") ELSE Answer(q)
  /\ UNCHANGED <<roster, exec, died, resets, apiFrame>>

(* The claim of reprovisionRun: only a ready run is queued.                 *)
ClaimReprovision(q) ==
  LET r == req[q].run IN
  /\ req[q].pc = "reprovision"
  /\ IF row[r].status = "ready"
     THEN Update(r, [row[r] EXCEPT !.status = "requested"]) /\ Then(q, "trigger")
     ELSE Answer(q) /\ UNCHANGED row
  /\ UNCHANGED <<roster, exec, history, apiFrame>>

(* The claims of startRunNow and retryRun.                                  *)
ClaimFrom(op) == IF op = "startNow" THEN "scheduled" ELSE "failed"

ClaimStart(q) ==
  /\ req[q].pc = "idle"
  /\ \E r \in Runs, op \in Ops \cap {"startNow", "retry"} :
       /\ row[r].status = ClaimFrom(op)
       /\ Update(r, [row[r] EXCEPT !.status = "requested"])
       /\ req' = [req EXCEPT ![q] = [IdleReq EXCEPT !.pc = "trigger", !.op = op, !.run = r]]
  /\ UNCHANGED <<roster, exec, history, apiFrame>>

(* triggerRunnerJob answers: an execution is queued.                        *)
TriggerOk(q) ==
  /\ req[q].pc = "trigger"
  /\ \E e \in Executions : Accept(e, req[q].run)
  /\ Answer(q)
  /\ UNCHANGED <<tables, history, apiFrame>>

(* It throws, or the log line after it does.  The log line is inside the    *)
(* try: when it is what failed, the job has started all the same.           *)
TriggerThrows(q) ==
  /\ req[q].pc = "trigger"
  /\ \/ UNCHANGED <<exec, stale>>
     \/ /\ Ambiguous
        /\ \E e \in Executions : Accept(e, req[q].run)
        /\ stale' = stale \cup {req[q].run}
  /\ Then(q, "rollback")
  /\ UNCHANGED <<tables, died, resets, apiFrame>>

(* The catch block puts the status back, whatever it is by now.             *)
Rollback(q) ==
  LET r == req[q].run
      before == IF req[q].op = "update" THEN "ready" ELSE ClaimFrom(req[q].op)
  IN
  /\ req[q].pc = "rollback"
  /\ Update(r, [row[r] EXCEPT !.status = before])
  /\ stale' = IF Exists(r) /\ row[r].status # "requested" THEN stale \cup {r} ELSE stale
  /\ Answer(q)
  /\ UNCHANGED <<roster, exec, died, resets, apiFrame>>

(* The instance dies between two steps of a handler.                        *)
ApiCrash(q) ==
  /\ req[q].pc \notin {"idle", "done"}
  /\ Answer(q)
  /\ UNCHANGED <<tables, exec, history, apiFrame>>

ApiWrite(q) ==
  \/ WriteExtend(q)
  \/ WriteEnd(q)
  \/ WriteDelete(q)
  \/ WriteRetryTeardown(q)
  \/ WriteUpdate(q)
  \/ ClaimReprovision(q)
  \/ TriggerOk(q)
  \/ TriggerThrows(q)
  \/ Rollback(q)

ApiNext ==
  \/ \E r \in Runs : CreateScheduledRun(r)
  \/ \E q \in Requests : ReadFor(q) \/ ClaimStart(q) \/ ApiWrite(q) \/ ApiCrash(q)
=============================================================================
