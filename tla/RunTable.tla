------------------------------ MODULE RunTable ------------------------------
(***************************************************************************)
(* The table `workshop_runs` and everything its actors share.              *)
(*                                                                         *)
(* A run (an event) is one row.  Four programs read and write it with      *)
(* single SQL statements and no transaction that spans a read and the      *)
(* write that follows from it: the web app (EventsApi), the scheduler job  *)
(* (Scheduler), the runner job (Runner) and the reaper job (Reaper).  The  *)
(* operators of this module are those statements, as functions from a row  *)
(* to the row they leave; the actor modules say when each is issued.       *)
(*                                                                         *)
(* Data is cut down to what the actors branch on.  An event's              *)
(* configuration (seats, clouds, scenarios) is its set of clouds; a time   *)
(* is a day number; the accounts of an event are one item, and what an     *)
(* event owns in other services is the set of items standing there.        *)
(***************************************************************************)
EXTENDS Integers, FiniteSets

CONSTANTS
  Runs,        \* events that may be booked; one row each
  NameOf,      \* the name each was booked under; names need not differ
  Clouds,      \* clouds a deployment offers, a subset of {"gcp","azure","aws"}
  Bookings,    \* the sets of clouds an event may be booked with
  StartDays,   \* days an event may be booked for
  Ops,         \* the requests people make, a subset of AllOps
  Requests,    \* web requests, each used once (bounds what people do)
  Executions,  \* runner job executions, each used once (bounds provisions)
  Reapers,     \* reaper job executions that may overlap, each used repeatedly
  MaxNow,      \* last day of the clock
  AttemptCap,  \* where the attempt counter saturates
  Ambiguous,   \* may a trigger that started the job be reported as failed?
  Null         \* no run, no reaper

MAX_DESTROY_ATTEMPTS == 3

(* EXTENSION_SECONDS and the time to live an event is booked with, in days. *)
EXTENSION == 1
DEFAULT_TTL == 1
NoExpiry == -1

AllOps == {"startNow", "retry", "update", "extend", "end", "delete", "retryTeardown"}

ASSUME ConstantsAssumption ==
  /\ Clouds \subseteq {"gcp", "azure", "aws"}
  /\ Bookings \subseteq SUBSET Clouds
  /\ StartDays \subseteq Nat
  /\ Ops \subseteq AllOps
  /\ MaxNow \in Nat
  /\ AttemptCap \in Nat
  /\ AttemptCap > MAX_DESTROY_ATTEMPTS
  /\ Ambiguous \in BOOLEAN
  /\ Null \notin Runs \cup Reapers

(* The statuses of the row, and the two ways of having no row: before the   *)
(* event is booked and after it is deleted.                                 *)
InFlight == {"requested", "provisioning", "applying"}
RunStatus == InFlight \cup {"scheduled", "ready", "failed", "destroying",
                            "destroy_failed", "destroyed"}
NoRow == {"unbooked", "deleted"}

Row == [status    : RunStatus \cup NoRow,
        del       : BOOLEAN,           \* delete_requested
        claimed   : BOOLEAN,           \* destroy_started_at is not null
        attempts  : 0 .. AttemptCap,   \* destroy_attempts
        expires   : Int,               \* expires_at; NoExpiry is null
        ttl       : Nat,               \* ttl_seconds
        start     : Nat,               \* scheduled_start
        clouds    : SUBSET Clouds,
        ou        : BOOLEAN]           \* org_unit_path is recorded

Unbooked == [status |-> "unbooked", del |-> FALSE, claimed |-> FALSE, attempts |-> 0,
             expires |-> NoExpiry, ttl |-> 0, start |-> 0, clouds |-> {}, ou |-> FALSE]

Deleted == [Unbooked EXCEPT !.status = "deleted"]

(* What can stand in other services for one run: a terraform layer per      *)
(* cloud, or the grants and cluster on the shared project for a run with no *)
(* cloud; the Harness organization; accounts the roster knows; an account   *)
(* Google made that the roster never heard of.                              *)
Units(clouds) == IF clouds = {} THEN {"sandbox"} ELSE clouds
Thing == Clouds \cup {"sandbox", "harness", "account", "stray"}

VARIABLES
  row,       \* the table: a Row for every run
  roster,    \* runs with rows in workshop_accounts
  standing,  \* what stands in other services for each run
  orgUnits,  \* org units that exist in Google Workspace, by name
  now,       \* the day
  lock,      \* holder of each run's advisory lock, or Null
  reaper,    \* each reaper execution: see Reaper
  exec,      \* each runner execution: see Runner
  req,       \* each web request: see EventsApi
  due,       \* runs the scheduler claimed and has not handed over yet
  stale,     \* history: runs written to by somebody whose knowledge was outdated or wrong
  died,      \* history: runs whose claimed teardown attempt was killed
  resets     \* history: how often a person handed each run to the reaper

tables == <<row, roster>>
outside == <<standing, orgUnits>>
reaping == <<lock, reaper>>
history == <<stale, died, resets>>
vars == <<tables, outside, now, reaping, exec, req, due, history>>

Exists(r) == row[r].status \notin NoRow

(* An update by id changes no row when there is none.                       *)
Update(r, w) == row' = [row EXCEPT ![r] = IF Exists(r) THEN w ELSE @]

(* Has the row moved on from what a reader saw?                             *)
MovedOn(r, seen) == row[r].status # seen.status \/ row[r].clouds # seen.clouds

-----------------------------------------------------------------------------
(* The statements of runner/src/db.ts that the actors issue.                *)

SetProvisioning(w) == [w EXCEPT !.status = "provisioning"]
SetOrgUnitPath(w) == [w EXCEPT !.ou = TRUE]
SetApplying(w) == [w EXCEPT !.status = "applying"]
SetReadyUnlisted(w, expires) ==          \* mutant: a status outside run_status
  [w EXCEPT !.status = "live", !.expires = expires]
SetReady(w, expires) == [w EXCEPT !.status = "ready", !.expires = expires]
SetFailedLive(w) == [w EXCEPT !.status = "ready"]    \* mutant: a copy of setLiveError
SetFailed(w) == [w EXCEPT !.status = "failed"]
SetLiveError(w) == [w EXCEPT !.status = "ready"]
SetScheduledBack(w) == [w EXCEPT !.status = "scheduled"]

SetDestroyClaim(w) ==
  [w EXCEPT !.status = "destroying",
            !.claimed = TRUE,
            !.attempts = IF @ < AttemptCap THEN @ + 1 ELSE @]
SetDestroyRetryHeld(w) == [w EXCEPT !.status = "destroying"]  \* mutant: the claim stays
SetDestroyRetry(w) == [w EXCEPT !.status = "destroying", !.claimed = FALSE]
SetDestroyFailed(w) == [w EXCEPT !.status = "destroy_failed", !.claimed = FALSE]
SetDestroyed(w) == [w EXCEPT !.status = "destroyed", !.claimed = FALSE]

(* expires_at < now().  A day of the model is an interval of real time, so a *)
(* run whose last day has come is past its end before the next one.         *)
Expired(w) == w.expires # NoExpiry /\ w.expires <= now

(* Mutants of the next definition: a failure is due for teardown, a flagged *)
(* run is, a deleted one is not, one past its end is not.                   *)
ReapableOnFailure(w) ==
  w.status \notin NoRow /\ (w.del \/ w.status \in {"destroying", "failed"})
ReapableWhileFlagged(w) ==
  w.status \notin NoRow /\ (w.del \/ w.status = "destroying" \/ (w.status = "ready" /\ Expired(w)))
ReapableByStatus(w) == w.status = "destroying" \/ (w.status = "ready" /\ Expired(w))
ReapableOnRequest(w) ==
  w.status \notin NoRow \cup {"destroy_failed"} /\ (w.del \/ w.status = "destroying")

(* The where clause of reapableRuns.                                        *)
Reapable(w) ==
  /\ w.status \notin NoRow
  /\ w.del \/ w.status = "destroying" \/ (w.status = "ready" /\ Expired(w))
  /\ w.status # "destroy_failed"

(* Scheduled runs whose start is near enough for claimDueScheduledRuns.     *)
DueToStart(w) == w.status = "scheduled" /\ w.start <= now
=============================================================================
