---------------------------- MODULE SecretScrub ----------------------------
(***************************************************************************)
(* A credential of ours in somebody else's Harness account.                *)
(*                                                                         *)
(* A content deploy writes the credential and enters it in a ledger; when  *)
(* its window is up a sweep (in the reaper's job, under a lock) or a       *)
(* person (in the web app, under none) writes `123` over it, unless the    *)
(* account's owner has changed it meanwhile.  One secret is modelled: two  *)
(* share nothing but the sweep's loop, which is here as the copy of the    *)
(* row a sweep keeps while the world moves on.                             *)
(***************************************************************************)
EXTENDS Integers, FiniteSets

CONSTANTS
  Sweeps,       \* executions of the reaper's job that may overlap
  Clicks,       \* web requests that scrub by hand
  MaxDeploys,   \* content deploys of the secret
  MaxEdits,     \* times the owner changes or removes it
  MaxFaults     \* calls lost, refused or answered too late, and processes killed

ASSUME ScrubConstants ==
  /\ MaxDeploys \in Nat /\ MaxEdits \in Nat /\ MaxFaults \in Nat
  /\ Sweeps \cap Clicks = {}

MAX_ATTEMPTS == 3
Scrubbers == Sweeps \cup Clicks
Stamps == Nat      \* Harness's clock, which a step moves on by one

VARIABLES
  secret,    \* the secret in Harness: whose value, and its updatedAt
  ledger,    \* its row in harness_deployed_secrets
  token,     \* this site still holds the token it was deployed with
  deploy,    \* the content deploy under way
  scrub,     \* each scrubber: where it is, its copy of the row, its verdict
  sweeping,  \* holder of the sweep's advisory lock, or none: a set
  budget,    \* deploys, edits and faults still to come
  lost,      \* history: stamps of values whose creation was not recorded
  overtaken  \* history: a verdict was recorded on a later deploy than it judged

ledgerVars == <<ledger, token>>
scrubVars == <<secret, ledger, token, deploy, scrub, sweeping, budget, lost, overtaken>>

Entry == [status  : {"absent", "pending", "scrubbed", "skipped", "failed"},
          stamp   : Stamps,                        \* harness_updated_at
          due     : BOOLEAN,                       \* scrub_after has passed
          checked : {"never", "recent", "old"},    \* checked_at: null, within the hour, before
          linked  : BOOLEAN]                       \* token_id is not null

NoEntry == [status |-> "absent", stamp |-> 0, due |-> FALSE, checked |-> "never", linked |-> FALSE]
AtRest == [pc |-> "idle", copy |-> NoEntry, seen |-> 0, verdict |-> "none"]

ScrubInit ==
  /\ secret = [value |-> "none", stamp |-> 0]
  /\ ledger = NoEntry
  /\ deploy = [pc |-> "idle", tries |-> 0, stamp |-> 0]
  /\ scrub = [s \in Scrubbers |-> AtRest]
  /\ sweeping = {}
  /\ budget \in {[deploys |-> MaxDeploys, edits |-> MaxEdits, faults |-> MaxFaults],
                 [deploys |-> 0, edits |-> 0, faults |-> 0]}
  /\ token = (budget.deploys > 0)
  /\ lost = {}
  /\ overtaken = FALSE

Fault == budget.faults > 0 /\ budget' = [budget EXCEPT !.faults = @ - 1]
Write(value) == secret' = [value |-> value, stamp |-> secret.stamp + 1]

-----------------------------------------------------------------------------
(* deploySecrets, for one secret: POST with retries, then the ledger.       *)

DeployStart ==
  /\ deploy.pc = "idle" /\ token /\ budget.deploys > 0
  /\ deploy' = [deploy EXCEPT !.pc = "post", !.tries = 0]
  /\ budget' = [budget EXCEPT !.deploys = @ - 1]
  /\ UNCHANGED <<secret, ledgerVars, scrub, sweeping, lost, overtaken>>

DeployCreated ==
  /\ deploy.pc = "post" /\ secret.value = "none"
  /\ Write("real")
  /\ deploy' = [deploy EXCEPT !.pc = "record", !.stamp = secret.stamp + 1]
  /\ UNCHANGED <<ledgerVars, scrub, sweeping, budget, lost, overtaken>>

(* A duplicate is an outcome of its own, and nothing is recorded for it.    *)
DeployExisted ==
  /\ deploy.pc = "post" /\ secret.value # "none"
  /\ deploy' = [deploy EXCEPT !.pc = "idle"]
  /\ UNCHANGED <<secret, ledgerVars, scrub, sweeping, budget, lost, overtaken>>

(* No answer, or one worth another attempt; the call may have been carried  *)
(* out all the same.                                                        *)
DeployUnanswered ==
  /\ deploy.pc = "post" /\ Fault
  /\ \/ UNCHANGED <<secret, lost>>
     \/ /\ secret.value = "none"
        /\ Write("real")
        /\ lost' = lost \cup {secret.stamp + 1}
  /\ deploy' = [deploy EXCEPT !.tries = @ + 1,
                              !.pc = IF deploy.tries + 1 = MAX_ATTEMPTS THEN "idle" ELSE @]
  /\ UNCHANGED <<ledgerVars, scrub, sweeping, overtaken>>

(* recordDeployedSecret: the token's id is a foreign key.                   *)
Pending == [status |-> "pending", stamp |-> deploy.stamp, due |-> FALSE,
            checked |-> "never", linked |-> TRUE]

DeployRecordOnce ==     \* mutant: on a conflict the first row stays
  /\ deploy.pc = "record" /\ token
  /\ ledger' = IF ledger.status = "absent" THEN Pending ELSE ledger
  /\ deploy' = [deploy EXCEPT !.pc = "idle"]
  /\ UNCHANGED <<secret, token, scrub, sweeping, budget, lost, overtaken>>

DeployRecord ==
  /\ deploy.pc = "record" /\ token
  /\ ledger' = Pending
  /\ deploy' = [deploy EXCEPT !.pc = "idle"]
  /\ UNCHANGED <<secret, token, scrub, sweeping, budget, lost, overtaken>>

DeployUnrecorded ==
  /\ deploy.pc = "record"
  /\ IF token THEN Fault ELSE UNCHANGED budget
  /\ lost' = lost \cup {deploy.stamp}
  /\ deploy' = [deploy EXCEPT !.pc = "idle"]
  /\ UNCHANGED <<secret, ledgerVars, scrub, sweeping, overtaken>>

-----------------------------------------------------------------------------
(* The two scrubbers: the same calls, another choice of rows.               *)

At(s, pc) == scrub[s].pc = pc
Judge(s, verdict) == scrub' = [scrub EXCEPT ![s].pc = "record", ![s].verdict = verdict]
Begin(s) == scrub' = [scrub EXCEPT ![s] = [AtRest EXCEPT !.pc = "look", !.copy = ledger]]

(* The where clause of dueScrubs.                                           *)
DueForEver(w) ==        \* mutant: a row whose token is gone is not selected
  /\ w.due /\ w.linked
  /\ w.status = "pending" \/ (w.status = "failed" /\ w.checked # "recent")
Due(w) ==
  /\ w.due
  /\ w.status = "pending" \/ (w.status = "failed" /\ w.checked # "recent")
  /\ w.linked \/ w.checked = "never"

(* scrubDeployedSecrets: take the lock or leave, then list what is due.     *)
SweepStart(s) ==
  /\ At(s, "idle") /\ sweeping = {} /\ Due(ledger)
  /\ Begin(s)
  /\ sweeping' = {s}
  /\ UNCHANGED <<secret, ledgerVars, deploy, budget, lost, overtaken>>

(* scrubWithToken: whatever is not settled, due or not.                     *)
ClickStart(s) ==
  /\ At(s, "idle") /\ ledger.linked /\ ledger.status \in {"pending", "failed"}
  /\ Begin(s)
  /\ UNCHANGED <<secret, ledgerVars, deploy, sweeping, budget, lost, overtaken>>

(* modifiedSince, for a row that knows Harness's timestamp and an answer    *)
(* that carries one.                                                        *)
ModifiedLater(copy, stamp) == stamp > copy.stamp + 1   \* mutant: a skew allowed here as well
ModifiedSince(copy, stamp) == stamp # copy.stamp

Look(s) ==
  /\ At(s, "look")
  /\ IF ~scrub[s].copy.linked THEN Judge(s, "failed")
     ELSE IF secret.value = "none" THEN Judge(s, "scrubbed")
     ELSE IF ModifiedSince(scrub[s].copy, secret.stamp) THEN Judge(s, "skipped")
     ELSE scrub' = [scrub EXCEPT ![s].pc = "put", ![s].seen = secret.stamp]
  /\ UNCHANGED <<secret, ledgerVars, deploy, sweeping, budget, lost, overtaken>>

LookFails(s) ==
  /\ At(s, "look") /\ scrub[s].copy.linked /\ Fault
  /\ Judge(s, "failed")
  /\ UNCHANGED <<secret, ledgerVars, deploy, sweeping, lost, overtaken>>

Overwrite(s) ==
  /\ At(s, "put")
  /\ IF secret.value = "none" THEN UNCHANGED secret ELSE Write("123")
  /\ Judge(s, "scrubbed")
  /\ UNCHANGED <<ledgerVars, deploy, sweeping, budget, lost, overtaken>>

OverwriteFails(s) ==
  /\ At(s, "put") /\ Fault
  /\ UNCHANGED secret \/ (secret.value # "none" /\ Write("123"))
  /\ Judge(s, "failed")
  /\ UNCHANGED <<ledgerVars, deploy, sweeping, lost, overtaken>>

Leave(s) ==
  /\ scrub' = [scrub EXCEPT ![s] = AtRest]
  /\ sweeping' = sweeping \ {s}

(* recordScrub: by the row's id, whatever the row says by now.              *)
RecordVerdict(s) == [ledger EXCEPT !.status = scrub[s].verdict, !.checked = "recent"]

Record(s) ==
  /\ At(s, "record")
  /\ ledger' = RecordVerdict(s)
  /\ overtaken' = (overtaken \/ scrub[s].copy.stamp # ledger.stamp)
  /\ Leave(s)
  /\ UNCHANGED <<secret, token, deploy, budget, lost>>

(* The record is lost, or the process dies at any point (its session goes,  *)
(* and the lock with it).                                                   *)
Abandon(s) ==
  /\ ~At(s, "idle") /\ Fault
  /\ Leave(s)
  /\ UNCHANGED <<secret, ledgerVars, deploy, lost, overtaken>>

(* deleteHarnessToken scrubs first (a click), then deletes, whatever came   *)
(* of it; the rows lose their token.                                        *)
DeleteToken ==
  /\ token
  /\ token' = FALSE
  /\ ledger' = [ledger EXCEPT !.linked = FALSE]
  /\ UNCHANGED <<secret, deploy, scrub, sweeping, budget, lost, overtaken>>

-----------------------------------------------------------------------------
(* The account's owner, and time.                                           *)

OwnerActs ==
  /\ secret.value # "none" /\ budget.edits > 0
  /\ budget' = [budget EXCEPT !.edits = @ - 1]
  /\ Write("theirs") \/ Write("none")
  /\ UNCHANGED <<ledgerVars, deploy, scrub, sweeping, lost, overtaken>>

TimePasses ==
  /\ \/ /\ ledger.status # "absent" /\ ~ledger.due
        /\ ledger' = [ledger EXCEPT !.due = TRUE]
     \/ /\ ledger.checked = "recent"
        /\ ledger' = [ledger EXCEPT !.checked = "old"]
  /\ UNCHANGED <<secret, token, deploy, scrub, sweeping, budget, lost, overtaken>>

ScrubStep(s) == Look(s) \/ Overwrite(s) \/ Record(s)
ScrubFault(s) == LookFails(s) \/ OverwriteFails(s) \/ Abandon(s)

ScrubNext ==
  \/ DeployStart \/ DeployCreated \/ DeployExisted \/ DeployUnanswered
  \/ DeployRecord \/ DeployUnrecorded \/ DeleteToken \/ OwnerActs \/ TimePasses
  \/ \E s \in Sweeps : SweepStart(s)
  \/ \E s \in Clicks : ClickStart(s)
  \/ \E s \in Scrubbers : ScrubStep(s) \/ ScrubFault(s)

ScrubSpec == ScrubInit /\ [][ScrubNext]_scrubVars

(* The reaper's job is started every few minutes for ever, what has begun   *)
(* goes on unless a fault stops it, and time passes.                        *)
ScrubFairness ==
  /\ \A s \in Scrubbers : WF_scrubVars(ScrubStep(s))
  /\ WF_scrubVars(\E s \in Sweeps : SweepStart(s))
  /\ WF_scrubVars(TimePasses)

-----------------------------------------------------------------------------
ScrubTypeOK ==
  /\ secret \in [value : {"none", "real", "123", "theirs"}, stamp : Stamps]
  /\ ledger \in Entry
  /\ token \in BOOLEAN
  /\ deploy \in [pc : {"idle", "post", "record"}, tries : 0 .. MAX_ATTEMPTS, stamp : Stamps]
  /\ scrub \in [Scrubbers -> [pc : {"idle", "look", "put", "record"}, copy : Entry, seen : Stamps,
                              verdict : {"none", "scrubbed", "skipped", "failed"}]]
  /\ sweeping \in SUBSET Sweeps
  /\ budget \in [deploys : 0 .. MaxDeploys, edits : 0 .. MaxEdits, faults : 0 .. MaxFaults]
  /\ lost \in SUBSET Stamps
  /\ overtaken \in BOOLEAN

(* A credential of ours that was recorded stays on the list of what is to   *)
(* be taken back for as long as it stands: no crash between the overwrite   *)
(* and its record, no failed call and no redeploy settles its row early.    *)
RealIsOwed ==
  (secret.value = "real" /\ secret.stamp \notin lost /\ ~overtaken /\ deploy.pc # "record")
    => ledger.status \in {"pending", "failed"} /\ ledger.stamp = secret.stamp

(* An owner's value is overwritten only by a scrubber that looked before    *)
(* the owner put it there, whichever scrubbers, records and retries there   *)
(* were before.                                                             *)
TheirsIsKept ==
  [][secret.value = "theirs" /\ secret'.value = "123" =>
       \E s \in Scrubbers : At(s, "put") /\ scrub[s].seen # secret.stamp]_scrubVars

(* A recorded credential is taken back, or a person is told that it cannot  *)
(* be: a row whose token is gone still gets its one verdict.                *)
TakenBack ==
  (secret.value = "real" /\ ledger.stamp = secret.stamp /\ ledger.status = "pending")
    ~> (secret.value # "real" \/ overtaken \/ (~ledger.linked /\ ledger.status = "failed"))
=============================================================================
