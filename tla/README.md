# A formal model of the workshop orchestrator

`wsorchestrator` books, builds and tears down hands-on workshops ("events"; a
*run* in the code). A Next.js web app (`src/frontend`) takes the requests, three
Cloud Run jobs (`src/runner`) do the work, and one Postgres table,
`workshop_runs`, is what they share. Around that core the app records interviews,
pulls learners' progress from Mindtickle, makes videos, holds adaptive tests, and starts jobs of its own on
a clock. This directory holds a TLA+ model of all of these, the TLC
configurations that check it, and TLAPS proofs about it.

There are two compositions. **The life of a run** (`WorkshopRuns`): four programs
write one row with single statements and no transaction around a read and
the write that follows from it, and any of them may be killed between two statements.
**The services** (`Services`): nine parts that share no state with that row or
with one another, each with races and failures of its own.

## 1. Inventory

### Components

| Component | Code | State | Operations |
|---|---|---|---|
| Run table | `runner/src/db.ts`, `frontend/src/db/schema.ts` | rows of `workshop_runs`, `workshop_accounts`, advisory locks | one SQL statement each: `setProvisioning` … `setDestroyed`, `claimDestroy`, `reapableRuns`, `claimDueScheduledRuns`, `withRunLock` |
| Runner (`tf-runner`) | `runner/src/run.ts`, `directory.ts` | its copy of the row, what it has built | `runWorkshop`: org unit, accounts, Harness, clouds, ready; the catch block |
| Reaper (`tf-reaper`) | `runner/src/reap.ts`, `destroy-policy.ts` | its listing, the lock, the claim | `reap`, `destroyRun`, `decideDestroyFailure` |
| Scheduler (`tf-scheduler`) | `runner/src/schedule.ts` | runs claimed and not yet handed over | `provisionDue` |
| Event routes | `frontend/src/lib/runs.ts`, `trigger.ts`, `app/api/runs/**` | one handler's local variables | create, start now, retry, edit, extend, end, delete, retry teardown |
| Apply retries | `run.ts` 764–811, `classify.ts` | attempts per kind of failure, the account's state at AWS | apply, judge, wait, give up |
| Challenge layers | `run.ts` 862–965 and 1198–1390, `scenarios.ts`, `lib/runs.ts` | selection, the run's outputs, what stands | zone walk, reconcile, edit of the selection |
| Component catalog | `runner/src/components.ts`, `run.ts` 150–230, `reap.ts` 312–359 | components in an organization, outputs at hand | a pass, a repeated provision, a teardown |
| Secret scrub | `runner/src/scrub.ts`, `lib/harness-scrub.ts`, `lib/harness-deploy.ts` | `harness_deployed_secrets`, the secret in Harness | deploy, sweep, manual scrub, forgotten token |
| Timed jobs | `lib/timed-jobs.ts`, `timed-job-runs.ts` | `timed_jobs`: `scheduled_for`, status, switch | tick, claim, start, finish, reschedule |
| Recording upload | `lib/recording/*.ts`, the recording routes | browser's store, chunks, the track's row, the join's claim | save, pass, put, finish, join, delete |
| Canary Wire pull | `lib/canary-wire/pull.ts`, `store.ts` | one pull row, lease, saved state, snapshot | start, step, pause, release, abandon |
| Mimir Studio | `lib/mimir/studio/*`, `src/scripts/explainer-video/studio/*` | studio jobs, `mimir_concept_videos`, the bucket | ask, execute, publish, translate, import |
| Iris sittings | `lib/iris/attempts.ts`, `engine.ts`, `reviews.ts`, `cohort.ts` 256–262, the diagnostic routes and their page | `iris_attempts`, `iris_responses`, the questions approved | start or resume, answer (grade, place, draw the next), clear |
| Attendee claims, access, backups, bootcamp scheduler, evals, surveys, reporting, Mimir lessons, cloud audit, UI, infrastructure | see `PROJECT.json` | records people edit, pages, Terraform | mostly reads, single writes and pure transformations |

(`lib/graph.ts` is the Microsoft Graph client and `retry.ts` an HTTP backoff:
neither is a graph algorithm or a job's retry.)

`PROJECT.json` lists every component with what is modelled and why the rest is
not (yet).

### How they interact

* The **web app** inserts a row (`scheduled`), and later updates it by id. Three
  requests claim the row with a conditional update (`scheduled|failed|ready →
  requested`) and then call Cloud Run to start a runner; if the call throws the
  status is put back.
* The **scheduler** does the same for every row whose start has come.
* A **runner** reads the row once, works from that copy for up to an hour, and
  writes statuses back unconditionally.
* The **reaper** is started every few minutes, lists the rows that are due,
  and tears them down one at a time, each under a session-scoped advisory lock.
  A teardown outlasts the tick, so executions overlap. A column
  (`destroy_started_at`, the *claim*) tells a dead attempt from a live one.
* The **services** each keep rows of their own. The sweep of secrets runs in the
  reaper's job before it reaps, the layers and the catalog are applied
  inside a provision, the pull is stepped by the timed-job dispatcher: they share a
  process with the core, not its state.
* What stands in Google Workspace, Harness and the clouds is known to the row and
  the roster only: when the row is gone so is every trace of it.

### What is hard about it

Stale listings and stale copies (the reaper's, the runner's, each handler's);
unconditional writes after an `await`; overlapping reapers; processes killed by
the 600/1800/3600 s limits of the jobs between any two statements; calls that
fail after having taken effect; a roster that does not know every account; log
lines that violate a foreign key once the row is gone, and so end the process.
In the services: calls whose answer is lost after they took effect; leases and claims that
age out under a worker who is alive; a lock on one path and none on the other; the clock
read before a write; a row replaced between a job's read and its late write.
`PROJECT.json` has them under "hazards", each at its line, with the properties
that watch it; those without one say what is planned.

### What makes each component correct

* **Run table:** statuses stay in the enum; a live event has an end time.
* **Runner:** a run shown live is built, whichever path took it there; a failure
  neither destroys a run nor takes a live one down; a granted extension holds.
* **Reaper:** one teardown of a run at a time; a claim that is met was left by a
  death; nothing is left standing once the record is closed; attempts are bounded;
  a settled teardown stays settled; every teardown settles.
* **Scheduler, routes:** what is put in flight lands; a delete is honoured; the
  record outlives the resources.

* **Secret scrub:** a credential of ours stays owed until it is gone; the owner's own
  value is not touched.
* **Recording upload:** what was recorded is kept until all of it is on offer.
* **Timed jobs:** once per due time, none before a change of schedule, none forgotten.
* **Applies, layers, catalog:** budgets are separate; a recorded cluster is not moved; off
  before on, and what stands is known; parts before what refers to them.
* **Canary Wire pull:** one step at a time while leases hold; a success is what the pages show.
* **Studio:** a translation belongs to the video beside it.
* **Iris sittings:** a sitting has the length promised, a placement is earned and a tiebreak does not
  lower it; answers given are not thrown away by another page.

## 2. Modules

### The life of a run

```
RunTable <- Runner <- Reaper <- EventsApi <- Scheduler <- WorkshopRuns <- DocClaims <- MCWorkshopRuns
                  WorkshopRuns <- WorkshopRunsTyping <- WorkshopRunsProofs <- WorkshopRunsOwnership <- WorkshopRunsStanding
```

| Module | Models | Notes |
|---|---|---|
| `RunTable` | the table, everything shared, and each SQL statement as a function from row to row | the constants and `ConstantsAssumption` |
| `Runner` | `runWorkshop` | `exec[e]`: program counter, run, the copy of `expires_at`/`ttl_seconds`, layers left to apply |
| `Reaper` | `reap` / `destroyRun` / `withRunLock` | `reaper[x]`: program counter, listing, current run, layers left, attempt |
| `EventsApi` | the event routes | `req[q]`: program counter, operation, the row as it was read |
| `Scheduler` | `provisionDue` | `due`: claimed and not handed over |
| `WorkshopRuns` | the composition: `Init`, `Tick`, `Next`, `Spec`, `Fairness`, the properties | |
| `DocClaims` | statements of the repository's docs and comments that the code does not keep | see Findings |
| `MCWorkshopRuns` | definitions for TLC's instances | |
| `WorkshopRunsTyping`, `WorkshopRunsProofs`, `WorkshopRunsOwnership`, `WorkshopRunsStanding` | theorems and proofs: types; the lock and the claim; who may write a run; what stands for it | section 6 |

The modules extend each other because the actors share one set of variables;
the composition is interleaving. Every action ends at a statement that another
actor can observe, so a handler with a read and a write is two actions
(`ReadFor`, `Write…`), and a job is one action per step of its function. The end of a
provision is three: `RunnerReady` (`setReady`, after which the event is live for
everybody), `RunnerAnnounce` (the log line that follows) and `RunnerLateVerdict` (that line
throws and the catch block writes `failed` or `ready` by id, whatever became of the row).

**State and code.** `row[r]` has the columns that somebody branches on: status,
`delete_requested`, the claim, `destroy_attempts`, `expires_at`, `ttl_seconds`,
`scheduled_start`, `clouds`, whether `org_unit_path` is set. The configuration of
an event is its set of clouds. `standing[r]` is what exists in other services for
the run: a layer per cloud (or the `sandbox` grants of a run booked without
one), the `harness` organization, the `account`s the roster knows, a `stray`
account Google made whose answer was lost. `roster` and `orgUnits` are
`workshop_accounts` and the org units by name. `lock[r]` is the advisory lock;
`Unlock` on death is Postgres dropping the session. A row that was deleted is
never reused.

**History variables.** They are read by properties, never by an action's guard.

* `stale`: runs written to by somebody whose knowledge was outdated
  (`MovedOn`: status or clouds changed since the read; or a late verdict on an announcement
  when the run is no longer `ready`) or wrong (a trigger that
  started a job and was taken for failed). Such writes are real, are
  modelled, and break the promises below in ways the violation runs exhibit; the
  safety properties then say what holds of all *other* runs. Without this
  exemption they would be false; with it they still face
  every failure, death, retry and overlap.
* `died`: runs whose claimed attempt was killed.
* `resets`: how often a person handed the run to the reaper.

**Abstractions.** A day of the clock stands for the interval between two dates
that matter. Accounts are one item: a provision that made only some fails
in `accounts`. The clouds of a teardown are visited in any order.
`deleteAccounts` uses the roster as it is at that step. `harness_only` sandboxes,
scenarios, delegates, authorization, logs and the audit trail are left out;
`localRunClause` is true of every run modelled. Two groups of statements are
one action though the code could in principle be interrupted between them:
the last write of a teardown with the unlock; and the effect of a step of a provision or a
teardown with the log lines around it, during which the status is one at which requests
refuse to act. `TryLock` on a run that is held is a skip.

### The services

```
SecretScrub  RecordingUpload (-> TakeHandover)  TimedJobs  AwsApply
ChallengeLayers  ComponentCatalog  CanaryPull  StudioVideos  IrisSitting        <- Services <- MCServices
```

| Module | State and code | Actions and code | History |
|---|---|---|---|
| `SecretScrub` | `secret`: whose value and Harness's `updatedAt`; `ledger`: the row of `harness_deployed_secrets`; `scrub[s]`: a scrubber's copy of the row, the timestamp it saw, its verdict | `Deploy…`: `deploySecrets` with created / existed / unanswered; `SweepStart` (lock) and `ClickStart` (none), `Look`, `Overwrite`, `Record`: `scrubOne`; `DeleteToken`; `OwnerActs` | `lost`: values whose creation left no row; `overtaken`: a verdict recorded on a later deploy than it judged |
| `TakeHandover` | the abstract promise of a recording: saved, ended, held, served, withdrawn | | |
| `RecordingUpload` | `take`, `sent`: the browser's store; `track`, `chunkStore`: the server; `late`: chunks whose sender gave up; `tab[t]`: an uploader's pass; `handler[h]`: a finish request | `PassStart` … `PassEnd`: `uploader.ts`; `FinishRead` … `FinishClean`: `finishTrack` with its claim and take-over; `SendFails`, `RequestFails`, `ServerDies`, `RecorderDies`, `DeleteTake` | |
| `TimedJobs` | `job`: the row; `call[d]`: a dispatcher's call with the `now` it took; `setting`: a change timed and not yet written | `DispatchRead`, `DispatchClaim`, `RunCheck`, `RunBegin`, `RunEnd`; `ScheduleTimed`, `ScheduleWritten`; `RecordLost`, `CallKilled` | `startedFor`, `again`, `rewound`, `setFor`, `missed`, `unreported` |
| `AwsApply` | `aws[r]`: step, attempts per kind, account | the loop of `applyAws`: `ApplyStops`, `Retry`, `GiveUp`, `Waited` | `met`, `real`: failures met |
| `ChallengeLayers` | `selected`, `outputs`, `standing`, `cluster`, `prov` (one provision's copy and results), `build` (what is deployed) | the zone walk, `reconcileScenarios`, `setReady`'s outputs, the edit in two steps, `Rollout` | `stranded`: layers no provision will take away |
| `ComponentCatalog` | `catalog`: any graph; `have`: outputs; `made`; `pass` | `CatalogPass`, `ApplyComponent`, `PassDone`, `ProvisionAgain`, `RemoveComponent`, `OrgDeleted` | |
| `CanaryPull` | `pull`: the newest row; `snapshot`; `step[c]`: a call and its copy of the state | `startPull`, `advancePull`, `claim`, set-up, learner, pause, release, store, finish; `LeaseRunsOut`, under a step at work or after one | `overrun`: pulls one of whose steps was at work beyond its lease |
| `StudioVideos` | `videos`: the English and what the translation was made from; `sources`, `bucket`; `studioJob`; `rowLock`: who has the English row `for update` | request, execution, publication, translation, giving up, import | `strayed`, `crossed`: the two ways named in `TranslationsMatch` |
| `IrisSitting` | `sitting`: the row and its responses, tallied by level; `bank`: its number and the questions approved; `visit[v]`: a page and its request | `StartAsked` … `InsertSitting`: `startSitting`; `AnswerAsked`, `AnswerRefused`, `AnswerRecorded`: `answer` with the whole of `engine.ts`; `Withdraw`, `ReplaceBank`, `ClearResults`, `VisitLost` | `sat`: the bank a sitting began with, the placement before a tiebreak |
| `Services`, `MCServices` | the composition by interleaving; TLC's instance | | |
| `ProvisionProofs`, `TimedProofs`, `LearningProofs`, `ServicesProofs` | theorems about `AwsApply`, `ChallengeLayers` and `ComponentCatalog`; about `TimedJobs`, `CanaryPull` and `SecretScrub`; about `StudioVideos`, `RecordingUpload` and `IrisSitting`; about the composition | | section 6 |

`TakeHandover` says what is promised and not how. `RecordingUpload` implements it under
the mapping `recorded <- take.saved`, `ended <- ~Growing`, `held <- take.kept`,
`served <-` the file on offer, `withdrawn <- deleted`; the run `services` checks
`Promise!Handover` as a property.

**Exemptions by history**, in the services as in the core, name what the code really lets
happen and nothing more; each is described under Findings or in the comment of its property.
`lost`, `overtaken`, `rewound`, `stranded`, `strayed`, `crossed` and `overrun` are set by single,
identified steps.

**Abstractions.** One secret, one timed job, one stream of a take, one concept of the map:
two of them share only the loop that visits them (and, for streams, the deletion).
A secret whose Harness timestamp is unknown is not modelled. A schedule is the set of
ticks it is due at; parsing cron is left out. What an AWS failure means is decided by
`classify.ts`; here an attempt shows signs of a set of kinds. A catalog's dependencies are
all in the catalog (`buildGraph` throws otherwise). `CanaryPull` counts learners and
not what is fetched of them. `IrisSitting` counts questions by level (placement and length do not depend on
which is drawn), grades an answer right or wrong freely, lets the streak counters rest at their thresholds, and leaves
out previews, confidence and the order of options. The scenario reconcile is modelled over GCP's roots; the other
clouds run the same function.

**Named assumptions about time.** `Punctual`: a recorder at work saves a chunk every
`STALE_MS`. `PatientJoin`: a join ends, or is dead, within `STALE_ASSEMBLY_MS`. Both are TRUE in
the runs; what happens without them is under Findings. Nothing is assumed of a pull's steps: a lease of 290 s
may run out at any time, under a step at work too.

## 3. Runs

All runs but the last three are over `MCWorkshopRuns`. `CHECK_DEADLOCK` is off: an instance has
finitely many requests and provisions, and the system is quiet once they are
used and no run is due.

| Run | Instance | Question |
|---|---|---|
| `races` | 1 run booked on AWS and grown to GCP, requests `startNow retry update end delete` ×2, 2 provisions, 1 reaper, ambiguous triggers, day 0 | `TypeOK`, `ReadyIsBuilt`, `ReadyHasEnd`, `NothingLeft`, `FailureNeverDestroys`: does every path to `ready` leave a built event with an end, does a failure ever destroy, and does a teardown find what every provision left? |
| `teardown` | 1 run booked on AWS, 2 overlapping reapers, one request of `extend delete retryTeardown`, 1 provision, days 0 and 1, counter to 4, under `FairSpec` | Safety: `TeardownExclusive`, `ClaimExplained`, `ClaimMeansDeath`, `AttemptsBounded`, `SettledStaysSettled`: is the teardown protocol sound while its executions throw, die and overlap? Liveness: `TeardownSettles`, `DeleteHonoured`, `EndIsKept`: does it come to an end all the same? |
| `claim_reason`, `extension`, `orphan`, `sandbox`, `same_name`, `stuck`, `late` | the smallest instance that shows it | violations: see Findings |
| `services` | `MCServices`, every part in turn: 2 sweeps and a click, 2 deploys, 1 edit; 2 tabs, 2 finish handlers, 2 chunks; 2 dispatcher calls, 3 ticks, catch-up 2; 2 AWS runs; 2 scenarios and a cluster, 2 regions, 2 provisions, 2 edits, 1 rollout; every graph of 3 components; a page and a tick stepping, 3 learners, 2 pulls; 2 studio jobs, 2 imports; 2 pages of one taker and 4 question banks; 1 or 2 faults each | 17 invariants and 5 action properties, among them the refinement `HandoverKept` |
| `lease` | `CanaryPull` alone, a page and a tick, 3 learners | violation: see Findings |
| `arrivals` | `MCServices` under `ServicesFairness`: scrub, recording, AWS, pull | `TakenBack`, `TakeArrives`, `ApplyEnds`, `PullEnds` |

What the properties of `services` ask:

| Part | Properties |
|---|---|
| Scrub | `RealIsOwed`: no crash, retry or redeploy settles a row early. `TheirsIsKept`: the owner's value is overwritten only by one who looked before it was there |
| Recording | `FileIsWhole`: no interleaving joins the file short. `HandoverKept`: the browser drops nothing before it is on offer |
| Timed jobs | `StartedOnce`, `NothingCaughtUp`, `DueIsClaimed`, `RunningIsRunning` |
| AWS | `BudgetsAreApart`: one kind of failure never eats the other's budget |
| Layers | `RecordedClusterStays`, `StandingIsKnown`, `ReadyIsSelected` |
| Catalog | `PartsComeFirst`, `PassIsComplete`, `RefusalIsDeserved` (against the reference `Beneath`, the closure of the dependencies), `OrgIsEmptied` |
| Pull | `OneStepWorks`, `SuccessIsShown` |
| Studio | `TranslationsMatch` |
| Iris | `SittingIsFair`: over every run of answers, 10 to 17 questions, all right is placed at the top, a tiebreak does not lower. `ProgressIsKept`: an open sitting goes only by a clearing or a replaced bank |

**One part awake.** Parts that share no variable need not be explored in every combination: each
initial state of `MCSpec` gives one of them something to do, so the states of the parts
add up (about 500,000) and do not multiply. Every property is of one part's variables, so nothing
is lost by it. For the same reason one permutation, `MCSymmetry`, which swaps the members of every
pair of processes (sweeps, tabs, handlers, calls, pages and so on) at once, is symmetry enough.
`CHECK_DEADLOCK` is off because a part may come to rest for good.

**Bounds of the services.** Two scrubbers meet, a third path (the click) has no lock; two tabs and two
finish handlers are what a take-over of a claim needs, two chunks what a gap needs; three
ticks with a catch-up of two let a due time be missed and caught up, or be too old; the
regions have two zones and one, so the walk can move on and run out; three components give
every shape of dependency (chain, fork, join, cycle); `SaveEvery` 2 of 3 learners makes a
step die between two saves; two imports and two jobs cross a translation with each kind of
replacement; a page and the dispatcher are the two calls that meet when a lease has run out. A sitting is the real engine with its real constants. Its banks (12/14/12, 6/2/2, 3/4/3 with a withdrawal,
2/6/2 with three starts, two answers, a deployment, a clearing and a loss) are rich enough for a tiebreak and a
17th question (and would let an 18th be answered), thin enough to run out, and small enough for two pages to race. `Max…Faults` bounds failures of a part; what repeats for ever (sweeps,
passes, steps) is not bounded.

**Bounds of the life of a run.** `Requests` and `Executions` are each used once:
they bound what people do. Two requests are the least that lets
one handler come between another's read and write, and every race modelled is
between two parties. `teardown` has one, because its races are between a request's two halves
and the reapers, or among the reapers; the retry of a flagged teardown and its reset counter are in it. Two reapers overlap; a third could only skip. `Reapers`
loop for ever, so sequences of failed, killed and repeated attempts are unbounded; `AttemptCap`
is where the counter saturates (above `MAX_DESTROY_ATTEMPTS`, so `AttemptsBounded` could fail
below it). `MaxNow` is 1 where a day matters: an event is booked for one day, so day 1 is past its end; `races` needs none
because `end` brings the end time to the present. Two events in one instance are needed only for
`same_name`; that one event's teardown takes nothing of another's when names differ is proved for any number of
them (`LiveEventsAreBuilt`). Symmetry is over executions, requests and
reapers, where no liveness is checked.

**Vacuity.** Each property has a mutant of the code in the modules
(comments "Mutant of the next action") under which its own run
fails: a lock whose answer is not looked at, a retry that keeps the claim, a
sweep that trusts the roster, a retry without limit, a listing that selects
flagged or failed runs, a death that is logged and not recorded, an end time not set.

## 4. Fairness

`FairSpec` assumes weak fairness of a reaper's, a runner's and the scheduler's
next step and of a handler that has begun: Cloud Scheduler starts the jobs on a
cron (`src/infra/admin/scheduler.tf`), and a container that is not killed runs on. No
fairness is assumed of failures, deaths, or people, and none forbids them:
an attempt may throw, and a process may be killed, any number of times
(`max_retries = 0` in `src/infra/admin/runner.tf` means nobody restarts it but the next
tick). One assumption is stronger: strong fairness of "some reaper takes the lock", "some reaper
claims" and "some reaper flags a death" (`ReaperTryLock`, `ReaperClaim`, `ReaperFlagDead`, over all reapers together). These are milliseconds of database work at the start of
a tick, and a reaper killed at that very statement on *every* tick for ever is not
something the platform does. The teardown's long steps have only weak fairness, so
they may be killed on every attempt, and the liveness properties hold all the same
because the death is flagged. The three properties say that what is unsettled does not stay so: `[]<>` of "not destroying", of
"not deleted, or gone or flagged", and of "not live past its end"; a run may be unsettled many times, as
often as people ask for it.

`ServicesFairness` is weak throughout. Scrub: a sweep is started again and again (the reaper's
job), a scrubber's next step, the passing of its windows. Recording: the recorder is stopped
at some time, an open page passes over its store again and again, a request the server took up
goes on, a claim ages. AWS: `tofu` and the runner's timers go on; AWS itself need never switch
the account on, and the apply ends because the budgets do. Pull: the dispatcher calls
again and again, a call goes on, a lease nobody renews runs out. Faults are
bounded in number and otherwise free; no fairness is assumed of people.

## 5. Findings

Each is a statement of the repository that a run refutes; the traces are TLC's,
told in words.

1. **`claim_reason`** (`db.ts:273`). The reaper lists an event past its end; its
   owner extends it by a day; the reaper claims it, because `claimDestroy` looks at
   the claim alone, and tears it down. `db.ts:67`: "Destruction happens for exactly two
   reasons, and nothing else".
2. **`extension`** (`run.ts:277`). An event in flight is extended (`ttl_seconds`
   grows); the runner computes the end from the copy it read before. The user was
   told "Extended by 1 day" (`runs.ts:284`).
3. **`orphan`** (`runs.ts:427`). A delete reads `scheduled`; a start claims
   the row and the runner builds; the delete drops the row by id. What stands has no
   record. `db.ts:367`: the row "is the only record of what there was to tear down".
4. **`sandbox`** (`reap.ts:168`). An event booked with no cloud gets the sandbox
   layer, is grown to AWS, ends: the teardown visits AWS only and the row says
   `destroyed`. `db.ts:386` shows it as "a run with nothing left to tear down".
5. **`same_name`** (`directory.ts:284`). Two events of one name share an org unit;
   the teardown of the first deletes every account in it. `src/README.md:31`: "one OU
   per event, one account per attendee".
6. **`stuck`** (`schedule.ts:9`). The scheduler dies between claim and trigger: the
   event stays `requested`, nothing takes it up again, and `deleteRun` refuses it
   because it is in flight. `src/README.md:598`: it "can't be deleted until it settles".
7. **`late`** (`run.ts:280`). `setReady` makes a first provision live; its owner ends it and a reaper
   lists it; the log line that announces it, which had hung, throws, and the catch block writes `failed` by id; the
   reaper claims it, and a failed run nobody deleted is torn down. `run.ts:295`: "Nothing here
   destroys resources on a failure — the run stays failed on the calendar until someone deletes it in the UI".
8. **`lease`** (`pull.ts:159`). A step looks at its budget of 240 s between learners only (`pull.ts:286`), a learner
   may take five attempts of 60 s with pauses (`mindtickle.ts:21`–`22`, `119`–`134`), and the lease of 290 s
   is never renewed: the next call claims the pull and fetches beside the first. `pull.ts:11`: "so two never fetch at once".

Seen in the same model, without a run of their own: a second reaper with a listing
taken before a teardown was flagged claims the flagged run again (`SettledStaysSettled`
would fail without `stale`); a row deleted under a reaper reads as a death, because
`claimDestroy` cannot tell "claimed" from "gone"; `endRunNow` sets `expires_at` to
now, which `db.ts:72` says never happens; a configuration edit that lands on a run in
flight leaves the row naming clouds other than those built; a first provision whose
final log line throws at once is marked `failed` although it is up, with its end time set.

The late verdict of finding 7 does more. It is an update by id with no look at the status, so it may land on a run in
`destroying`, `destroy_failed`, `destroyed` or `requested`. Where it lands on such a run the run is in `stale`, and without that exemption `ReadyIsBuilt`
(a grow whose event was being torn down is shown as `ready` while its organization goes), `NothingLeft` (a run shown `failed` is
retried and built up while the reaper takes it down and marks it `destroyed`), `FailureNeverDestroys` (a
teardown that fails in a self-clearing way takes a run that was made `failed` back to `destroying`) and `SettledStaysSettled` (a flag, or
`destroyed`, overwritten) all fail. An event shown `failed` this way is not torn down at its end, until somebody deletes it.

Seen while modelling the services, without a run of their own:

* **Layers.** A challenge whose scenarios are all unticked and that is provisioned again loses
  `gke_cluster_locations` from its outputs (`run.ts:168`, `:1198`; `setReady` writes them whole, `db.ts:192`), so
  ticking one again may put the cluster elsewhere, against `run.ts:862`–`873` and `:1233`–`1238`.
  `RecordedClusterStays` says what holds: a location that *is* recorded. The early return of
  `reconcileScenarios` (`:1254`) likewise drops ids this build does not know, which
  `:1283`–`1286` says are carried. A scenario applied in a provision that then failed and unticked
  afterwards is taken away by nobody. These are the `stranded` layers.
* **Scrub.** A deploy whose POST took effect and whose answer was lost meets its own secret as
  "existed" and writes no row (`harness-deploy.ts:1390`–`1416`): a credential nobody owes (`lost`).
* **Timed jobs.** `setTimedJobSchedule` takes `new Date()` before its write; written after a claim of a
  later time it puts `scheduled_for` back, and that time is started again, against
  `timed-jobs.ts:136`–`137` (`rewound`).
* **Catalog.** A component that depends on one that always applies and itself requires a cloud's
  output throws on the first pass, though `run.ts:208`–`211` says the rest stays pending. The
  property `RefusalIsDeserved` states the code's rule.
* **Recording.** Without `Punctual` a recorder that is silent for `STALE_MS` is taken for ended
  (`use-take-recorder.ts`), and without `PatientJoin` two joins write one file (`recordings.ts:42`); each breaks `HandoverKept`.
* **Pull.** A step that outlasted its lease writes by the pull's id, and its snapshot in any case: it may set the state back to its own copy,
  finish or fail the pull under the other step, and put an earlier pull's snapshot in the place of a later one's
  (`overrun`; `SuccessIsShown` says what is left: such a snapshot is whole too).
* **Studio.** A translations-only job works from the bucket's files, which may be of a video never
  shown or since replaced by an import, and `addTranslation` compares only the English object
  (`strayed`), against `schema.ts:3004`. A delete that waits for `addTranslation`'s row lock
  does not see the row inserted meanwhile (`crossed`). `schema.ts:3002` says the studio alone writes
  videos; `importMap` does too. `publish.ts:56` publishes a deck in several statements.
* **Iris.** A page that looks for an open sitting just before another page inserts one then finds a sitting,
  does not ask whether it is finished, and answers `already_taken` (`attempts.ts:187`–`199`), which `:155` says
  means finished; `:221` says "the second finds the first's". A reload resumes it. A question withdrawn after `poolFor` has read it is still asked, against `reviews.ts:4`: "Only
  approved questions are served live". A sitting whose bank thins under it may end below ten questions.

## 6. Proofs

Every invariant and every action property that a run checks is also proved, for **all** values of
the constants: finite or infinite sets of runs, people, executions, calls and pages, any schedules,
catalogs, banks and budgets. The assumptions are those the modules name (`ConstantsAssumption`:
`AttemptCap` is a natural number above the limit, `Null` is no run and no reaper, bookings are sets of
clouds, and so on; `CatalogConstants`: a catalog is finite; …) and the provisos the tables give. A
run shows a property on a small instance, exhaustively and with its mutant; the theorem shows that the
instance's size hid nothing.

**The life of a run.** Properties that set the runs in `stale` aside do so here too: section 2 says
which those are, and Findings what happens to them.

| Theorem | States | Argument |
|---|---|---|
| `TypeCorrect` (`WorkshopRunsTyping`) | `[]TypeOK` | `TypeOK` is not inductive: a step "at work" indexes the table by its run. `TypeInv` adds `Assigned`: whoever is at work has a run. One lemma per actor, one step per action |
| `TeardownIsExclusive` (`WorkshopRunsProofs`) | `[]TeardownExclusive` | `LockHeld`: an execution at a locked step holds the lock of its current run. Only `ReaperTryLock` enters a locked step and it takes the lock from nobody; every exit releases the execution's own locks and no others |
| `ClaimIsExplained` | `[]ClaimExplained` | `ClaimInv` adds `GoneIsUnclaimed`, needed because an update by id of a vanished row writes nothing. The other actors' writes are `Tame`: none sets a claim |
| `VerdictIsSound` | `[]ClaimMeansDeath` | From both: whoever is at `claim` holds the lock, so nobody is inside the teardown, so the claim's explanation is a death. This is the argument of the comment on `claimDestroy`, `db.ts:245`–`257` |
| `LiveEventsEnd` (`WorkshopRunsOwnership`) | `[]ReadyHasEnd` | `ExpiryInv`: the end time is set on the row (`RowsEnd`), or is in the copy of the execution (`ExecsKnowEnd`) or handler (`ReqsKnowEnd`) that will set it, along every way to `ready`, a retry, a grow and a trigger put back among them |
| `FailuresKeepTheirClouds`, `SettledIsLeftAlone` | `FailureNeverDestroys`, `SettledStaysSettled` | `OneHand`: a run on its way up is the scheduler's, one request's or one execution's, and its status says which. `GoingDown`: a run on its way down is past all of them, and what a reaper has listed of it can only have come nearer to its end (`ListedFits`). So an execution that reaches `destroying` from `failed` follows a delete, and none from `destroy_failed` follows an old listing. An execution that has announced its run holds it no more (`RunnerConcludes`): its last word meets a live run, or a run in `stale` |
| `AttemptsAreBounded` | `[]AttemptsBounded` | `AttemptInv`: wherever another claim may come (no claim set and the run not settled) the counter is *below* `MAX_DESTROY_ATTEMPTS` plus the times a person reset it, and an attempt at work knows the row's counter, so the one that reaches the bound settles the run |
| `TeardownLeavesNothing` (`WorkshopRunsStanding`) | `[]NothingLeft`, if `{} \notin Bookings` | `LeftInv`: what stands is told by the row (`RowTells`: its clouds, its org unit, its roster), is being built by the one hand that holds it (`HandsTell`), or is what the teardown under way has still to visit (`TearsTell`). The proviso is the exact complement of the finding `sandbox` |
| `LiveEventsAreBuilt` | `[]ReadyIsBuilt`, if `NamesDiffer` | `BuiltInv`: an execution past a step has what the step builds, and nobody else takes it away: the only teardown that empties another's org unit is that of a run of the same name. The proviso is the exact complement of the finding `same_name` |

**The services**, each from its own component's assumptions:

| Theorem | States | Argument |
|---|---|---|
| `FullBudgets` (`ProvisionProofs`) | `[](AwsTypeOK /\ BudgetsAreApart)` | `Accounted`: failures met are the attempts counted, plus the one being judged |
| `ClustersAreNotMoved`, `LocationIsTrue` | `RecordedClusterStays`; a recorded location is where the clusters stand | `ClusterIsRecorded`, `WorksFromOutputs` (a provision's copy is the row's: one at a time), `TriesRecorded` (the walk has one place when one is recorded) |
| `LayersAreKnown`, `SuccessIsSelected` | `[]StandingIsKnown`, `[]ReadyIsSelected` | `ReconcileInv`: before the diff what stands is recorded or stranded (`NotDiffed`); after it, what stands will be recorded, is still to be taken off or is stranded, and what is wanted stands or is still to be put on (`Diffed`) |
| `PartsStandFirst` | `[]PartsComeFirst` | `AppliedIsMade`: what a pass counts as applied stands for as long as it builds on it |
| `PassesAreComplete`, `RefusalsAreDeserved`, `TeardownsEmptyOrgs` | `[]PassIsComplete`, `[]RefusalIsDeserved`, `[]OrgIsEmptied` | see below |
| `ClaimsAreOnce`, `RunningIsTrue`, `ChangesCount` (`TimedProofs`) | `[]StartedOnce`, `[]RunningIsRunning`, `NothingCaughtUp` | `NoneAbove`: nothing was started above `scheduled_for`, the watermark, unless it was rewound; `ChangeCounts`: the watermark is not below the last change |
| `DueTimesAreClaimed` | `[]DueIsClaimed` | `DueInv`: for a time not yet claimed, the ticks of its window that are `Lost` (over, with no call of theirs that may still claim it) are no more than `missed`. When the window is over and no call is at work all its `CatchUp` ticks are lost (`WindowFinite`, `OneLost`, `LastDueCovers`) |
| `PullTypeCorrect`, `StepsAreExclusive`, `SuccessesAreShown` | types, `[]OneStepWorks` and `[]SuccessIsShown`, with no assumption on time | `PullSafe`: where no lease runs, whoever is at work has outlasted one (`OthersAreLate`); nobody works on a later pull than the newest (`Behind`); a step at `finish` has `Stored` a whole snapshot, and nobody but an overrun step has stored over it |
| `CredentialIsOwed`, `OwnersValueIsKept` | `[]RealIsOwed`, `TheirsIsKept` | `ScrubInv`: `StampsAreRead` (a stamp in a copy was once the secret's, so a fresh one is above all copies), `ToRecord` (a verdict not yet recorded is true of the stamp it judged), `Settles` (a row that is settled was). `RealIsOwed` alone is not inductive: a scrubber between overwrite and record would settle anything |
| `TranslationsAreTheirs` (`LearningProofs`) | `[]TranslationsMatch` | `AllFit`: whoever is at the insert holds the row of the English video it compared, so nobody replaces it |
| `FilesAreWhole`, `HandoverIsKept` | under `Punctual = TRUE` and `PatientJoin = TRUE`, `[]FileIsWhole` and the refinement `HandoverKept` | `RecordingInv`: what a pass knows of the take (`PassFits`), what a finish may join (`FinishFits`), one join at a time and under its claim (`JoinAlone`), and that a "ready" told to a tab stays true (`AnswerStands`). `HandoverStep` maps each action to one of `TakeHandover`'s or to a stutter |
| `SittingsAreFair`, `AnswersAreKept` | `[]SittingIsFair`, `ProgressIsKept` | `IrisInv`: how long a sitting may still last (`LengthFits`); questions asked, left and on screen add up to the bank it began with (`CountsFit`); who has all right climbs after two and is asked at the top from then on (`ClimbFits`); a tiebreak asks above a placement that stays earned (`TieFits`). A page about to drop an open sitting has met another bank than its own (`PageFits`) |
| `ScrubTypeCorrect`, `JobsTypeCorrect`, `LayersTypeCorrect`, `CatalogTypeCorrect`, `RecordingTypeCorrect`, `StudioTypeCorrect`, `IrisTypeCorrect` | the types | the bounds that are not of one variable: tries left where a deploy posts, times not ahead of the clock, zones tried among those to try, … |
| `PartsStandAlone` (`ServicesProofs`) | a behaviour of the services is one of each part | `PartsStep`: a step of the composition is a step of one part and leaves the variables of the others alone |
| `ServicesTypeCorrect`, `ServicesAreSafe` | `[]ServicesTypeOK`; all safety properties of the run `services` together | from `PartsStandAlone` and the theorems above |

**Induction for the catalog.** The claims about `ComponentCatalog` compare Kahn's rounds and the closure
`Beneath`, both recursive functions, with each other, on every graph. The library's induction theorems take
a predicate as their parameter, which the provers cannot instantiate; but `WFMin` takes a *set*. `Least` gets
from it that a nonempty set of naturals has a least member, `Counting` that a set with 0 and, up to `k`, the
successor of each of its members has all of `0 .. k`. With these, `Iterates` unfolds a function defined by rounds, and `Saturates` shows that
growing, or shrinking, `|Components|` times reaches a set that changes no more. So `LeftWaiting`: what Kahn's
rounds leave is the greatest set each of whose members waits for another of it; `BeneathIs`: `Beneath` is the
least set closed downwards; so that something is left exactly when a component rests on itself (`CyclicIs`). `PassInv` carries this
through the passes: `GraphTyped`, `OrderIsKnown` (a pass at work is over a catalog without a cycle), `Decided` (what
is applied or pending is so rightly) and `Spared` (a teardown has taken all but what a template keeps).

`WF` and `SF` play no part: these are theorems of the safety specifications.

**Only model-checked:** the liveness properties `TeardownSettles`, `DeleteHonoured`, `EndIsKept`, `TakenBack`,
`TakeArrives`, `ApplyEnds` and `PullEnds`, which need fairness and `ENABLED` and are out of the prover's
reach. The eight violation runs have counterexamples and so no theorem.

## 7. Plan

Done: the life of a run; the nine services, their composition, the refinement of
`TakeHandover`, and a theorem for every safety property. In order of weight, what remains:

1. An abstract teardown (`idle → owed → attempted → settled`), `WorkshopRuns` shown to refine it, by TLC and by proof.
2. `AttendeeClaims`: two attendees and one account.
3. Studio decks: publication in separate statements against a second job.

**Not modelled**, and why: the user interface (pages; their state is the rows modelled); the
infrastructure (Terraform; its time limits are the model's kills); access control (decided per
request from one read); backups and the production import (an administrator's
procedure around `pg_dump`); the bootcamp scheduler, evals, surveys and reporting (records people
edit, imports, pure transformations); chat, lessons and games (content); the cloud audit (reads
only); the scenario roots of AWS and Azure (the same reconcile over other layers); the cron parser;
a take's second stream; Harness content other than secrets (idempotent calls).

## 8. Running it

```
tlc -workers 2 -config teardown.cfg MCWorkshopRuns.tla    # any other cfg of section 3
tlc -workers 2 -config services.cfg MCServices.tla
tlc -workers 2 -config arrivals.cfg MCServices.tla
tlc -workers 2 -config lease.cfg CanaryPull.tla
tlapm WorkshopRunsTyping.tla             # and WorkshopRunsProofs, -Ownership, -Standing
tlapm ServicesProofs.tla                 # and ProvisionProofs, TimedProofs, LearningProofs
```

`races`, `teardown`, `services` and `arrivals` take two to three minutes each; the others seconds. Of the proofs,
`WorkshopRunsOwnership` takes about five minutes, `WorkshopRunsStanding` and `LearningProofs` three each, the others
less than two.
