----------------------------- MODULE TimedJobs -----------------------------
(***************************************************************************)
(* One of the app's own timed jobs, and the dispatcher that starts it.     *)
(*                                                                         *)
(* Cloud Scheduler calls the dispatcher once a tick, sometimes twice and   *)
(* sometimes not at all.  A call works out the latest time the job fell    *)
(* due, claims it in the job's row and runs the job; calls overlap, are    *)
(* killed, and an administrator changes the schedule or the switch         *)
(* meanwhile.  Jobs share nothing but the call, so one is modelled.        *)
(***************************************************************************)
EXTENDS Integers, FiniteSets

CONSTANTS
  Calls,          \* calls of the dispatcher at work at once
  Horizon,        \* ticks of the clock
  CatchUp,        \* how many ticks back a missed time is looked for
  Schedules,      \* schedules: sets of the ticks they fall due at
  MaxSettings,    \* changes of schedule or switch
  MaxJobFaults    \* calls lost, repeated or killed, records lost, jobs failing

ASSUME TimedJobsConstants ==
  /\ Horizon \in Nat /\ CatchUp \in Nat \ {0}
  /\ Schedules \subseteq SUBSET (1 .. Horizon)
  /\ MaxSettings \in Nat /\ MaxJobFaults \in Nat

Never == -1     \* scheduled_for is null

VARIABLES
  clock,       \* the current tick
  called,      \* the last tick the dispatcher was called at
  job,         \* the row of timed_jobs
  call,        \* each call of the dispatcher
  setting,     \* an administrator's change that has been timed and not yet written
  jobsLeft,    \* changes and faults still to come
  startedFor,  \* history: times an execution was started for
  again,       \* history: times one was started for more than once
  rewound,     \* history: a change set scheduled_for back behind a claim
  setFor,      \* history: the time the last change was made, and its write
  missed,      \* history: calls lost, and killed before they had claimed
  unreported   \* history: an execution was killed, or the record of its end lost

jobVars == <<clock, called, job, call, setting, jobsLeft, startedFor, again, rewound, setFor, missed, unreported>>

NoCall == [pc |-> "idle", now |-> 0, at |-> Never]
NoSetting == [pc |-> "none", now |-> 0]

JobsInit ==
  /\ clock \in {0, Horizon} /\ called = clock
  /\ job \in [enabled : {TRUE}, schedule : IF clock = 0 THEN Schedules ELSE {{}},
              scheduledFor : {Never}, status : {"none"}]
  /\ call = [d \in Calls |-> NoCall]
  /\ setting = NoSetting
  /\ jobsLeft = IF clock = 0 THEN [settings |-> MaxSettings, faults |-> MaxJobFaults]
                ELSE [settings |-> 0, faults |-> 0]
  /\ startedFor = {} /\ again = {} /\ rewound = FALSE
  /\ setFor = [made |-> Never, written |-> 0]
  /\ missed = 0 /\ unreported = FALSE

JobFault == jobsLeft.faults > 0 /\ jobsLeft' = [jobsLeft EXCEPT !.faults = @ - 1]
CallAt(d, pc) == call[d].pc = pc
jobHistory == <<startedFor, again, rewound, setFor, missed, unreported>>

-----------------------------------------------------------------------------
(* Time, and Cloud Scheduler.                                               *)

ClockTicks ==
  /\ clock < Horizon
  /\ IF called = clock THEN UNCHANGED <<jobsLeft, missed>> ELSE JobFault /\ missed' = missed + 1
  /\ clock' = clock + 1
  /\ UNCHANGED <<called, job, call, setting, startedFor, again, rewound, setFor, unreported>>

TickCalled(d) ==
  /\ CallAt(d, "idle")
  /\ IF called < clock THEN UNCHANGED jobsLeft ELSE JobFault
  /\ called' = clock
  /\ call' = [call EXCEPT ![d] = [NoCall EXCEPT !.pc = "read", !.now = clock]]
  /\ UNCHANGED <<clock, job, setting, jobHistory>>

-----------------------------------------------------------------------------
(* dispatchTimedJobs.                                                       *)

(* lastDue: the latest due time no more than the catch-up back.             *)
LastDueShort(schedule, now) ==     \* mutant: one tick less of catching up
  LET due == {t \in schedule : t <= now /\ t > now - (CatchUp - 1)} IN
    IF due = {} THEN Never ELSE CHOOSE t \in due : \A u \in due : u <= t
LastDue(schedule, now) ==
  LET due == {t \in schedule : t <= now /\ t > now - CatchUp} IN
    IF due = {} THEN Never ELSE CHOOSE t \in due : \A u \in due : u <= t

DispatchRead(d) ==
  /\ CallAt(d, "read")
  /\ LET at == LastDue(job.schedule, call[d].now) IN
       call' = [call EXCEPT ![d] = IF at = Never THEN NoCall ELSE [@ EXCEPT !.pc = "claim", !.at = at]]
  /\ UNCHANGED <<clock, called, job, setting, jobsLeft, jobHistory>>

(* scheduled_for is null, or before the time claimed.                       *)
ClaimAnyway(at) == TRUE    \* mutant: the claim has no condition
Unclaimed(at) == job.scheduledFor < at

DispatchClaim(d) ==
  /\ CallAt(d, "claim")
  /\ LET at == call[d].at IN
       IF Unclaimed(at)
       THEN /\ job' = [job EXCEPT !.scheduledFor = at]
            /\ call' = [call EXCEPT ![d].pc = "check"]
            /\ startedFor' = startedFor \cup {at}
            /\ again' = again \cup (startedFor \cap {at})
       ELSE /\ call' = [call EXCEPT ![d] = NoCall]
            /\ UNCHANGED <<job, startedFor, again>>
  /\ UNCHANGED <<clock, called, setting, jobsLeft, rewound, setFor, missed, unreported>>

-----------------------------------------------------------------------------
(* runTimedJob.                                                             *)

RunCheck(d) ==
  /\ CallAt(d, "check")
  /\ call' = [call EXCEPT ![d].pc = IF job.enabled THEN "begin" ELSE "skip"]
  /\ UNCHANGED <<clock, called, job, setting, jobsLeft, jobHistory>>

RunSkip(d) ==
  /\ CallAt(d, "skip")
  /\ job' = [job EXCEPT !.status = "skipped"]
  /\ call' = [call EXCEPT ![d] = NoCall]
  /\ UNCHANGED <<clock, called, setting, jobsLeft, jobHistory>>

RunBegin(d) ==
  /\ CallAt(d, "begin")
  /\ job' = [job EXCEPT !.status = "running"]
  /\ call' = [call EXCEPT ![d].pc = "run"]
  /\ UNCHANGED <<clock, called, setting, jobsLeft, jobHistory>>

(* The job answers, or throws; what is recorded of it differs in wording:   *)
(* succeeded, skipped or failed.                                            *)
RunEndThrown(d) ==      \* mutant: nothing is recorded when the job throws
  /\ CallAt(d, "run")
  /\ \/ job' = [job EXCEPT !.status = "ended"]
     \/ UNCHANGED job
  /\ call' = [call EXCEPT ![d] = NoCall]
  /\ UNCHANGED <<clock, called, setting, jobsLeft, jobHistory>>
RunEnd(d) ==
  /\ CallAt(d, "run")
  /\ job' = [job EXCEPT !.status = "ended"]
  /\ call' = [call EXCEPT ![d] = NoCall]
  /\ UNCHANGED <<clock, called, setting, jobsLeft, jobHistory>>

(* A record that cannot be written is let go, and the job goes on.          *)
RecordLost(d) ==
  /\ call[d].pc \in {"skip", "begin", "run"} /\ JobFault
  /\ call' = [call EXCEPT ![d] = IF CallAt(d, "begin") THEN [@ EXCEPT !.pc = "run"] ELSE NoCall]
  /\ unreported' = (unreported \/ CallAt(d, "run"))
  /\ UNCHANGED <<clock, called, job, setting, startedFor, again, rewound, setFor, missed>>

CallKilled(d) ==
  /\ ~CallAt(d, "idle") /\ JobFault
  /\ call' = [call EXCEPT ![d] = NoCall]
  /\ missed' = missed + (IF call[d].pc \in {"read", "claim"} THEN 1 ELSE 0)
  /\ unreported' = (unreported \/ CallAt(d, "run"))
  /\ UNCHANGED <<clock, called, job, setting, startedFor, again, rewound, setFor>>

-----------------------------------------------------------------------------
(* The Timed Jobs tab.                                                      *)

SpendSetting == jobsLeft.settings > 0 /\ jobsLeft' = [jobsLeft EXCEPT !.settings = @ - 1]

JobSwitched ==
  /\ SpendSetting
  /\ job' = [job EXCEPT !.enabled = ~@]
  /\ UNCHANGED <<clock, called, call, setting, jobHistory>>

(* setTimedJobSchedule: the time is taken, and the row written after it.    *)
ScheduleTimed ==
  /\ setting.pc = "none" /\ SpendSetting
  /\ setting' = [pc |-> "write", now |-> clock]
  /\ UNCHANGED <<clock, called, job, call, jobHistory>>

Rescheduled(s) == [job EXCEPT !.schedule = s, !.scheduledFor = setting.now]
RescheduledOnly(s) == [job EXCEPT !.schedule = s]    \* mutant: scheduled_for stays

ScheduleWrittenOnly ==
  /\ setting.pc = "write"
  /\ \E s \in Schedules : job' = RescheduledOnly(s)
  /\ rewound' = (rewound \/ setting.now < job.scheduledFor)
  /\ setFor' = [made |-> setting.now, written |-> clock]
  /\ setting' = NoSetting
  /\ UNCHANGED <<clock, called, call, jobsLeft, startedFor, again, missed, unreported>>
ScheduleWritten ==
  /\ setting.pc = "write"
  /\ \E s \in Schedules : job' = Rescheduled(s)
  /\ rewound' = (rewound \/ setting.now < job.scheduledFor)
  /\ setFor' = [made |-> setting.now, written |-> clock]
  /\ setting' = NoSetting
  /\ UNCHANGED <<clock, called, call, jobsLeft, startedFor, again, missed, unreported>>

CallStep(d) ==
  DispatchRead(d) \/ DispatchClaim(d) \/ RunCheck(d) \/ RunSkip(d) \/ RunBegin(d) \/ RunEnd(d)

JobsNext ==
  \/ ClockTicks \/ JobSwitched \/ ScheduleTimed \/ ScheduleWritten
  \/ \E d \in Calls : TickCalled(d) \/ CallStep(d) \/ RecordLost(d) \/ CallKilled(d)

JobsSpec == JobsInit /\ [][JobsNext]_jobVars

-----------------------------------------------------------------------------
JobsTypeOK ==
  /\ clock \in 0 .. Horizon /\ called \in 0 .. clock
  /\ job \in [enabled : BOOLEAN, schedule : Schedules \cup {{}}, scheduledFor : Never .. clock,
              status : {"none", "running", "skipped", "ended"}]
  /\ call \in [Calls -> [pc : {"idle", "read", "claim", "check", "skip", "begin", "run"},
                         now : 0 .. clock, at : Never .. clock]]
  /\ setting \in [pc : {"none", "write"}, now : 0 .. clock]
  /\ jobsLeft \in [settings : 0 .. MaxSettings, faults : 0 .. MaxJobFaults]
  /\ startedFor \subseteq 1 .. clock /\ again \subseteq startedFor
  /\ {rewound, unreported} \subseteq BOOLEAN
  /\ setFor \in [made : Never .. clock, written : 0 .. clock]
  /\ missed \in 0 .. MaxJobFaults

(* The job is started once for a time it falls due, however many calls meet *)
(* there and however late; but a change of schedule that was timed before a *)
(* claim and written after it puts the time claimed back on offer.          *)
StartedOnce == again # {} => rewound

(* "Only times from now on count": no call starts the job for a time before *)
(* the last change, also not one that read the schedule before it.          *)
NothingCaughtUp ==
  [][\A d \in Calls : CallAt(d, "claim") /\ call'[d].pc = "check" => call[d].at > setFor.made]_jobVars

(* A time the job fell due is claimed, or passed over for a later one, when *)
(* fewer calls in a row than the catch-up spans failed to come.             *)
DueIsClaimed ==
  (missed < CatchUp /\ \A d \in Calls : call[d].pc \notin {"read", "claim"}) =>
    \A t \in job.schedule :
      (t > setFor.written /\ t + CatchUp <= clock) => job.scheduledFor >= t

(* A job shown as running is: overlapping executions end with the record of *)
(* an end, unless one was killed or could not record it.                    *)
RunningIsRunning ==
  job.status = "running" => unreported \/ \E d \in Calls : CallAt(d, "run")
=============================================================================
