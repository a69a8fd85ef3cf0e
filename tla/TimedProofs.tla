---------------------------- MODULE TimedProofs ----------------------------
(***************************************************************************)
(* Jobs that callers outside start, over and over, with no regard for one  *)
(* another: the schedules, the canary pull, the sweep of deployed secrets. *)
(***************************************************************************)
EXTENDS TimedJobs, CanaryPull, SecretScrub, FiniteSetTheorems, WellFoundedInduction, TLAPS

-----------------------------------------------------------------------------
(* TimedJobs.                                                              *)
CallPcs == {"idle", "read", "claim", "check", "skip", "begin", "run"}
JobRow == [enabled : BOOLEAN, schedule : SUBSET (1 .. Horizon), scheduledFor : Int,
           status : {"none", "running", "skipped", "ended"}]
CallRow == [pc : CallPcs, now : Int, at : Int]

JobsTyped ==
  /\ clock \in Nat
  /\ job \in JobRow
  /\ call \in [Calls -> CallRow]
  /\ setting \in [pc : {"none", "write"}, now : Int]
  /\ setFor \in [made : Int, written : Int]
  /\ startedFor \subseteq Int

(* scheduled_for is a watermark: no time started for lies above it, unless  *)
(* a change of schedule took it back, nor does the last change.             *)
NoneAbove == ~rewound => \A t \in startedFor : t <= job.scheduledFor
ChangeCounts == setFor.made <= job.scheduledFor

JobsInv == JobsTyped /\ NoneAbove /\ StartedOnce /\ ChangeCounts /\ RunningIsRunning

-----------------------------------------------------------------------------
(* A set of ticks with a member has a last one.                             *)
LEMMA LastTick ==
  ASSUME NEW due, due \subseteq 1 .. Horizon, due # {}
  PROVE  \E t \in due : \A u \in due : u <= t
<1> DEFINE back == {Horizon - t : t \in due}
           less == {p \in Nat \X Nat : p[1] < p[2]}
<1>1. IsWellFoundedOn(less, Nat)
  BY NatLessThanWellFounded DEF OpToRel
<1>2. back \subseteq Nat /\ back # {}
  <2>1. ASSUME NEW t \in due PROVE Horizon - t \in Nat
    <3>1. t \in 1 .. Horizon
      OBVIOUS
    <3> QED
      BY <3>1, TimedJobsConstants
  <2>2. back # {}
    OBVIOUS
  <2> QED
    BY <2>1, <2>2
<1> HIDE DEF less
<1>3. PICK b \in back : \A c \in back : <<c, b>> \notin less
  BY <1>1, <1>2, WFMin
<1> USE DEF less
<1>4. PICK t \in due : b = Horizon - t
  BY <1>3
<1>5. ASSUME NEW u \in due PROVE u <= t
  <2>1. Horizon - u \in back /\ Horizon - u \in Nat /\ b \in Nat
    BY <1>2
  <2>2. ~(Horizon - u < b)
    BY <1>3, <2>1
  <2> QED
    BY <1>4, <2>2, TimedJobsConstants
<1> QED
  BY <1>5

LEMMA LastDueTyped ==
  ASSUME NEW schedule, schedule \subseteq 1 .. Horizon, NEW now \in Int
  PROVE  LastDue(schedule, now) \in Int
<1> DEFINE due == {t \in schedule : t <= now /\ t > now - CatchUp}
<1>1. CASE due = {}
  BY <1>1 DEF LastDue, Never
<1>2. CASE due # {}
  <2>1. \E t \in due : \A u \in due : u <= t
    BY <1>2, LastTick
  <2>2. (CHOOSE t \in due : \A u \in due : u <= t) \in due
    BY <2>1, Zenon
  <2>3. due \subseteq Int
    <3>1. due \subseteq 1 .. Horizon
      OBVIOUS
    <3>2. 1 .. Horizon \subseteq Int
      BY TimedJobsConstants
    <3> QED
      BY <3>1, <3>2, Zenon
  <2>4. LastDue(schedule, now) = CHOOSE t \in due : \A u \in due : u <= t
    BY <1>2, Zenon DEF LastDue
  <2> QED
    BY <2>2, <2>3, <2>4, Zenon
<1> QED
  BY <1>1, <1>2

LEMMA NoCallTyped == NoCall \in CallRow
  BY DEF NoCall, CallRow, CallPcs, Never

LEMMA ScheduleTyped == ASSUME NEW s \in Schedules PROVE s \in SUBSET (1 .. Horizon)
  BY TimedJobsConstants

(* A call that ends leaves the row, and any other call, as they were.       *)
LEMMA CallMoves ==
  ASSUME call \in [Calls -> CallRow], NEW d \in Calls, NEW pc \in CallPcs, call' = [call EXCEPT ![d].pc = pc]
  PROVE  /\ call' \in [Calls -> CallRow]
         /\ call'[d].pc = pc
         /\ \A c \in Calls \ {d} : call'[c] = call[c]
  BY DEF CallRow

LEMMA CallEnds ==
  ASSUME call \in [Calls -> CallRow], NEW d \in Calls, call' = [call EXCEPT ![d] = NoCall]
  PROVE  /\ call' \in [Calls -> CallRow]
         /\ call'[d].pc = "idle"
         /\ \A c \in Calls \ {d} : call'[c] = call[c]
<1>1. NoCall.pc = "idle"
  BY DEF NoCall
<1> QED
  BY <1>1, NoCallTyped

LEMMA JobsInitInv == JobsInit => JobsInv
<1> SUFFICES ASSUME JobsInit PROVE JobsInv
  OBVIOUS
<1>1. /\ clock \in Nat /\ call \in [Calls -> CallRow] /\ setting \in [pc : {"none", "write"}, now : Int]
      /\ setFor \in [made : Int, written : Int] /\ setFor.made = Never
  BY NoCallTyped, TimedJobsConstants DEF JobsInit, NoSetting, Never
<1>2. job \in JobRow /\ job.scheduledFor = Never /\ job.status = "none"
  <2> DEFINE schedules == IF clock = 0 THEN Schedules ELSE {{}}
  <2>1. schedules \subseteq SUBSET (1 .. Horizon)
    BY TimedJobsConstants
  <2>2. job \in [enabled : {TRUE}, schedule : schedules, scheduledFor : {Never}, status : {"none"}]
    BY DEF JobsInit
  <2> HIDE DEF schedules
  <2>3. Never \in Int
    BY DEF Never
  <2> QED
    BY <2>1, <2>2, <2>3 DEF JobRow
<1>3. startedFor = {} /\ again = {}
  BY DEF JobsInit
<1> QED
  BY <1>1, <1>2, <1>3 DEF JobsInv, JobsTyped, NoneAbove, StartedOnce, ChangeCounts, RunningIsRunning, Never

-----------------------------------------------------------------------------
(* The claim.                                                               *)
LEMMA ClaimStep ==
  ASSUME JobsInv, NEW d \in Calls, DispatchClaim(d)
  PROVE  JobsInv'
<1> DEFINE at == call[d].at
<1>1. /\ at \in Int /\ call[d].pc = "claim" /\ job \in JobRow /\ call \in [Calls -> CallRow]
      /\ startedFor \subseteq Int /\ setFor.made \in Int
      /\ UNCHANGED <<clock, setting, rewound, setFor, unreported>>
  BY DEF JobsInv, JobsTyped, CallRow, DispatchClaim, CallAt
<1>2. CASE Unclaimed(at)
  <2>1. /\ job' = [job EXCEPT !.scheduledFor = at] /\ call' = [call EXCEPT ![d].pc = "check"]
        /\ startedFor' = startedFor \cup {at} /\ again' = again \cup (startedFor \cap {at})
    BY <1>2 DEF DispatchClaim
  <2>2. job' \in JobRow /\ job'.scheduledFor = at /\ job'.status = job.status
    BY <1>1, <2>1 DEF JobRow
  <2>3. call' \in [Calls -> CallRow] /\ call'[d].pc = "check" /\ \A c \in Calls \ {d} : call'[c] = call[c]
    BY <1>1, <2>1, CallMoves DEF CallPcs
  <2>4. job.scheduledFor \in Int /\ job.scheduledFor < at
    BY <1>1, <1>2 DEF Unclaimed, JobRow
  <2>5. ~rewound => again' = again /\ \A t \in startedFor' : t <= at
    <3>1. ASSUME ~rewound, NEW t \in startedFor PROVE t < at
      BY <1>1, <2>4, <3>1 DEF JobsInv, NoneAbove
    <3> QED
      BY <1>1, <2>1, <3>1
  <2>6. setFor.made <= at
    BY <1>1, <2>4 DEF JobsInv, ChangeCounts
  <2>7. RunningIsRunning'
    BY <1>1, <2>2, <2>3 DEF JobsInv, RunningIsRunning, CallAt
  <2> QED
    BY <1>1, <2>1, <2>2, <2>3, <2>5, <2>6, <2>7 DEF JobsInv, JobsTyped, NoneAbove, StartedOnce, ChangeCounts
<1>3. CASE ~Unclaimed(at)
  <2>1. call' = [call EXCEPT ![d] = NoCall] /\ UNCHANGED <<job, startedFor, again>>
    BY <1>3 DEF DispatchClaim
  <2>2. call' \in [Calls -> CallRow] /\ call'[d].pc = "idle" /\ \A c \in Calls \ {d} : call'[c] = call[c]
    BY <1>1, <2>1, CallEnds
  <2>3. RunningIsRunning'
    BY <1>1, <2>1, <2>2 DEF JobsInv, RunningIsRunning, CallAt
  <2> QED
    BY <1>1, <2>1, <2>2, <2>3 DEF JobsInv, JobsTyped, NoneAbove, StartedOnce, ChangeCounts
<1> QED
  BY <1>2, <1>3

(* The other steps leave what was claimed alone, but for a new schedule.    *)
LEMMA QuietStep ==
  ASSUME JobsInv, UNCHANGED <<startedFor, again, rewound, setFor>>,
         clock' \in Nat, job' \in JobRow, call' \in [Calls -> CallRow],
         setting' \in [pc : {"none", "write"}, now : Int],
         job'.scheduledFor = job.scheduledFor, RunningIsRunning'
  PROVE  JobsInv'
  BY DEF JobsInv, JobsTyped, NoneAbove, StartedOnce, ChangeCounts

LEMMA ScheduleStep ==
  ASSUME JobsInv, ScheduleWritten
  PROVE  JobsInv'
<1>1. PICK s \in Schedules : job' = Rescheduled(s)
  BY DEF ScheduleWritten
<1>2. /\ rewound' = (rewound \/ setting.now < job.scheduledFor)
      /\ setFor' = [made |-> setting.now, written |-> clock]
      /\ setting' = NoSetting
      /\ UNCHANGED <<clock, call, startedFor, again, unreported>>
  BY DEF ScheduleWritten
<1>3. /\ clock \in Nat /\ job \in JobRow /\ setting \in [pc : {"none", "write"}, now : Int]
      /\ startedFor \subseteq Int /\ job.scheduledFor \in Int /\ setting.now \in Int
      /\ call \in [Calls -> CallRow]
  BY DEF JobsInv, JobsTyped, JobRow
<1>4. job' \in JobRow /\ job'.scheduledFor = setting.now /\ job'.status = job.status
  BY <1>1, <1>3, ScheduleTyped DEF Rescheduled, JobRow
<1>5. setFor' \in [made : Int, written : Int] /\ setFor'.made = setting.now
  BY <1>2, <1>3
<1>6. setting' \in [pc : {"none", "write"}, now : Int]
  BY <1>2 DEF NoSetting
<1> DEFINE behind == setting.now < job.scheduledFor
<1>a. rewound' <=> rewound \/ behind
  BY <1>2, Zenon
<1>b. ~behind => job.scheduledFor <= setting.now
  BY <1>3
<1> HIDE DEF behind
<1>7. NoneAbove'
  <2> SUFFICES ASSUME ~rewound', NEW t \in startedFor' PROVE t <= job'.scheduledFor
    BY DEF NoneAbove
  <2>1. ~rewound /\ ~behind /\ t \in startedFor
    BY <1>2, <1>a
  <2>2. t <= job.scheduledFor /\ t \in Int
    BY <1>3, <2>1 DEF JobsInv, NoneAbove
  <2> QED
    BY <1>3, <1>4, <1>b, <2>1, <2>2
<1>8. StartedOnce' /\ ChangeCounts'
  <2>1. StartedOnce'
    BY <1>2, <1>a DEF JobsInv, StartedOnce
  <2>2. ChangeCounts'
    BY <1>3, <1>4, <1>5 DEF ChangeCounts
  <2> QED
    BY <2>1, <2>2
<1>9. RunningIsRunning'
  BY <1>2, <1>4 DEF JobsInv, RunningIsRunning, CallAt
<1> QED
  BY <1>2, <1>3, <1>4, <1>5, <1>6, <1>7, <1>8, <1>9 DEF JobsInv, JobsTyped

-----------------------------------------------------------------------------
LEMMA JobsStep ==
  ASSUME JobsInv, JobsNext
  PROVE  JobsInv'
<1>0. /\ clock \in Nat /\ job \in JobRow /\ call \in [Calls -> CallRow]
      /\ setting \in [pc : {"none", "write"}, now : Int]
      /\ RunningIsRunning
  BY DEF JobsInv, JobsTyped
<1> USE DEF jobHistory
<1>1. CASE ClockTicks
  <2>1. clock' \in Nat /\ UNCHANGED <<job, call, setting, startedFor, again, rewound, setFor, unreported>>
    BY <1>0, <1>1 DEF ClockTicks
  <2>2. RunningIsRunning'
    BY <1>0, <2>1 DEF RunningIsRunning, CallAt
  <2> QED
    BY <1>0, <2>1, <2>2, QuietStep
<1>2. CASE JobSwitched
  <2>1. /\ job' = [job EXCEPT !.enabled = ~@]
        /\ UNCHANGED <<clock, call, setting, startedFor, again, rewound, setFor, unreported>>
    BY <1>2 DEF JobSwitched
  <2>2. job' \in JobRow /\ job'.scheduledFor = job.scheduledFor /\ job'.status = job.status
    <3>1. PICK e \in BOOLEAN : job' = [job EXCEPT !.enabled = e]
      <4>1. (~job.enabled) \in BOOLEAN
        OBVIOUS
      <4> QED
        BY <2>1, <4>1, Zenon
    <3> QED
      BY <1>0, <3>1 DEF JobRow
  <2>3. RunningIsRunning'
    BY <1>0, <2>1, <2>2 DEF RunningIsRunning, CallAt
  <2> QED
    BY <1>0, <2>1, <2>2, <2>3, QuietStep
<1>3. CASE ScheduleTimed
  <2>1. /\ setting' = [pc |-> "write", now |-> clock]
        /\ UNCHANGED <<clock, job, call, startedFor, again, rewound, setFor, unreported>>
    BY <1>3 DEF ScheduleTimed
  <2>2. setting' \in [pc : {"none", "write"}, now : Int]
    BY <1>0, <2>1
  <2>3. RunningIsRunning'
    BY <1>0, <2>1 DEF RunningIsRunning, CallAt
  <2> QED
    BY <1>0, <2>1, <2>2, <2>3, QuietStep
<1>4. CASE ScheduleWritten
  BY <1>4, ScheduleStep
<1>5. ASSUME NEW d \in Calls, TickCalled(d)
      PROVE  JobsInv'
  <2> DEFINE new == [NoCall EXCEPT !.pc = "read", !.now = clock]
  <2>1. /\ call' = [call EXCEPT ![d] = new] /\ call[d].pc = "idle"
        /\ UNCHANGED <<clock, job, setting, startedFor, again, rewound, setFor, unreported>>
    BY <1>5 DEF TickCalled, CallAt
  <2>2. new \in CallRow
    <3>1. clock \in Int
      BY <1>0
    <3> QED
      BY <3>1, NoCallTyped DEF CallRow, CallPcs
  <2> HIDE DEF new
  <2>3. call' \in [Calls -> CallRow] /\ \A c \in Calls \ {d} : call'[c] = call[c]
    BY <1>0, <2>1, <2>2
  <2>4. RunningIsRunning'
    BY <1>0, <2>1, <2>3 DEF RunningIsRunning, CallAt
  <2> QED
    BY <1>0, <2>1, <2>3, <2>4, QuietStep
<1>6. ASSUME NEW d \in Calls, DispatchRead(d)
      PROVE  JobsInv'
  <2> DEFINE at == LastDue(job.schedule, call[d].now)
  <2>1. /\ call[d].pc = "read" /\ call[d] \in CallRow /\ call[d].now \in Int
        /\ job.schedule \subseteq 1 .. Horizon
        /\ UNCHANGED <<clock, job, setting, startedFor, again, rewound, setFor, unreported>>
    BY <1>0, <1>6 DEF DispatchRead, CallAt, CallRow, JobRow
  <2>2. at \in Int
    BY <2>1, LastDueTyped
  <2>3. \/ call' = [call EXCEPT ![d] = NoCall]
        \/ call' = [call EXCEPT ![d] = [call[d] EXCEPT !.pc = "claim", !.at = at]]
    BY <1>6 DEF DispatchRead
  <2> HIDE DEF at
  <2>4. [call[d] EXCEPT !.pc = "claim", !.at = at] \in CallRow
    BY <2>1, <2>2 DEF CallRow, CallPcs
  <2>5. call' \in [Calls -> CallRow] /\ \A c \in Calls \ {d} : call'[c] = call[c]
    BY <1>0, <2>3, <2>4, NoCallTyped
  <2>6. RunningIsRunning'
    BY <1>0, <2>1, <2>5 DEF RunningIsRunning, CallAt
  <2> QED
    BY <1>0, <2>1, <2>5, <2>6, QuietStep
<1>7. ASSUME NEW d \in Calls, DispatchClaim(d)
      PROVE  JobsInv'
  BY <1>7, ClaimStep
<1>8. ASSUME NEW d \in Calls, RunCheck(d)
      PROVE  JobsInv'
  <2> DEFINE pc == IF job.enabled THEN "begin" ELSE "skip"
  <2>1. /\ call' = [call EXCEPT ![d].pc = pc] /\ call[d].pc = "check" /\ pc \in CallPcs
        /\ UNCHANGED <<clock, job, setting, startedFor, again, rewound, setFor, unreported>>
    BY <1>8 DEF RunCheck, CallAt, CallPcs
  <2> HIDE DEF pc
  <2>2. call' \in [Calls -> CallRow] /\ \A c \in Calls \ {d} : call'[c] = call[c]
    BY <1>0, <2>1, CallMoves
  <2>3. RunningIsRunning'
    BY <1>0, <2>1, <2>2 DEF RunningIsRunning, CallAt
  <2> QED
    BY <1>0, <2>1, <2>2, <2>3, QuietStep
<1>9. ASSUME NEW d \in Calls, RunSkip(d) \/ RunEnd(d)
      PROVE  JobsInv'
  <2>1. PICK status \in {"skipped", "ended"} : job' = [job EXCEPT !.status = status]
    BY <1>9 DEF RunSkip, RunEnd
  <2>2. /\ call' = [call EXCEPT ![d] = NoCall]
        /\ UNCHANGED <<clock, setting, startedFor, again, rewound, setFor, unreported>>
    BY <1>9 DEF RunSkip, RunEnd
  <2>3. job' \in JobRow /\ job'.scheduledFor = job.scheduledFor /\ job'.status # "running"
    BY <1>0, <2>1 DEF JobRow
  <2>4. call' \in [Calls -> CallRow]
    BY <1>0, <2>2, CallEnds
  <2> QED
    BY <1>0, <2>2, <2>3, <2>4, QuietStep DEF RunningIsRunning
<1>10. ASSUME NEW d \in Calls, RunBegin(d)
       PROVE  JobsInv'
  <2>1. /\ job' = [job EXCEPT !.status = "running"] /\ call' = [call EXCEPT ![d].pc = "run"]
        /\ UNCHANGED <<clock, setting, startedFor, again, rewound, setFor, unreported>>
    BY <1>10 DEF RunBegin
  <2>2. job' \in JobRow /\ job'.scheduledFor = job.scheduledFor
    BY <1>0, <2>1 DEF JobRow
  <2>3. call' \in [Calls -> CallRow] /\ call'[d].pc = "run"
    BY <1>0, <2>1, CallMoves DEF CallPcs
  <2> QED
    BY <1>0, <2>1, <2>2, <2>3, QuietStep DEF RunningIsRunning, CallAt
<1>11. ASSUME NEW d \in Calls, RecordLost(d)
       PROVE  JobsInv'
  <2>1. /\ call[d].pc \in {"skip", "begin", "run"}
        /\ unreported' = (unreported \/ call[d].pc = "run")
        /\ UNCHANGED <<clock, job, setting, startedFor, again, rewound, setFor>>
    BY <1>11 DEF RecordLost, CallAt
  <2>2. \/ call' = [call EXCEPT ![d] = NoCall]
        \/ call' = [call EXCEPT ![d] = [call[d] EXCEPT !.pc = "run"]]
    BY <1>11 DEF RecordLost, CallAt
  <2>3. [call[d] EXCEPT !.pc = "run"] \in CallRow
    BY <1>0 DEF CallRow, CallPcs
  <2>4. call' \in [Calls -> CallRow] /\ \A c \in Calls \ {d} : call'[c] = call[c]
    BY <1>0, <2>2, <2>3, NoCallTyped
  <2>5. RunningIsRunning'
    BY <1>0, <2>1, <2>4 DEF RunningIsRunning, CallAt
  <2> QED
    BY <1>0, <2>1, <2>4, <2>5, QuietStep
<1>12. ASSUME NEW d \in Calls, CallKilled(d)
       PROVE  JobsInv'
  <2>1. /\ unreported' = (unreported \/ call[d].pc = "run")
        /\ call' = [call EXCEPT ![d] = NoCall]
        /\ UNCHANGED <<clock, job, setting, startedFor, again, rewound, setFor>>
    BY <1>12 DEF CallKilled, CallAt
  <2>2. call' \in [Calls -> CallRow] /\ \A c \in Calls \ {d} : call'[c] = call[c]
    BY <1>0, <2>1, CallEnds
  <2>3. RunningIsRunning'
    BY <1>0, <2>1, <2>2 DEF RunningIsRunning, CallAt
  <2> QED
    BY <1>0, <2>1, <2>2, <2>3, QuietStep
<1> QED
  BY <1>1, <1>2, <1>3, <1>4, <1>5, <1>6, <1>7, <1>8, <1>9, <1>10, <1>11, <1>12 DEF JobsNext, CallStep

LEMMA JobsInvariant == JobsSpec => []JobsInv
<1>1. JobsInv /\ [JobsNext]_jobVars => JobsInv'
  <2> SUFFICES ASSUME JobsInv, [JobsNext]_jobVars PROVE JobsInv'
    OBVIOUS
  <2>1. CASE JobsNext
    BY <2>1, JobsStep
  <2>2. CASE UNCHANGED jobVars
    BY <2>2 DEF jobVars, JobsInv, JobsTyped, NoneAbove, StartedOnce, ChangeCounts, RunningIsRunning, CallAt
  <2> QED
    BY <2>1, <2>2
<1> QED
  BY <1>1, JobsInitInv, PTL DEF JobsSpec

-----------------------------------------------------------------------------
(* No time is started for twice, unless a change of schedule that was timed *)
(* before a claim was written after it.                                     *)
THEOREM ClaimsAreOnce == JobsSpec => []StartedOnce
<1>1. JobsInv => StartedOnce
  BY DEF JobsInv
<1> QED
  BY <1>1, JobsInvariant, PTL

(* A row that says running tells the truth, however executions overlap,     *)
(* unless one was killed or its record lost.                                *)
THEOREM RunningIsTrue == JobsSpec => []RunningIsRunning
<1>1. JobsInv => RunningIsRunning
  BY DEF JobsInv
<1> QED
  BY <1>1, JobsInvariant, PTL

(* Nothing from before the last change of schedule is claimed.              *)
THEOREM ChangesCount == JobsSpec => NothingCaughtUp
<1>1. JobsInv /\ [JobsNext]_jobVars =>
        [\A d \in Calls : CallAt(d, "claim") /\ call'[d].pc = "check" => call[d].at > setFor.made]_jobVars
  <2> SUFFICES ASSUME JobsInv, JobsNext, NEW d \in Calls, CallAt(d, "claim"), call'[d].pc = "check"
               PROVE  call[d].at > setFor.made
    OBVIOUS
  <2>1. /\ call \in [Calls -> CallRow] /\ call[d].pc = "claim" /\ call[d].at \in Int
        /\ setFor.made \in Int /\ job.scheduledFor \in Int
        /\ setFor.made <= job.scheduledFor
    BY DEF JobsInv, JobsTyped, ChangeCounts, CallAt, CallRow, JobRow
  <2>2. CASE DispatchClaim(d)
    <3>1. Unclaimed(call[d].at)
      <4>1. NoCall.pc # "check"
        BY DEF NoCall
      <4> QED
        BY <2>1, <2>2, <4>1 DEF DispatchClaim
    <3> QED
      BY <2>1, <3>1 DEF Unclaimed
  <2>3. CASE ClockTicks \/ JobSwitched \/ ScheduleTimed \/ ScheduleWritten
    BY <2>1, <2>3 DEF ClockTicks, JobSwitched, ScheduleTimed, ScheduleWritten
  <2>4. ASSUME NEW e \in Calls \ {d},
               TickCalled(e) \/ CallStep(e) \/ RecordLost(e) \/ CallKilled(e)
        PROVE  FALSE
    <3>1. call'[d] = call[d]
      BY <2>1, <2>4 DEF TickCalled, CallStep, RecordLost, CallKilled, DispatchRead, DispatchClaim,
                        RunCheck, RunSkip, RunBegin, RunEnd
    <3> QED
      BY <2>1, <3>1
  <2>5. CASE TickCalled(d) \/ DispatchRead(d) \/ RunCheck(d) \/ RunSkip(d) \/ RunBegin(d) \/ RunEnd(d)
             \/ RecordLost(d) \/ CallKilled(d)
    <3>1. CASE CallKilled(d)
      BY <2>1, <3>1, CallEnds DEF CallKilled
    <3>2. CASE ~CallKilled(d)
      BY <2>1, <2>5, <3>2 DEF CallAt, TickCalled, RecordLost, DispatchRead, RunCheck, RunSkip, RunBegin, RunEnd
    <3> QED
      BY <3>1, <3>2
  <2> QED
    BY <2>1, <2>2, <2>3, <2>4, <2>5 DEF JobsNext, CallStep
<1> QED
  BY <1>1, JobsInvariant, PTL DEF JobsSpec, NothingCaughtUp

-----------------------------------------------------------------------------
(* What makes DueIsClaimed inductive.  A time that falls due has the ticks  *)
(* of its window to be claimed at; a tick of them is lost when its call     *)
(* never came or died, and each lost one was counted.                       *)
Window(t) == t .. (t + CatchUp - 1)
Awaits(d, tick, t) ==
  /\ call[d].now = tick
  /\ \/ CallAt(d, "read")
     \/ CallAt(d, "claim") /\ t <= call[d].at
Lost(t) ==
  {tick \in Window(t) : /\ tick <= clock
                        /\ tick = clock => called = clock
                        /\ \A d \in Calls : ~Awaits(d, tick, t)}

DueFits(t) ==
  setFor.written < t => t <= job.scheduledFor \/ Cardinality(Lost(t)) <= missed

DueInv ==
  /\ called \in Int /\ called <= clock
  /\ missed \in Nat
  /\ \A t \in job.schedule : DueFits(t)

LEMMA WindowFinite ==
  ASSUME NEW t \in Int
  PROVE  /\ IsFiniteSet(Window(t)) /\ Cardinality(Window(t)) = CatchUp
         /\ IsFiniteSet(Lost(t)) /\ Cardinality(Lost(t)) \in Nat
<1>1. /\ IsFiniteSet(Window(t)) /\ Cardinality(Window(t)) = CatchUp
  <2>1. t + CatchUp - 1 \in Int /\ ~(t > t + CatchUp - 1)
    BY TimedJobsConstants
  <2>2. IsFiniteSet(t .. (t + CatchUp - 1)) /\ Cardinality(t .. (t + CatchUp - 1)) = (t + CatchUp - 1) - t + 1
    BY <2>1, FS_Interval
  <2> QED
    BY <2>2, TimedJobsConstants DEF Window
<1>2. Lost(t) \in SUBSET Window(t)
  BY DEF Lost
<1>3. IsFiniteSet(Lost(t))
  BY <1>1, <1>2, FS_Subset
<1> QED
  BY <1>1, <1>3, FS_CardinalityType

(* A step that loses no tick, and takes no claim back.                      *)
LEMMA NoneLost ==
  ASSUME NEW t \in Int, DueFits(t), Lost(t)' \subseteq Lost(t),
         setFor' = setFor, job.scheduledFor \in Int, job'.scheduledFor \in Int,
         job.scheduledFor <= job'.scheduledFor,
         missed \in Nat, missed' \in Nat, missed <= missed'
  PROVE  DueFits(t)'
<1>1. Cardinality(Lost(t)') \in Nat /\ Cardinality(Lost(t)') <= Cardinality(Lost(t)) /\ Cardinality(Lost(t)) \in Nat
  BY WindowFinite, FS_Subset, FS_CardinalityType
<1>2. Cardinality(Lost(t))' = Cardinality(Lost(t)')
  OBVIOUS
<1> QED
  BY <1>1, <1>2 DEF DueFits

(* A step that loses one tick counts it.                                    *)
LEMMA OneLost ==
  ASSUME NEW t \in Int, DueFits(t), NEW tick, Lost(t)' \subseteq Lost(t) \cup {tick},
         setFor' = setFor, job' = job,
         missed \in Nat, missed' = missed + 1
  PROVE  DueFits(t)'
<1>1. IsFiniteSet(Lost(t)) /\ Cardinality(Lost(t)) \in Nat
  BY WindowFinite
<1>2. /\ IsFiniteSet(Lost(t) \cup {tick})
      /\ Cardinality(Lost(t) \cup {tick}) \in {Cardinality(Lost(t)), Cardinality(Lost(t)) + 1}
  BY <1>1, FS_AddElement
<1>3. Cardinality(Lost(t)') <= Cardinality(Lost(t) \cup {tick}) /\ Cardinality(Lost(t)') \in Nat
  BY <1>2, FS_Subset, FS_CardinalityType
<1>4. Cardinality(Lost(t))' = Cardinality(Lost(t)')
  OBVIOUS
<1> QED
  BY <1>1, <1>2, <1>3, <1>4 DEF DueFits

(* The dispatcher finds every time of the schedule within the catch-up.     *)
LEMMA LastDueCovers ==
  ASSUME NEW schedule, schedule \subseteq 1 .. Horizon, NEW now \in Int,
         NEW t \in schedule, t <= now, t > now - CatchUp
  PROVE  LastDue(schedule, now) # Never /\ t <= LastDue(schedule, now)
<1> DEFINE due == {u \in schedule : u <= now /\ u > now - CatchUp}
           last == CHOOSE v \in due : \A u \in due : u <= v
<1>1. t \in due /\ due \subseteq 1 .. Horizon /\ due # {}
  OBVIOUS
<1>2. \E v \in due : \A u \in due : u <= v
  BY <1>1, LastTick
<1>3. last \in due /\ \A u \in due : u <= last
  BY <1>2, Zenon
<1>4. LastDue(schedule, now) = last
  BY <1>1, Zenon DEF LastDue
<1> HIDE DEF last, due
<1>5. last \in 1 .. Horizon /\ t <= last
  BY <1>1, <1>3
<1>6. last # Never
  BY <1>5, TimedJobsConstants DEF Never
<1> QED
  BY <1>4, <1>5, <1>6

LEMMA DueInit == JobsInit => DueInv
<1> SUFFICES ASSUME JobsInit PROVE DueInv
  OBVIOUS
<1>1. clock \in Nat /\ called = clock /\ missed = 0
  BY TimedJobsConstants DEF JobsInit
<1>2. ASSUME NEW t \in job.schedule PROVE DueFits(t)
  <2> DEFINE schedules == IF clock = 0 THEN Schedules ELSE {{}}
  <2>1. job \in [enabled : {TRUE}, schedule : schedules, scheduledFor : {Never}, status : {"none"}]
    BY DEF JobsInit
  <2>2. job.schedule \in schedules
    BY <2>1
  <2>3. clock = 0 /\ t \in 1 .. Horizon
    BY <1>2, <2>2, TimedJobsConstants
  <2>4. Lost(t) = {}
    BY <2>3, TimedJobsConstants DEF Lost, Window
  <2> QED
    BY <1>1, <2>4, FS_EmptySet DEF DueFits
<1> QED
  BY <1>1, <1>2 DEF DueInv

(* A step after which the calls that await a claim are those that did.      *)
LEMMA CallsKept ==
  ASSUME NEW t \in Int, UNCHANGED <<clock, called>>,
         \A d \in Calls : call[d].pc \in {"read", "claim"} => call'[d] = call[d]
  PROVE  Lost(t)' \subseteq Lost(t)
  BY DEF Lost, Window, Awaits, CallAt

LEMMA DueStep ==
  ASSUME JobsInv, JobsInv', DueInv, JobsNext
  PROVE  DueInv'
<1>0. /\ clock \in Nat /\ job \in JobRow /\ call \in [Calls -> CallRow] /\ call' \in [Calls -> CallRow]
      /\ job.scheduledFor \in Int /\ job'.scheduledFor \in Int
      /\ called \in Int /\ called <= clock /\ missed \in Nat
      /\ job.schedule \subseteq 1 .. Horizon /\ 1 .. Horizon \subseteq Int
      /\ \A t \in job.schedule : t \in Int /\ DueFits(t)
  <2>1. /\ clock \in Nat /\ job \in JobRow /\ job' \in JobRow /\ call \in [Calls -> CallRow] /\ call' \in [Calls -> CallRow]
    BY DEF JobsInv, JobsTyped
  <2>2. 1 .. Horizon \subseteq Int
    BY TimedJobsConstants
  <2>3. job.schedule \subseteq 1 .. Horizon /\ job.scheduledFor \in Int /\ job'.scheduledFor \in Int
    BY <2>1 DEF JobRow
  <2> QED
    BY <2>1, <2>2, <2>3 DEF DueInv
<1> USE DEF jobHistory
<1>1. CASE ClockTicks
  <2>1. clock' = clock + 1 /\ UNCHANGED <<called, job, call, setFor>>
    BY <1>1 DEF ClockTicks
  <2>2. CASE called = clock
    <3>1. missed' = missed
      BY <1>1, <2>2 DEF ClockTicks
    <3>2. ASSUME NEW t \in job.schedule PROVE Lost(t)' \subseteq Lost(t)
      BY <1>0, <2>1, <2>2 DEF Lost, Window, Awaits, CallAt
    <3> QED
      BY <1>0, <2>1, <3>1, <3>2, NoneLost DEF DueInv
  <2>3. CASE called # clock
    <3>1. missed' = missed + 1
      BY <1>1, <2>3 DEF ClockTicks
    <3>2. ASSUME NEW t \in job.schedule PROVE Lost(t)' \subseteq Lost(t) \cup {clock}
      BY <1>0, <2>1, <2>3 DEF Lost, Window, Awaits, CallAt
    <3> QED
      BY <1>0, <2>1, <3>1, <3>2, OneLost DEF DueInv
  <2> QED
    BY <2>2, <2>3
<1>2. ASSUME UNCHANGED <<clock, called, setFor>>, job'.schedule = job.schedule,
             job.scheduledFor <= job'.scheduledFor, missed' = missed,
             \A d \in Calls : call[d].pc \in {"read", "claim"} => call'[d] = call[d]
      PROVE  DueInv'
  BY <1>0, <1>2, CallsKept, NoneLost DEF DueInv
<1>3. CASE JobSwitched \/ ScheduleTimed
  <2>1. /\ job'.schedule = job.schedule /\ job'.scheduledFor = job.scheduledFor
        /\ UNCHANGED <<clock, called, setFor, missed, call>>
    BY <1>0, <1>3 DEF JobSwitched, ScheduleTimed, JobRow
  <2> QED
    BY <1>0, <1>2, <2>1
<1>4. CASE ScheduleWritten
  <2>1. setFor'.written = clock /\ UNCHANGED <<clock, called, missed>>
    BY <1>4 DEF ScheduleWritten
  <2>2. job'.schedule \subseteq 1 .. Horizon
    <3>1. PICK s \in Schedules : job' = Rescheduled(s)
      BY <1>4 DEF ScheduleWritten
    <3> QED
      BY <1>0, <3>1, ScheduleTyped DEF Rescheduled, JobRow
  <2>3. ASSUME NEW t \in job'.schedule PROVE DueFits(t)'
    <3>1. t \in Int
      BY <1>0, <2>2
    <3>2. CASE clock < t
      <4>1. Lost(t)' = {}
        BY <1>0, <2>1, <3>1, <3>2, TimedJobsConstants DEF Lost, Window
      <4>2. Cardinality(Lost(t)') = 0
        BY <4>1, FS_EmptySet
      <4> QED
        BY <1>0, <2>1, <4>2 DEF DueFits
    <3> QED
      BY <1>0, <2>1, <3>1, <3>2 DEF DueFits
  <2> QED
    BY <1>0, <2>1, <2>3 DEF DueInv
<1>5. ASSUME NEW d \in Calls, TickCalled(d)
      PROVE  DueInv'
  <2>1. /\ called' = clock /\ call[d].pc = "idle" /\ UNCHANGED <<clock, job, setFor, missed>>
        /\ \A c \in Calls \ {d} : call'[c] = call[c]
        /\ call'[d].pc = "read" /\ call'[d].now = clock
    BY <1>0, <1>5 DEF TickCalled, CallAt, CallRow, NoCall
  <2>2. ASSUME NEW t \in job.schedule PROVE Lost(t)' \subseteq Lost(t)
    BY <1>0, <2>1 DEF Lost, Window, Awaits, CallAt
  <2> QED
    BY <1>0, <2>1, <2>2, NoneLost DEF DueInv
<1>6. ASSUME NEW d \in Calls, DispatchRead(d)
      PROVE  DueInv'
  <2> DEFINE at == LastDue(job.schedule, call[d].now)
  <2>1. /\ call[d].pc = "read" /\ call[d].now \in Int /\ UNCHANGED <<clock, called, job, setFor, missed>>
        /\ \A c \in Calls \ {d} : call'[c] = call[c]
    BY <1>0, <1>6 DEF DispatchRead, CallAt, CallRow
  <2>2. at # Never => call'[d].pc = "claim" /\ call'[d].now = call[d].now /\ call'[d].at = at
    BY <1>0, <1>6 DEF DispatchRead, CallRow
  <2>3. ASSUME NEW t \in job.schedule, call[d].now \in Window(t)
        PROVE  at # Never /\ t <= at
    <3>1. t \in Int /\ t <= call[d].now /\ t > call[d].now - CatchUp
      BY <1>0, <2>1, <2>3, TimedJobsConstants DEF Window
    <3> QED
      BY <1>0, <2>1, <3>1, LastDueCovers
  <2> HIDE DEF at
  <2>4. ASSUME NEW t \in job.schedule PROVE Lost(t)' \subseteq Lost(t)
    BY <1>0, <2>1, <2>2, <2>3 DEF Lost, Window, Awaits, CallAt
  <2> QED
    BY <1>0, <2>1, <2>4, NoneLost DEF DueInv
<1>7. ASSUME NEW d \in Calls, DispatchClaim(d)
      PROVE  DueInv'
  <2> DEFINE at == call[d].at
  <2>1. /\ call[d].pc = "claim" /\ at \in Int /\ UNCHANGED <<clock, called, setFor, missed>>
        /\ \A c \in Calls \ {d} : call'[c] = call[c]
    BY <1>0, <1>7 DEF DispatchClaim, CallAt, CallRow
  <2>2. job'.schedule = job.schedule /\ job.scheduledFor <= job'.scheduledFor /\ at <= job'.scheduledFor
    <3>1. CASE Unclaimed(at)
      BY <1>0, <1>7, <2>1, <3>1 DEF DispatchClaim, Unclaimed, JobRow
    <3>2. CASE ~Unclaimed(at)
      BY <1>0, <1>7, <2>1, <3>2 DEF DispatchClaim, Unclaimed
    <3> QED
      BY <3>1, <3>2
  <2>3. ASSUME NEW t \in job.schedule PROVE DueFits(t)'
    <3>1. CASE t <= at
      BY <1>0, <2>1, <2>2, <3>1 DEF DueFits
    <3>2. CASE ~(t <= at)
      <4>1. Lost(t)' \subseteq Lost(t)
        BY <1>0, <2>1, <3>2 DEF Lost, Window, Awaits, CallAt
      <4> QED
        BY <1>0, <2>1, <2>2, <4>1, NoneLost
    <3> QED
      BY <3>1, <3>2
  <2> QED
    BY <1>0, <2>1, <2>2, <2>3 DEF DueInv
<1>8. ASSUME NEW d \in Calls, RunCheck(d) \/ RunSkip(d) \/ RunBegin(d) \/ RunEnd(d) \/ RecordLost(d)
      PROVE  DueInv'
  <2>1. /\ call[d].pc \notin {"read", "claim"} /\ UNCHANGED <<clock, called, setFor, missed>>
        /\ job'.schedule = job.schedule /\ job'.scheduledFor = job.scheduledFor
    BY <1>0, <1>8 DEF RunCheck, RunSkip, RunBegin, RunEnd, RecordLost, CallAt, JobRow
  <2>2. \A c \in Calls \ {d} : call'[c] = call[c]
    BY <1>0, <1>8 DEF RunCheck, RunSkip, RunBegin, RunEnd, RecordLost
  <2> QED
    BY <1>0, <1>2, <2>1, <2>2
<1>9. ASSUME NEW d \in Calls, CallKilled(d)
      PROVE  DueInv'
  <2>1. /\ UNCHANGED <<clock, called, job, setFor>>
        /\ \A c \in Calls \ {d} : call'[c] = call[c]
    BY <1>0, <1>9 DEF CallKilled
  <2>2. CASE call[d].pc \in {"read", "claim"}
    <3>1. missed' = missed + 1
      BY <1>9, <2>2 DEF CallKilled
    <3>2. ASSUME NEW t \in job.schedule PROVE Lost(t)' \subseteq Lost(t) \cup {call[d].now}
      BY <1>0, <2>1 DEF Lost, Window, Awaits, CallAt
    <3> QED
      BY <1>0, <2>1, <3>1, <3>2, OneLost DEF DueInv
  <2>3. CASE call[d].pc \notin {"read", "claim"}
    <3>1. missed' = missed
      BY <1>0, <1>9, <2>3 DEF CallKilled
    <3> QED
      BY <1>0, <1>2, <2>1, <2>3, <3>1
  <2> QED
    BY <2>2, <2>3
<1> QED
  BY <1>1, <1>3, <1>4, <1>5, <1>6, <1>7, <1>8, <1>9 DEF JobsNext, CallStep

(* A time the job fell due is claimed, or passed over for a later one,      *)
(* unless as many calls failed to come as the catch-up spans: however calls *)
(* overlap, whatever dies, and for any schedules.                           *)
THEOREM DueTimesAreClaimed == JobsSpec => []DueIsClaimed
<1>1. DueInv /\ JobsInv /\ JobsInv' /\ [JobsNext]_jobVars => DueInv'
  <2> SUFFICES ASSUME DueInv, JobsInv, JobsInv', [JobsNext]_jobVars PROVE DueInv'
    OBVIOUS
  <2>1. CASE JobsNext
    BY <2>1, DueStep
  <2>2. CASE UNCHANGED jobVars
    <3>1. \A t : Lost(t)' = Lost(t)
      BY <2>2 DEF jobVars, Lost, Window, Awaits, CallAt
    <3> QED
      BY <2>2, <3>1 DEF jobVars, DueInv, DueFits
  <2> QED
    BY <2>1, <2>2
<1>2. JobsInv /\ DueInv => DueIsClaimed
  <2> SUFFICES ASSUME JobsInv, DueInv, missed < CatchUp, \A d \in Calls : call[d].pc \notin {"read", "claim"},
                      NEW t \in job.schedule, t > setFor.written, t + CatchUp <= clock
               PROVE  job.scheduledFor >= t
    BY DEF DueIsClaimed
  <2>1. t \in Int /\ clock \in Nat /\ job.scheduledFor \in Int /\ setFor.written \in Int /\ missed \in Nat
    <3>1. job.schedule \subseteq 1 .. Horizon /\ 1 .. Horizon \subseteq Int
      BY TimedJobsConstants DEF JobsInv, JobsTyped, JobRow
    <3> QED
      BY <3>1 DEF JobsInv, JobsTyped, JobRow, DueInv
  <2>2. Lost(t) = Window(t)
    BY <2>1, TimedJobsConstants DEF Lost, Window, Awaits, CallAt
  <2>3. Cardinality(Lost(t)) = CatchUp
    BY <2>1, <2>2, WindowFinite
  <2>4. t <= job.scheduledFor \/ Cardinality(Lost(t)) <= missed
    BY <2>1 DEF DueInv, DueFits
  <2> QED
    BY <2>1, <2>3, <2>4, TimedJobsConstants
<1> QED
  BY <1>1, <1>2, DueInit, JobsInvariant, PTL DEF JobsSpec

-----------------------------------------------------------------------------
(* No time lies ahead of the clock, and each missed tick cost a fault.      *)
JobsRest ==
  /\ clock \in 0 .. Horizon /\ called \in 0 .. clock
  /\ job.schedule \in Schedules \cup {{}} /\ job.scheduledFor \in Never .. clock
  /\ \A d \in Calls : call[d].now \in 0 .. clock /\ call[d].at \in Never .. clock
  /\ setting.now \in 0 .. clock
  /\ jobsLeft \in [settings : 0 .. MaxSettings, faults : 0 .. MaxJobFaults]
  /\ startedFor \subseteq 1 .. clock /\ again \subseteq startedFor
  /\ {rewound, unreported} \subseteq BOOLEAN
  /\ setFor.made \in Never .. clock /\ setFor.written \in 0 .. clock
  /\ missed \in Nat /\ missed + jobsLeft.faults <= MaxJobFaults
  /\ \A d \in Calls : CallAt(d, "claim") => call[d].at \in 1 .. clock

(* What falls due is not before the first tick, nor after the call's time.  *)
LEMMA LastDueWithin ==
  ASSUME NEW schedule, schedule \subseteq 1 .. Horizon, NEW now \in Nat
  PROVE  LastDue(schedule, now) = Never \/ LastDue(schedule, now) \in 1 .. now
<1> DEFINE due == {t \in schedule : t <= now /\ t > now - CatchUp}
<1>1. CASE due = {}
  BY <1>1 DEF LastDue
<1>2. CASE due # {}
  <2>1. \E t \in due : \A u \in due : u <= t
    BY <1>2, LastTick
  <2>2. (CHOOSE t \in due : \A u \in due : u <= t) \in due
    BY <2>1, Zenon
  <2>3. due \subseteq 1 .. now
    <3>1. ASSUME NEW t \in due PROVE t \in 1 .. now
      <4>1. t \in 1 .. Horizon /\ t <= now
        OBVIOUS
      <4> QED
        BY <4>1, TimedJobsConstants
    <3> QED
      BY <3>1
  <2>4. LastDue(schedule, now) = CHOOSE t \in due : \A u \in due : u <= t
    BY <1>2, Zenon DEF LastDue
  <2> QED
    BY <2>2, <2>3, <2>4, Zenon
<1> QED
  BY <1>1, <1>2

LEMMA JobsRestStep ==
  ASSUME JobsInv, JobsRest, JobsNext
  PROVE  JobsRest'
<1>0. /\ JobsTyped /\ job \in JobRow /\ call \in [Calls -> CallRow] /\ setting \in [pc : {"none", "write"}, now : Int]
      /\ setFor \in [made : Int, written : Int] /\ clock \in Nat /\ job.schedule \subseteq 1 .. Horizon
      /\ jobsLeft \in [settings : 0 .. MaxSettings, faults : 0 .. MaxJobFaults]
  BY DEF JobsInv, JobsTyped, JobRow, JobsRest
<1> USE DEF jobHistory, Never
<1>1. CASE ClockTicks
  <2>1. /\ clock' = clock + 1 /\ clock < Horizon
        /\ UNCHANGED <<called, job, call, setting, startedFor, again, rewound, setFor, unreported>>
        /\ UNCHANGED <<jobsLeft, missed>> \/ (JobFault /\ missed' = missed + 1)
    BY <1>1 DEF ClockTicks
  <2>2. /\ jobsLeft' \in [settings : 0 .. MaxSettings, faults : 0 .. MaxJobFaults]
        /\ missed' \in Nat /\ missed' + jobsLeft'.faults <= MaxJobFaults
    BY <1>0, <2>1, TimedJobsConstants DEF JobFault, JobsRest
  <2> QED
    BY <1>0, <2>1, <2>2, TimedJobsConstants DEF JobsRest, CallAt
<1>2. ASSUME NEW d \in Calls, TickCalled(d) PROVE JobsRest'
  <2>1. /\ jobsLeft' \in [settings : 0 .. MaxSettings, faults : 0 .. MaxJobFaults]
        /\ missed' \in Nat /\ missed' + jobsLeft'.faults <= MaxJobFaults
    BY <1>0, <1>2, TimedJobsConstants DEF TickCalled, JobFault, JobsRest
  <2>2. /\ call'[d].pc = "read" /\ call'[d].now = clock /\ call'[d].at = Never
        /\ \A c \in Calls \ {d} : call'[c] = call[c]
    BY <1>0, <1>2 DEF TickCalled, NoCall, CallRow
  <2>3. called' = clock /\ UNCHANGED <<clock, job, setting, startedFor, again, rewound, setFor, unreported>>
    BY <1>2 DEF TickCalled
  <2> QED
    BY <1>0, <2>1, <2>2, <2>3 DEF JobsRest, CallAt
<1>3. ASSUME NEW d \in Calls, DispatchRead(d) PROVE JobsRest'
  <2> DEFINE at == LastDue(job.schedule, call[d].now)
  <2>1. UNCHANGED <<clock, called, job, setting, jobsLeft, startedFor, again, rewound, setFor, missed, unreported>>
    BY <1>3 DEF DispatchRead
  <2>2. at = Never \/ at \in 1 .. clock
    <3>1. call[d].now \in 0 .. clock
      BY DEF JobsRest
    <3> QED
      <4>1. call[d].now \in Nat
        BY <1>0, <3>1
      <4> QED
        BY <1>0, <3>1, <4>1, LastDueWithin
  <2>3. call' = [call EXCEPT ![d] = IF at = Never THEN NoCall ELSE [@ EXCEPT !.pc = "claim", !.at = at]]
    BY <1>3 DEF DispatchRead
  <2> HIDE DEF at
  <2>4. /\ \A c \in Calls \ {d} : call'[c] = call[c]
        /\ call'[d].now \in 0 .. clock /\ call'[d].at \in Never .. clock
        /\ call'[d].pc = "claim" => call'[d].at \in 1 .. clock
    <3>1. CASE at = Never
      BY <1>0, <2>3, <3>1 DEF NoCall, CallRow
    <3>2. CASE at # Never
      BY <1>0, <2>2, <2>3, <3>2 DEF CallRow, JobsRest
    <3> QED
      BY <3>1, <3>2
  <2> QED
    BY <1>0, <2>1, <2>4 DEF JobsRest, CallAt
<1>4. ASSUME NEW d \in Calls, DispatchClaim(d) PROVE JobsRest'
  <2> DEFINE at == call[d].at
  <2>1. UNCHANGED <<clock, called, setting, jobsLeft, rewound, setFor, missed, unreported>> /\ at \in 1 .. clock
    BY <1>4 DEF DispatchClaim, JobsRest
  <2>2. /\ job' = job \/ job' = [job EXCEPT !.scheduledFor = at]
        /\ \/ startedFor' = startedFor \cup {at} /\ again' = again \cup (startedFor \cap {at})
           \/ UNCHANGED <<startedFor, again>>
        /\ call' = [call EXCEPT ![d].pc = "check"] \/ call' = [call EXCEPT ![d] = NoCall]
    BY <1>4 DEF DispatchClaim
  <2>3. /\ \A c \in Calls \ {d} : call'[c] = call[c]
        /\ call'[d].now \in 0 .. clock /\ call'[d].at \in Never .. clock /\ call'[d].pc # "claim"
    BY <1>0, <2>2 DEF NoCall, CallRow, JobsRest
  <2>4. job'.schedule = job.schedule /\ job'.scheduledFor \in Never .. clock
    BY <1>0, <2>1, <2>2 DEF JobRow, JobsRest
  <2>5. startedFor' \subseteq 1 .. clock /\ again' \subseteq startedFor'
    BY <2>1, <2>2 DEF JobsRest
  <2> QED
    BY <1>0, <2>1, <2>3, <2>4, <2>5 DEF JobsRest, CallAt
<1>5. ASSUME NEW d \in Calls, RunCheck(d) \/ RunSkip(d) \/ RunBegin(d) \/ RunEnd(d) PROVE JobsRest'
  <2>1. UNCHANGED <<clock, called, setting, jobsLeft, startedFor, again, rewound, setFor, missed, unreported>>
    BY <1>5 DEF RunCheck, RunSkip, RunBegin, RunEnd
  <2>2. job'.schedule = job.schedule /\ job'.scheduledFor = job.scheduledFor
    BY <1>0, <1>5 DEF RunCheck, RunSkip, RunBegin, RunEnd, JobRow
  <2>3. \/ call' = [call EXCEPT ![d] = NoCall]
        \/ \E pc \in {"begin", "skip", "run"} : call' = [call EXCEPT ![d].pc = pc]
    BY <1>5 DEF RunCheck, RunSkip, RunBegin, RunEnd
  <2>4. /\ \A c \in Calls \ {d} : call'[c] = call[c]
        /\ call'[d].now \in 0 .. clock /\ call'[d].at \in Never .. clock /\ call'[d].pc # "claim"
    BY <1>0, <2>3 DEF NoCall, CallRow, JobsRest
  <2> QED
    BY <1>0, <2>1, <2>2, <2>4 DEF JobsRest, CallAt
<1>6. ASSUME NEW d \in Calls, RecordLost(d) \/ CallKilled(d) PROVE JobsRest'
  <2>1. UNCHANGED <<clock, called, job, setting, startedFor, again, rewound, setFor>> /\ JobFault
    BY <1>6 DEF RecordLost, CallKilled
  <2>2. missed' = missed \/ missed' = missed + 1
    BY <1>6 DEF RecordLost, CallKilled, JobsRest
  <2>3. /\ jobsLeft' \in [settings : 0 .. MaxSettings, faults : 0 .. MaxJobFaults]
        /\ missed' \in Nat /\ missed' + jobsLeft'.faults <= MaxJobFaults
    BY <1>0, <2>1, <2>2, TimedJobsConstants DEF JobFault, JobsRest
  <2>4. \/ call' = [call EXCEPT ![d] = NoCall]
        \/ call' = [call EXCEPT ![d] = [@ EXCEPT !.pc = "run"]]
    BY <1>6 DEF RecordLost, CallKilled
  <2>5. /\ \A c \in Calls \ {d} : call'[c] = call[c]
        /\ call'[d].now \in 0 .. clock /\ call'[d].at \in Never .. clock /\ call'[d].pc # "claim"
    BY <1>0, <2>4 DEF NoCall, CallRow, JobsRest
  <2>6. unreported' \in BOOLEAN
    BY <1>6 DEF RecordLost, CallKilled
  <2> QED
    BY <1>0, <2>1, <2>3, <2>5, <2>6 DEF JobsRest, CallAt
<1>7. CASE JobSwitched \/ ScheduleTimed
  <2>1. UNCHANGED <<clock, called, call, startedFor, again, rewound, setFor, missed, unreported>> /\ SpendSetting
    BY <1>7 DEF JobSwitched, ScheduleTimed
  <2>2. /\ jobsLeft' \in [settings : 0 .. MaxSettings, faults : 0 .. MaxJobFaults]
        /\ jobsLeft'.faults = jobsLeft.faults
    BY <1>0, <2>1, TimedJobsConstants DEF SpendSetting
  <2>3. job'.schedule = job.schedule /\ job'.scheduledFor = job.scheduledFor
    BY <1>0, <1>7 DEF JobSwitched, ScheduleTimed, JobRow
  <2>4. setting'.now \in 0 .. clock
    BY <1>0, <1>7 DEF JobSwitched, ScheduleTimed, JobsRest
  <2> QED
    BY <1>0, <2>1, <2>2, <2>3, <2>4 DEF JobsRest, CallAt
<1>8. CASE ScheduleWritten
  <2>1. UNCHANGED <<clock, called, call, jobsLeft, startedFor, again, missed, unreported>>
    BY <1>8 DEF ScheduleWritten
  <2>2. job'.schedule \in Schedules /\ job'.scheduledFor = setting.now
    BY <1>0, <1>8 DEF ScheduleWritten, Rescheduled, JobRow
  <2>3. /\ setFor'.made = setting.now /\ setFor'.written = clock
        /\ setting'.now = 0 /\ rewound' \in BOOLEAN
    BY <1>8 DEF ScheduleWritten, NoSetting
  <2> QED
    BY <1>0, <2>1, <2>2, <2>3 DEF JobsRest, CallAt
<1> QED
  BY <1>1, <1>2, <1>3, <1>4, <1>5, <1>6, <1>7, <1>8 DEF JobsNext, CallStep

(* The types of the schedule's row, of the calls and of their history.      *)
THEOREM JobsTypeCorrect == JobsSpec => []JobsTypeOK
<1>1. JobsInit => JobsRest
  <2> SUFFICES ASSUME JobsInit PROVE JobsRest
    OBVIOUS
  <2>1. clock \in 0 .. Horizon /\ called = clock
    BY TimedJobsConstants DEF JobsInit
  <2>2. job.schedule \in Schedules \cup {{}} /\ job.scheduledFor = Never
    <3> DEFINE schedules == IF clock = 0 THEN Schedules ELSE {{}}
    <3>1. job \in [enabled : {TRUE}, schedule : schedules, scheduledFor : {Never}, status : {"none"}]
      BY DEF JobsInit
    <3>2. schedules \subseteq Schedules \cup {{}}
      OBVIOUS
    <3> HIDE DEF schedules
    <3> QED
      BY <3>1, <3>2
  <2>3. \A d \in Calls : call[d].now = 0 /\ call[d].at = Never /\ call[d].pc = "idle"
    BY DEF JobsInit, NoCall
  <2>4. /\ jobsLeft \in [settings : 0 .. MaxSettings, faults : 0 .. MaxJobFaults]
        /\ missed = 0 /\ jobsLeft.faults <= MaxJobFaults
    BY TimedJobsConstants DEF JobsInit
  <2>5. /\ setting.now = 0 /\ startedFor = {} /\ again = {} /\ rewound = FALSE /\ unreported = FALSE
        /\ setFor.made = Never /\ setFor.written = 0
    BY DEF JobsInit, NoSetting
  <2>6. 0 \in 0 .. clock /\ Never \in Never .. clock
    BY <2>1 DEF Never
  <2>7. {rewound, unreported} \subseteq BOOLEAN
    BY <2>5, Zenon
  <2>8. \A d \in Calls : ~CallAt(d, "claim")
    BY <2>3 DEF CallAt
  <2>9. missed \in Nat /\ missed + jobsLeft.faults <= MaxJobFaults
    BY <2>4, TimedJobsConstants
  <2> QED
    BY <2>1, <2>2, <2>3, <2>4, <2>5, <2>6, <2>7, <2>8, <2>9 DEF JobsRest
<1>2. JobsInv /\ JobsRest /\ [JobsNext]_jobVars => JobsRest'
  <2> SUFFICES ASSUME JobsInv, JobsRest, [JobsNext]_jobVars PROVE JobsRest'
    OBVIOUS
  <2>1. CASE JobsNext
    BY <2>1, JobsRestStep
  <2>2. CASE UNCHANGED jobVars
    BY <2>2 DEF jobVars, JobsRest, CallAt
  <2> QED
    BY <2>1, <2>2
<1>3. JobsInv /\ JobsRest => JobsTypeOK
  <2> SUFFICES ASSUME JobsInv, JobsRest PROVE JobsTypeOK
    OBVIOUS
  <2>1. /\ job \in JobRow /\ call \in [Calls -> CallRow] /\ setting \in [pc : {"none", "write"}, now : Int]
        /\ setFor \in [made : Int, written : Int]
    BY DEF JobsInv, JobsTyped
  <2>2. job \in [enabled : BOOLEAN, schedule : Schedules \cup {{}}, scheduledFor : Never .. clock,
                 status : {"none", "running", "skipped", "ended"}]
    BY <2>1 DEF JobRow, JobsRest
  <2>3. call \in [Calls -> [pc : CallPcs, now : 0 .. clock, at : Never .. clock]]
    BY <2>1 DEF CallRow, JobsRest
  <2>4. setting \in [pc : {"none", "write"}, now : 0 .. clock] /\ setFor \in [made : Never .. clock, written : 0 .. clock]
    BY <2>1 DEF JobsRest
  <2>5. missed \in 0 .. MaxJobFaults
    BY TimedJobsConstants DEF JobsRest
  <2> QED
    BY <2>2, <2>3, <2>4, <2>5 DEF JobsRest, JobsTypeOK, CallPcs
<1> QED
  BY <1>1, <1>2, <1>3, JobsInvariant, PTL DEF JobsSpec

-----------------------------------------------------------------------------
(* CanaryPull.                                                             *)
PullRow == [id : 0 .. MaxPulls, status : {"none", "running", "succeeded", "failed"}, state : States,
            lease : {"free", "live", "over"}, stale : BOOLEAN, recent : BOOLEAN]
StepRow == [pc : AskingPcs \cup WorkingPcs, id : 0 .. MaxPulls, state : States, moved : BOOLEAN]

(* The ids handed out and the pulls to come are all the pulls there are.    *)
Counted == pull.id + pullLeft.pulls <= MaxPulls

LEMMA NoStateTyped == NoState \in States
  BY PullConstants DEF NoState, States

LEMMA UncalledTyped == Uncalled \in StepRow
  BY NoStateTyped, PullConstants DEF Uncalled, StepRow, AskingPcs

LEMMA TypeSplit ==
  PullTypeOK <=> /\ pull \in PullRow
                 /\ snapshot \in [id : 0 .. MaxPulls, learners : 0 .. Learners]
                 /\ step \in [Callers -> StepRow]
                 /\ overrun \subseteq 0 .. MaxPulls
                 /\ pullLeft \in [pulls : 0 .. MaxPulls, faults : 0 .. MaxPullFaults]
  BY DEF PullTypeOK, PullRow, StepRow

(* What the statements of advancePull leave is a row again.                 *)
LEMMA AbandonedTyped == ASSUME pull \in PullRow PROVE Abandoned \in PullRow /\ Abandoned.id = pull.id
  BY NoStateTyped DEF Abandoned, PullRow

LEMMA SavedTyped ==
  ASSUME pull \in PullRow, NEW c \in Callers, NEW state \in States
  PROVE  Saved(c, state) \in PullRow /\ Saved(c, state).id = pull.id
  BY DEF Saved, PullRow

LEMMA GotoTyped ==
  ASSUME step \in [Callers -> StepRow], NEW c \in Callers, NEW pc \in AskingPcs \cup WorkingPcs, Goto(c, pc)
  PROVE  step' \in [Callers -> StepRow]
  BY DEF Goto, StepRow

LEMMA HangUpTyped ==
  ASSUME step \in [Callers -> StepRow], NEW c \in Callers, HangUp(c)
  PROVE  step' \in [Callers -> StepRow]
  BY UncalledTyped DEF HangUp

LEMMA TypeStep ==
  ASSUME PullTypeOK, Counted, PullNext
  PROVE  PullTypeOK' /\ Counted'
<1>1. /\ pull \in PullRow
      /\ snapshot \in [id : 0 .. MaxPulls, learners : 0 .. Learners]
      /\ step \in [Callers -> StepRow]
      /\ overrun \subseteq 0 .. MaxPulls
      /\ pullLeft \in [pulls : 0 .. MaxPulls, faults : 0 .. MaxPullFaults]
  BY TypeSplit
<1> SUFFICES /\ pull' \in PullRow
             /\ snapshot' \in [id : 0 .. MaxPulls, learners : 0 .. Learners]
             /\ step' \in [Callers -> StepRow]
             /\ overrun' \subseteq 0 .. MaxPulls
             /\ pullLeft' \in [pulls : 0 .. MaxPulls, faults : 0 .. MaxPullFaults]
             /\ pull'.id + pullLeft'.pulls <= MaxPulls
  BY DEF PullTypeOK, PullRow, StepRow, Counted
<1>2. pull.id \in 0 .. MaxPulls /\ pullLeft.pulls \in 0 .. MaxPulls
      /\ pull.id + pullLeft.pulls <= MaxPulls
  BY <1>1 DEF PullRow, Counted
<1>3. CASE LeaseRunsOut \/ GoesStale \/ GapPasses
  <2>1. pull' \in PullRow /\ pull'.id = pull.id
    BY <1>1, <1>3 DEF LeaseRunsOut, GoesStale, GapPasses, PullRow
  <2>2. overrun' \subseteq overrun \cup {pull.id} /\ UNCHANGED <<snapshot, step, pullLeft>>
    BY <1>3 DEF LeaseRunsOut, GoesStale, GapPasses
  <2> QED
    BY <1>1, <1>2, <2>1, <2>2
<1>4. ASSUME NEW c \in Callers, StartCalled(c) \/ StepCalled(c) \/ ScheduleCalled(c) \/ Advance(c)
      PROVE  /\ pull' = Abandoned /\ \E pc \in AskingPcs : Goto(c, pc)
             /\ UNCHANGED <<snapshot, overrun, pullLeft>>
  BY <1>4 DEF StartCalled, StepCalled, ScheduleCalled, Advance, AskingPcs
<1>5. ASSUME NEW c \in Callers, StartCalled(c) \/ StepCalled(c) \/ ScheduleCalled(c) \/ Advance(c)
      PROVE  /\ pull' \in PullRow /\ pull'.id = pull.id
             /\ step' \in [Callers -> StepRow]
             /\ UNCHANGED <<snapshot, overrun, pullLeft>>
  <2>1. PICK pc \in AskingPcs : Goto(c, pc)
    BY <1>4, <1>5
  <2> QED
    BY <1>1, <1>4, <1>5, <2>1, AbandonedTyped, GotoTyped
<1>6. ASSUME NEW c \in Callers, PullStep(c)
      PROVE  /\ pull' \in PullRow /\ pull'.id + pullLeft'.pulls <= MaxPulls
             /\ snapshot' \in [id : 0 .. MaxPulls, learners : 0 .. Learners]
             /\ step' \in [Callers -> StepRow] /\ UNCHANGED overrun
             /\ pullLeft' \in [pulls : 0 .. MaxPulls, faults : 0 .. MaxPullFaults]
  <2>1. step[c] \in StepRow /\ step[c].id \in 0 .. MaxPulls /\ step[c].state \in States
    BY <1>1, <1>6 DEF StepRow
  <2>2. step[c].state.next \in 0 .. Learners /\ step[c].state.rosters \in BOOLEAN
    BY <2>1 DEF States
  <2>3. CASE LatestRead(c)
    BY <1>1, <1>2, <2>3, GotoTyped, HangUpTyped DEF LatestRead, AskingPcs
  <2>4. CASE Insert(c)
    <3>1. step' \in [Callers -> StepRow]
      BY <1>1, <2>4, GotoTyped, HangUpTyped DEF Insert, AskingPcs
    <3>2. CASE Running \/ ~MorePulls
      BY <1>1, <1>2, <2>4, <3>1, <3>2 DEF Insert
    <3>3. CASE ~(Running \/ ~MorePulls)
      <4>1. pullLeft.pulls > 0 /\ pull.id + 1 \in 0 .. MaxPulls
        BY <1>2, <3>3, PullConstants DEF MorePulls
      <4>2. pull' = [id |-> pull.id + 1, status |-> "running", state |-> NoState,
                     lease |-> "free", stale |-> FALSE, recent |-> TRUE]
            /\ pullLeft' = [pullLeft EXCEPT !.pulls = @ - 1] /\ UNCHANGED <<snapshot, overrun>>
        BY <2>4, <3>3 DEF Insert
      <4>3. pull' \in PullRow /\ pull'.id = pull.id + 1
        BY <4>1, <4>2, NoStateTyped DEF PullRow
      <4>4. pullLeft' \in [pulls : 0 .. MaxPulls, faults : 0 .. MaxPullFaults]
            /\ pullLeft'.pulls = pullLeft.pulls - 1
        BY <1>1, <1>2, <4>1, <4>2, PullConstants
      <4> QED
        BY <1>1, <1>2, <3>1, <4>2, <4>3, <4>4
    <3> QED
      BY <3>2, <3>3
  <2>5. CASE Advance(c)
    BY <1>1, <1>2, <1>5, <2>5
  <2>6. CASE Claim(c)
    <3>1. CASE Unleased
      <4>1. pull' \in PullRow /\ pull'.id = pull.id
        BY <1>1, <2>6, <3>1 DEF Claim, PullRow
      <4>2. [pc |-> "work", id |-> pull.id, state |-> pull.state, moved |-> FALSE] \in StepRow
        BY <1>1 DEF PullRow, StepRow, WorkingPcs
      <4> QED
        BY <1>1, <1>2, <2>6, <3>1, <4>1, <4>2 DEF Claim
    <3>2. CASE ~Unleased
      BY <1>1, <1>2, <2>6, <3>2, HangUpTyped DEF Claim
    <3> QED
      BY <3>1, <3>2
  <2>7. CASE SetUp(c)
    <3> DEFINE state == [rosters |-> TRUE, next |-> 0]
    <3>1. state \in States
      BY PullConstants DEF States
    <3>2. pull' = Saved(c, state) /\ step' = [step EXCEPT ![c].state = state]
         /\ UNCHANGED <<snapshot, overrun, pullLeft>>
      BY <2>7 DEF SetUp
    <3>3. step' \in [Callers -> StepRow]
      BY <1>1, <3>1, <3>2 DEF StepRow
    <3> QED
      BY <1>1, <1>2, <3>1, <3>2, <3>3, SavedTyped
  <2>8. CASE FetchLearner(c)
    <3> DEFINE state == [step[c].state EXCEPT !.next = @ + 1]
    <3>1. state \in States
      BY <2>1, <2>2, <2>8, PullConstants DEF States, FetchLearner, Left
    <3>2. pull' \in {pull, Saved(c, state)} /\ UNCHANGED <<snapshot, overrun, pullLeft>>
          /\ step' = [step EXCEPT ![c].state = state, ![c].moved = TRUE]
      BY <2>8 DEF FetchLearner
    <3>3. step' \in [Callers -> StepRow]
      BY <1>1, <3>1, <3>2 DEF StepRow
    <3> QED
      BY <1>1, <1>2, <3>1, <3>2, <3>3, SavedTyped
  <2>9. CASE Pause(c) \/ AllFetched(c)
    BY <1>1, <1>2, <2>1, <2>9, SavedTyped, GotoTyped DEF Pause, AllFetched, WorkingPcs
  <2>10. CASE Release(c) \/ Finish(c)
    <3>1. pull' \in PullRow /\ pull'.id = pull.id
      <4>1. CASE Release(c)
        BY <1>1, <4>1 DEF Release, PullRow
      <4>2. CASE Finish(c)
        <5>1. \E outcome \in {"succeeded", "failed"} :
                pull' \in {pull, [pull EXCEPT !.status = outcome, !.state = NoState, !.lease = "free", !.stale = FALSE]}
          BY <4>2 DEF Finish
        <5> QED
          BY <1>1, <5>1, NoStateTyped DEF PullRow
      <4> QED
        BY <2>10, <4>1, <4>2
    <3> QED
      BY <1>1, <1>2, <2>10, <3>1, HangUpTyped DEF Release, Finish
  <2>11. CASE Store(c)
    BY <1>1, <1>2, <2>1, <2>2, <2>11, GotoTyped DEF Store, WorkingPcs
  <2> QED
    BY <1>6, <2>3, <2>4, <2>5, <2>6, <2>7, <2>8, <2>9, <2>10, <2>11 DEF PullStep
<1>7. ASSUME NEW c \in Callers, StepThrows(c) \/ StepDies(c)
      PROVE  /\ step' \in [Callers -> StepRow] /\ UNCHANGED <<pull, snapshot, overrun>>
             /\ pullLeft' \in [pulls : 0 .. MaxPulls, faults : 0 .. MaxPullFaults]
             /\ pullLeft'.pulls = pullLeft.pulls
  <2>1. step' \in [Callers -> StepRow]
    BY <1>1, <1>7, GotoTyped, HangUpTyped DEF StepThrows, StepDies, WorkingPcs
  <2>2. pullLeft.faults > 0 /\ pullLeft' = [pullLeft EXCEPT !.faults = @ - 1]
       /\ UNCHANGED <<pull, snapshot, overrun>>
    BY <1>7 DEF StepThrows, StepDies, PullFault
  <2> QED
    BY <1>1, <2>1, <2>2, PullConstants
<1>8. Pages \subseteq Callers /\ Ticks \subseteq Callers
  BY DEF Callers
<1> QED
  BY <1>1, <1>2, <1>3, <1>5, <1>6, <1>7, <1>8 DEF PullNext

(* Every row, copy and call keeps its type, for any number of pulls.        *)
THEOREM PullTypeCorrect == PullSpec => [](PullTypeOK /\ Counted)
<1>1. PullInit => PullTypeOK /\ Counted
  <2> SUFFICES ASSUME PullInit PROVE PullTypeOK /\ Counted
    OBVIOUS
  <2>1. step \in [Callers -> StepRow]
    BY UncalledTyped DEF PullInit
  <2>2. pull \in PullRow /\ pull.id = 0
    BY NoStateTyped, PullConstants DEF PullInit, PullRow
  <2>3. pullLeft \in [pulls : 0 .. MaxPulls, faults : 0 .. MaxPullFaults]
    BY PullConstants DEF PullInit
  <2>4. snapshot \in [id : 0 .. MaxPulls, learners : 0 .. Learners] /\ overrun \subseteq 0 .. MaxPulls
    BY PullConstants DEF PullInit
  <2> QED
    BY <2>1, <2>2, <2>3, <2>4, TypeSplit, PullConstants DEF Counted
<1>2. PullTypeOK /\ Counted /\ [PullNext]_pullVars => PullTypeOK' /\ Counted'
  <2>1. CASE PullNext
    BY <2>1, TypeStep
  <2>2. CASE UNCHANGED pullVars
    BY <2>2 DEF pullVars, PullTypeOK, Counted
  <2> QED
    BY <2>1, <2>2
<1> QED
  BY <1>1, <1>2, PTL DEF PullSpec

-----------------------------------------------------------------------------
(* What makes OneStepWorks and SuccessIsShown inductive: a step is of this  *)
(* pull or an earlier one, a step that stores has fetched everybody, and    *)
(* one that finishes has stored it.                                         *)
Behind == \A c \in Callers : step[c].pc \in WorkingPcs => step[c].id <= pull.id

Stored ==
  \A c \in Callers :
    /\ PullAt(c, "store") => step[c].state.next = Learners
    /\ PullAt(c, "finish") => /\ snapshot.learners = Learners
                              /\ step[c].id = pull.id => snapshot.id = pull.id \/ snapshot.id \in overrun

PullSafe == OneStepWorks /\ Behind /\ Stored /\ SuccessIsShown

(* A step within its lease is the only one of its pull, which is the one    *)
(* that runs; so where none runs under a lease, all at work have outlasted  *)
(* theirs.                                                                  *)
LEMMA OthersAreLate ==
  ASSUME OneStepWorks, ~Running \/ pull.lease # "live",
         NEW c \in Callers, step[c].pc \in WorkingPcs
  PROVE  step[c].id \in overrun
  BY DEF OneStepWorks

(* A call that is not at work before or after may change the row only when  *)
(* no step works on it within its lease.                                    *)
LEMMA AskingKeepsSafe ==
  ASSUME PullTypeOK, PullTypeOK', PullSafe, NEW c \in Callers, UNCHANGED <<snapshot, overrun>>,
         step[c].pc \notin WorkingPcs, step'[c].pc \notin WorkingPcs,
         \A d \in Callers \ {c} : step'[d] = step[d],
         \/ UNCHANGED pull
         \/ /\ ~Running \/ pull.lease # "live"
            /\ pull'.id >= pull.id /\ pull'.status \in {"running", "failed"}
  PROVE  PullSafe'
<1>1. OneStepWorks /\ Behind /\ Stored /\ SuccessIsShown
  BY DEF PullSafe
<1>2. \A d \in Callers : step'[d].pc \in WorkingPcs => step'[d] = step[d] /\ d # c
  OBVIOUS
<1>3. CASE UNCHANGED pull
  <2>1. OneStepWorks'
    BY <1>1, <1>2, <1>3 DEF OneStepWorks, Running, WorksOn
  <2>2. Behind' /\ Stored' /\ SuccessIsShown'
    BY <1>1, <1>2, <1>3 DEF Behind, Stored, SuccessIsShown, PullAt, WorkingPcs
  <2> QED
    BY <2>1, <2>2 DEF PullSafe
<1>4. CASE /\ ~Running \/ pull.lease # "live"
           /\ pull'.id >= pull.id /\ pull'.status \in {"running", "failed"}
  <2>1. pull.id \in 0 .. MaxPulls /\ pull'.id \in 0 .. MaxPulls /\ \A d \in Callers : step[d].id \in 0 .. MaxPulls
    BY DEF PullTypeOK
  <2>2. OneStepWorks'
    BY <1>1, <1>2, <1>4, OthersAreLate DEF OneStepWorks
  <2>3. Behind'
    BY <1>1, <1>2, <1>4, <2>1, PullConstants DEF Behind
  <2>4. \A d \in Callers : step'[d].pc \in WorkingPcs /\ step'[d].id = pull'.id => pull'.id = pull.id
    BY <1>1, <1>2, <1>4, <2>1, PullConstants DEF Behind
  <2>5. Stored'
    BY <1>1, <1>2, <2>4 DEF Stored, PullAt, WorkingPcs
  <2>6. SuccessIsShown'
    BY <1>1, <1>4 DEF SuccessIsShown
  <2> QED
    BY <2>2, <2>3, <2>5, <2>6 DEF PullSafe
<1> QED
  BY <1>3, <1>4

(* A step at work goes on, and at most saves what it has or stores it all.  *)
LEMMA WorkKeepsSafe ==
  ASSUME PullTypeOK, PullSafe, NEW c \in Callers, UNCHANGED overrun,
         step[c].pc \in WorkingPcs, step'[c].pc \in WorkingPcs, step'[c].id = step[c].id,
         \A d \in Callers \ {c} : step'[d] = step[d],
         pull'.status = pull.status, pull'.id = pull.id, pull'.lease = pull.lease,
         step'[c].pc = "store" => step'[c].state.next = Learners,
         step'[c].pc = "finish" => snapshot' = [id |-> step[c].id, learners |-> Learners],
         UNCHANGED snapshot \/ snapshot' = [id |-> step[c].id, learners |-> Learners]
  PROVE  PullSafe'
<1>1. OneStepWorks /\ Behind /\ Stored /\ SuccessIsShown
  BY DEF PullSafe
<1>2. \A d \in Callers : step'[d].id = step[d].id /\ (step'[d].pc \in WorkingPcs <=> step[d].pc \in WorkingPcs)
  OBVIOUS
<1>3. OneStepWorks'
  BY <1>1, <1>2 DEF OneStepWorks, Running, WorksOn
<1>4. Behind'
  BY <1>1, <1>2 DEF Behind
<1>5. (step[c].id = pull.id /\ Running) \/ step[c].id \in overrun
  BY <1>1 DEF OneStepWorks
<1>6. Stored'
  BY <1>1, <1>5 DEF Stored, PullAt
<1>7. SuccessIsShown'
  BY <1>1, <1>5 DEF SuccessIsShown, Running
<1> QED
  BY <1>3, <1>4, <1>6, <1>7 DEF PullSafe

(* A step lets go of its pull, having called it a success only once it is   *)
(* stored.                                                                  *)
LEMMA LeavingKeepsSafe ==
  ASSUME PullTypeOK, PullSafe, NEW c \in Callers, UNCHANGED <<snapshot, overrun>>,
         step[c].pc \in WorkingPcs, step'[c].pc = "idle",
         \A d \in Callers \ {c} : step'[d] = step[d],
         pull'.id = pull.id,
         \/ UNCHANGED pull
         \/ /\ pull.id = step[c].id
            /\ pull'.status = "succeeded" => pull.status = "succeeded" \/ step[c].pc = "finish"
  PROVE  PullSafe'
<1>1. OneStepWorks /\ Behind /\ Stored /\ SuccessIsShown
  BY DEF PullSafe
<1>2. \A d \in Callers : step'[d].pc \in WorkingPcs => step'[d] = step[d] /\ d # c
  BY DEF WorkingPcs
<1>3. OneStepWorks'
  <2>1. CASE UNCHANGED pull
    BY <1>1, <1>2, <2>1 DEF OneStepWorks, Running, WorksOn
  <2>2. CASE pull.id = step[c].id
    <3>1. \A d \in Callers : step'[d].pc \in WorkingPcs => step'[d].id \in overrun
      BY <1>1, <1>2, <2>2 DEF OneStepWorks, WorksOn
    <3> QED
      BY <3>1 DEF OneStepWorks
  <2> QED
    BY <2>1, <2>2
<1>4. Behind' /\ Stored'
  BY <1>1, <1>2 DEF Behind, Stored, PullAt, WorkingPcs
<1>5. SuccessIsShown'
  BY <1>1 DEF SuccessIsShown, Stored, PullAt
<1> QED
  BY <1>3, <1>4, <1>5 DEF PullSafe

(* Time passes: a lease that runs out under a step puts its pull among the  *)
(* overrun ones.                                                            *)
LEMMA TimeKeepsSafe ==
  ASSUME PullTypeOK, PullSafe, LeaseRunsOut \/ GoesStale \/ GapPasses
  PROVE  PullSafe'
<1>1. OneStepWorks /\ Behind /\ Stored /\ SuccessIsShown
  BY DEF PullSafe
<1>2. UNCHANGED <<step, snapshot>> /\ pull'.status = pull.status /\ pull'.id = pull.id /\ overrun \subseteq overrun'
  BY DEF LeaseRunsOut, GoesStale, GapPasses, PullTypeOK
<1>3. Behind' /\ Stored' /\ SuccessIsShown'
  BY <1>1, <1>2 DEF Behind, Stored, SuccessIsShown, PullAt
<1>4. OneStepWorks'
  <2>1. CASE LeaseRunsOut
    <3>1. \A c \in Callers : step[c].pc \in WorkingPcs /\ step[c].id \notin overrun => step[c].id \in overrun'
      BY <1>1, <2>1 DEF OneStepWorks, LeaseRunsOut, WorksOn
    <3> QED
      BY <1>2, <3>1 DEF OneStepWorks
  <2>2. CASE GoesStale \/ GapPasses
    <3>1. pull'.lease = pull.lease /\ UNCHANGED overrun
      BY <2>2 DEF GoesStale, GapPasses, PullTypeOK
    <3> QED
      BY <1>1, <1>2, <3>1 DEF OneStepWorks, Running, WorksOn
  <2> QED
    BY <2>1, <2>2
<1> QED
  BY <1>3, <1>4 DEF PullSafe

(* A claim is granted only where no step works on the pull within a lease.  *)
LEMMA ClaimKeepsSafe ==
  ASSUME PullTypeOK, PullTypeOK', PullSafe, NEW c \in Callers, Claim(c)
  PROVE  PullSafe'
<1>1. OneStepWorks /\ Behind /\ Stored /\ SuccessIsShown
  BY DEF PullSafe
<1>2. step \in [Callers -> StepRow] /\ step[c].pc = "claim" /\ UNCHANGED <<snapshot, overrun>>
  BY DEF PullTypeOK, StepRow, Claim, PullAt
<1>3. CASE Unleased
  <2>1. /\ pull' = [pull EXCEPT !.lease = "live"] /\ Running /\ pull.lease # "live"
        /\ step' = [step EXCEPT ![c] = [pc |-> "work", id |-> pull.id, state |-> pull.state, moved |-> FALSE]]
    BY <1>3 DEF Claim, Unleased
  <2>2. pull'.status = "running" /\ pull'.id = pull.id /\ pull'.lease = "live"
    BY <2>1 DEF Running, PullTypeOK
  <2>3. step'[c].pc = "work" /\ step'[c].id = pull.id /\ \A d \in Callers \ {c} : step'[d] = step[d]
    BY <1>2, <2>1
  <2>4. \A d \in Callers \ {c} : step[d].pc \in WorkingPcs => step[d].id \in overrun
    BY <1>1, <2>1, OthersAreLate
  <2>5. OneStepWorks'
    BY <1>2, <2>2, <2>3, <2>4 DEF OneStepWorks, Running, WorksOn
  <2>6. Behind'
    <3>1. pull.id \in 0 .. MaxPulls
      BY DEF PullTypeOK
    <3> QED
      BY <1>1, <2>2, <2>3, <3>1, PullConstants DEF Behind
  <2>7. Stored'
    BY <1>1, <1>2, <2>2, <2>3 DEF Stored, PullAt
  <2>8. SuccessIsShown'
    BY <1>1, <1>2, <2>2 DEF SuccessIsShown
  <2> QED
    BY <2>5, <2>6, <2>7, <2>8 DEF PullSafe
<1>4. CASE ~Unleased
  <2>1. UNCHANGED pull /\ step'[c].pc = "idle" /\ \A d \in Callers \ {c} : step'[d] = step[d]
    BY <1>2, <1>4 DEF Claim, HangUp, Uncalled
  <2> QED
    BY <1>2, <2>1, AskingKeepsSafe DEF WorkingPcs
<1> QED
  BY <1>3, <1>4

LEMMA SafeStep ==
  ASSUME PullTypeOK, PullTypeOK', PullSafe, PullNext
  PROVE  PullSafe'
<1>1. OneStepWorks /\ Behind /\ Stored /\ SuccessIsShown
  BY DEF PullSafe
<1>2. step \in [Callers -> StepRow] /\ step' \in [Callers -> StepRow]
  BY DEF PullTypeOK, StepRow
<1>3. ASSUME NEW c \in Callers, StartCalled(c) \/ StepCalled(c) \/ ScheduleCalled(c) \/ Advance(c)
      PROVE  PullSafe'
  <2>1. /\ pull' = Abandoned /\ UNCHANGED <<snapshot, overrun>>
        /\ step[c].pc \in {"idle", "advance"}
        /\ \E pc \in AskingPcs : step' = [step EXCEPT ![c].pc = pc]
    BY <1>3 DEF StartCalled, StepCalled, ScheduleCalled, Advance, Goto, PullAt, AskingPcs
  <2>2. step'[c].pc \in AskingPcs /\ \A d \in Callers \ {c} : step'[d] = step[d]
    BY <1>2, <2>1 DEF StepRow
  <2>3. \/ Abandoned = pull
        \/ pull.lease # "live" /\ Abandoned.id = pull.id /\ Abandoned.status = "failed"
    BY DEF Abandoned, PullTypeOK
  <2>4. pull.id \in 0 .. MaxPulls
    BY DEF PullTypeOK
  <2>5. UNCHANGED pull \/ (pull.lease # "live" /\ pull'.id >= pull.id /\ pull'.status = "failed")
    BY <2>1, <2>3, <2>4, PullConstants
  <2> QED
    BY <2>1, <2>2, <2>5, AskingKeepsSafe DEF AskingPcs, WorkingPcs
<1>4. ASSUME NEW c \in Callers, LatestRead(c)
      PROVE  PullSafe'
  <2>1. UNCHANGED <<pull, snapshot, overrun>> /\ step[c].pc = "latest" /\ step'[c].pc \in AskingPcs
        /\ \A d \in Callers \ {c} : step'[d] = step[d]
    BY <1>2, <1>4 DEF LatestRead, Goto, HangUp, Uncalled, AskingPcs, PullAt, StepRow
  <2> QED
    BY <2>1, AskingKeepsSafe DEF AskingPcs, WorkingPcs
<1>5. ASSUME NEW c \in Callers, Insert(c)
      PROVE  PullSafe'
  <2>1. UNCHANGED <<snapshot, overrun>> /\ step[c].pc \in {"insert", "start"} /\ step'[c].pc \in AskingPcs
        /\ \A d \in Callers \ {c} : step'[d] = step[d]
    BY <1>2, <1>5 DEF Insert, Goto, HangUp, Uncalled, AskingPcs, PullAt, StepRow
  <2>2. UNCHANGED pull \/ (~Running /\ pull'.id = pull.id + 1 /\ pull'.status = "running")
    BY <1>5 DEF Insert
  <2>3. pull.id \in 0 .. MaxPulls
    BY DEF PullTypeOK
  <2>4. UNCHANGED pull \/ (~Running /\ pull'.id >= pull.id /\ pull'.status = "running")
    BY <2>2, <2>3, PullConstants
  <2> QED
    BY <2>1, <2>4, AskingKeepsSafe DEF AskingPcs, WorkingPcs
<1>6. ASSUME NEW c \in Callers, NEW state
      PROVE  /\ Saved(c, state).status = pull.status /\ Saved(c, state).id = pull.id
             /\ Saved(c, state).lease = pull.lease
  BY DEF Saved, PullTypeOK
<1>7. ASSUME NEW c \in Callers, SetUp(c) \/ FetchLearner(c)
      PROVE  PullSafe'
  <2>1. /\ UNCHANGED <<snapshot, overrun>> /\ step[c].pc = "work"
        /\ step'[c].pc = "work" /\ step'[c].id = step[c].id /\ \A d \in Callers \ {c} : step'[d] = step[d]
    <3>1. CASE SetUp(c)
      BY <1>2, <3>1 DEF SetUp, PullAt, StepRow
    <3>2. CASE FetchLearner(c)
      BY <1>2, <3>2 DEF FetchLearner, PullAt, StepRow
    <3> QED
      BY <1>7, <3>1, <3>2
  <2>2. pull'.status = pull.status /\ pull'.id = pull.id /\ pull'.lease = pull.lease
    BY <1>6, <1>7 DEF SetUp, FetchLearner
  <2> QED
    BY <2>1, <2>2, WorkKeepsSafe DEF WorkingPcs
<1>8. ASSUME NEW c \in Callers, Pause(c) \/ AllFetched(c)
      PROVE  PullSafe'
  <2>1. /\ UNCHANGED <<snapshot, overrun>> /\ step[c].pc = "work" /\ pull' = Saved(c, step[c].state)
        /\ step'[c].pc \in {"release", "store"} /\ step'[c].id = step[c].id /\ step'[c].state = step[c].state
        /\ \A d \in Callers \ {c} : step'[d] = step[d]
    BY <1>2, <1>8 DEF Pause, AllFetched, Goto, PullAt, StepRow
  <2>2. step'[c].pc = "store" => step[c].state.next = Learners
    <3>1. step[c].state.next \in 0 .. Learners
      BY <1>2 DEF StepRow, States
    <3> QED
      BY <1>2, <1>8, <3>1, PullConstants DEF Pause, AllFetched, Goto, Left, StepRow
  <2>3. pull'.status = pull.status /\ pull'.id = pull.id /\ pull'.lease = pull.lease
    BY <1>6, <2>1
  <2> QED
    BY <2>1, <2>2, <2>3, WorkKeepsSafe DEF WorkingPcs
<1>9. ASSUME NEW c \in Callers, Store(c)
      PROVE  PullSafe'
  <2>1. /\ step[c].pc = "store" /\ UNCHANGED <<pull, overrun>> /\ step'[c].pc = "finish" /\ step'[c].id = step[c].id
        /\ \A d \in Callers \ {c} : step'[d] = step[d]
    BY <1>2, <1>9 DEF Store, Goto, PullAt, StepRow
  <2>2. snapshot' = [id |-> step[c].id, learners |-> Learners]
    BY <1>1, <1>9 DEF Store, Stored, PullAt
  <2> QED
    BY <2>1, <2>2, WorkKeepsSafe DEF WorkingPcs
<1>10. ASSUME NEW c \in Callers, StepThrows(c)
       PROVE  PullSafe'
  <2>1. /\ step[c].pc \in WorkingPcs /\ UNCHANGED <<pull, snapshot, overrun>>
        /\ step'[c].pc = "fail" /\ step'[c].id = step[c].id
        /\ \A d \in Callers \ {c} : step'[d] = step[d]
    BY <1>2, <1>10 DEF StepThrows, Goto, PullAt, StepRow
  <2> QED
    BY <2>1, WorkKeepsSafe DEF WorkingPcs
<1>11. ASSUME NEW c \in Callers, HangUp(c)
       PROVE  step'[c].pc = "idle" /\ \A d \in Callers \ {c} : step'[d] = step[d]
  BY <1>2, <1>11 DEF HangUp, Uncalled
<1>12. ASSUME NEW c \in Callers, Release(c)
       PROVE  PullSafe'
  <2>1. /\ HangUp(c) /\ UNCHANGED <<snapshot, overrun>> /\ step[c].pc = "release"
        /\ pull'.id = pull.id /\ pull'.status = pull.status
        /\ UNCHANGED pull \/ pull.id = step[c].id
    BY <1>12 DEF Release, PullAt, PullTypeOK
  <2> QED
    BY <1>11, <2>1, LeavingKeepsSafe DEF WorkingPcs
<1>13. ASSUME NEW c \in Callers, Finish(c)
       PROVE  PullSafe'
  <2>1. HangUp(c) /\ UNCHANGED <<snapshot, overrun>> /\ step[c].pc \in {"finish", "fail"}
    BY <1>13 DEF Finish
  <2>2. \/ UNCHANGED pull
        \/ /\ pull.id = step[c].id /\ pull'.id = pull.id
           /\ pull'.status = "succeeded" => step[c].pc = "finish"
    BY <1>13 DEF Finish, PullAt, PullTypeOK
  <2> QED
    BY <1>11, <2>1, <2>2, LeavingKeepsSafe DEF WorkingPcs
<1>14. ASSUME NEW c \in Callers, StepDies(c)
       PROVE  PullSafe'
  <2>1. HangUp(c) /\ UNCHANGED <<pull, snapshot, overrun>>
    BY <1>14 DEF StepDies
  <2>2. CASE step[c].pc \in WorkingPcs
    BY <1>11, <2>1, <2>2, LeavingKeepsSafe
  <2>3. CASE step[c].pc \notin WorkingPcs
    BY <1>11, <2>1, <2>3, AskingKeepsSafe DEF WorkingPcs
  <2> QED
    BY <2>2, <2>3
<1>15. Pages \subseteq Callers /\ Ticks \subseteq Callers
  BY DEF Callers
<1> QED
  BY <1>3, <1>4, <1>5, <1>7, <1>8, <1>9, <1>10, <1>12, <1>13, <1>14, <1>15, TimeKeepsSafe, ClaimKeepsSafe
     DEF PullNext, PullStep

LEMMA PullSafety == PullSpec => []PullSafe
<1>1. PullInit => PullSafe
  BY DEF PullInit, PullSafe, OneStepWorks, Behind, Stored, SuccessIsShown, Uncalled, WorkingPcs, PullAt
<1>2. PullTypeOK /\ PullTypeOK' /\ PullSafe /\ [PullNext]_pullVars => PullSafe'
  <2>1. CASE PullNext
    BY <2>1, SafeStep
  <2>2. CASE UNCHANGED pullVars
    BY <2>2 DEF pullVars, PullSafe, OneStepWorks, Behind, Stored, SuccessIsShown, PullAt, Running, WorksOn
  <2> QED
    BY <2>1, <2>2
<1> QED
  BY <1>1, <1>2, PullTypeCorrect, PTL DEF PullSpec

(* A step works alone, and under a live lease, as long as no step of its    *)
(* pull outlasted one; what died, paused, threw or is of another pull takes *)
(* nothing from it.                                                         *)
THEOREM StepsAreExclusive == PullSpec => []OneStepWorks
<1>1. PullSafe => OneStepWorks
  BY DEF PullSafe
<1> QED
  BY <1>1, PullSafety, PTL

(* The snapshot shown is whole, and a success's own unless a step of an     *)
(* earlier pull outlasted its lease and stored late.                        *)
THEOREM SuccessesAreShown == PullSpec => []SuccessIsShown
<1>1. PullSafe => SuccessIsShown
  BY DEF PullSafe
<1> QED
  BY <1>1, PullSafety, PTL

-----------------------------------------------------------------------------
(* SecretScrub.                                                            *)
Statuses == {"absent", "pending", "scrubbed", "skipped", "failed"}
Verdicts == {"none", "scrubbed", "skipped", "failed"}
LedgerRow == [status : Statuses, stamp : Nat, due : BOOLEAN,
              checked : {"never", "recent", "old"}, linked : BOOLEAN]
ScrubRow == [pc : {"idle", "look", "put", "record"}, copy : LedgerRow, seen : Nat, verdict : Verdicts]

Shape ==
  /\ secret \in [value : {"none", "real", "123", "theirs"}, stamp : Nat]
  /\ ledger \in LedgerRow
  /\ deploy \in [pc : {"idle", "post", "record"}, tries : Nat, stamp : Nat]
  /\ scrub \in [Scrubbers -> ScrubRow]

(* A stamp that was read off the secret at some time, and not off a value   *)
(* of the owner's that stands there now.                                    *)
Read(n) == n <= secret.stamp /\ (secret.value = "theirs" => n < secret.stamp)

StampsAreRead ==
  /\ Read(0) /\ Read(ledger.stamp) /\ Read(deploy.stamp)
  /\ \A s \in Scrubbers : Read(scrub[s].copy.stamp) /\ Read(scrub[s].seen)

(* A value of ours that is about to be recorded is the one in the secret.   *)
ToRecord ==
  (deploy.pc = "record" /\ secret.value = "real" /\ secret.stamp \notin lost) => secret.stamp = deploy.stamp

(* A verdict that settles the row was passed on a value of ours that is no  *)
(* longer there.                                                            *)
Settles(s) ==
  At(s, "record") =>
    /\ scrub[s].verdict # "none"
    /\ scrub[s].verdict \in {"scrubbed", "skipped"} /\ secret.value = "real" => secret.stamp # scrub[s].copy.stamp

ScrubInv == Shape /\ StampsAreRead /\ ToRecord /\ (\A s \in Scrubbers : Settles(s)) /\ RealIsOwed

LEMMA ScrubRestTyped == NoEntry \in LedgerRow /\ AtRest \in ScrubRow
  BY DEF NoEntry, AtRest, LedgerRow, ScrubRow, Statuses, Verdicts

(* The secret only ever takes newer stamps.                                 *)
LEMMA WriteFacts ==
  ASSUME Shape, NEW value \in {"none", "real", "123", "theirs"}, Write(value)
  PROVE  /\ secret' \in [value : {"none", "real", "123", "theirs"}, stamp : Nat]
         /\ secret'.value = value /\ secret'.stamp = secret.stamp + 1
         /\ \A n \in Nat : Read(n) => Read(n)' /\ n # secret'.stamp
  BY DEF Write, Shape, Read

(* An action of the deploy, the owner or time, which no scrubber takes part *)
(* in: what the scrubbers know stays known, and their verdicts stay true.   *)
LEMMA ScrubbersUndisturbed ==
  ASSUME Shape, StampsAreRead, \A s \in Scrubbers : Settles(s), UNCHANGED scrub,
         UNCHANGED secret \/ \E value \in {"none", "real", "theirs"} : Write(value)
  PROVE  /\ \A s \in Scrubbers : Settles(s)'
         /\ Read(0)' /\ \A s \in Scrubbers : Read(scrub[s].copy.stamp)' /\ Read(scrub[s].seen)'
         /\ \A n \in Nat : Read(n) => Read(n)'
         /\ secret' \in [value : {"none", "real", "123", "theirs"}, stamp : Nat]
<1>1. \A s \in Scrubbers : scrub[s].copy.stamp \in Nat /\ scrub[s].seen \in Nat
  BY DEF Shape, ScrubRow, LedgerRow
<1>2. CASE UNCHANGED secret
  BY <1>2 DEF Settles, At, Read, StampsAreRead, Shape
<1>3. CASE \E value \in {"none", "real", "theirs"} : Write(value)
  <2>1. PICK value \in {"none", "real", "theirs"} : Write(value)
    BY <1>3
  <2>2. /\ secret' \in [value : {"none", "real", "123", "theirs"}, stamp : Nat]
        /\ \A n \in Nat : Read(n) => Read(n)' /\ n # secret'.stamp
    BY <2>1, WriteFacts
  <2> QED
    BY <1>1, <2>2 DEF Settles, At, StampsAreRead
<1> QED
  BY <1>2, <1>3

LEMMA DeployStep ==
  ASSUME ScrubInv,
         DeployStart \/ DeployCreated \/ DeployExisted \/ DeployUnanswered \/ DeployRecord \/ DeployUnrecorded
  PROVE  ScrubInv'
<1> USE DEF ScrubInv
<1>1. CASE DeployStart \/ DeployExisted
  <2>1. /\ UNCHANGED <<secret, ledger, scrub, lost, overtaken>>
        /\ deploy'.pc \in {"idle", "post"} /\ deploy'.stamp = deploy.stamp
        /\ deploy' \in [pc : {"idle", "post", "record"}, tries : Nat, stamp : Nat]
        /\ deploy.pc # "record"
    <3>1. UNCHANGED <<secret, ledger, scrub, lost, overtaken>> /\ deploy.pc # "record"
      BY <1>1 DEF DeployStart, DeployExisted, ledgerVars
    <3>2. deploy' = [deploy EXCEPT !.pc = "post", !.tries = 0] \/ deploy' = [deploy EXCEPT !.pc = "idle"]
      BY <1>1 DEF DeployStart, DeployExisted
    <3>3. deploy \in [pc : {"idle", "post", "record"}, tries : Nat, stamp : Nat]
      BY DEF Shape
    <3>4. CASE deploy' = [deploy EXCEPT !.pc = "post", !.tries = 0]
      BY <3>1, <3>3, <3>4
    <3>5. CASE deploy' = [deploy EXCEPT !.pc = "idle"]
      BY <3>1, <3>3, <3>5
    <3> QED
      BY <3>2, <3>4, <3>5
  <2>2. Shape' /\ StampsAreRead'
    BY <2>1, ScrubbersUndisturbed DEF Shape, StampsAreRead, Read
  <2>3. ToRecord' /\ RealIsOwed'
    BY <2>1 DEF ToRecord, RealIsOwed
  <2> QED
    BY <2>1, <2>2, <2>3, ScrubbersUndisturbed
<1>2. CASE DeployCreated
  <2>1. /\ Write("real") /\ UNCHANGED <<ledger, scrub, lost, overtaken>>
        /\ deploy' = [deploy EXCEPT !.pc = "record", !.stamp = secret.stamp + 1]
    BY <1>2 DEF DeployCreated, ledgerVars
  <2>2. /\ secret'.value = "real" /\ secret'.stamp = secret.stamp + 1 /\ secret.stamp \in Nat
        /\ deploy'.pc = "record" /\ deploy'.stamp = secret.stamp + 1
        /\ deploy' \in [pc : {"idle", "post", "record"}, tries : Nat, stamp : Nat]
    BY <2>1, WriteFacts DEF Shape
  <2>3. Shape'
    BY <2>1, <2>2, ScrubbersUndisturbed DEF Shape
  <2>4. Read(deploy.stamp)' /\ Read(ledger.stamp)'
    BY <2>1, <2>2, ScrubbersUndisturbed DEF Read, StampsAreRead, Shape, LedgerRow
  <2>5. ToRecord' /\ RealIsOwed'
    BY <2>2 DEF ToRecord, RealIsOwed
  <2> QED
    BY <2>1, <2>3, <2>4, <2>5, ScrubbersUndisturbed DEF StampsAreRead
<1>3. CASE DeployUnanswered
  <2>1. /\ UNCHANGED <<ledger, scrub, overtaken>> /\ deploy.pc = "post"
        /\ deploy'.pc \in {"idle", "post"} /\ deploy'.stamp = deploy.stamp
        /\ deploy' \in [pc : {"idle", "post", "record"}, tries : Nat, stamp : Nat]
    <3> DEFINE pc == IF deploy.tries + 1 = MAX_ATTEMPTS THEN "idle" ELSE deploy.pc
    <3>1. UNCHANGED <<ledger, scrub, overtaken>> /\ deploy.pc = "post"
      BY <1>3 DEF DeployUnanswered, ledgerVars
    <3>2. deploy' = [deploy EXCEPT !.tries = @ + 1, !.pc = pc]
      BY <1>3 DEF DeployUnanswered
    <3>3. deploy \in [pc : {"idle", "post", "record"}, tries : Nat, stamp : Nat]
      BY DEF Shape
    <3>4. pc \in {"idle", "post"}
      BY <3>1
    <3> HIDE DEF pc
    <3>5. deploy.tries + 1 \in Nat
      BY <3>3
    <3> DEFINE tries == deploy.tries + 1
    <3>6. deploy' = [deploy EXCEPT !.tries = tries, !.pc = pc] /\ tries \in Nat
      BY <3>2, <3>5
    <3> HIDE DEF tries
    <3> QED
      BY <3>1, <3>3, <3>4, <3>6
  <2>2. \/ UNCHANGED <<secret, lost>>
        \/ Write("real") /\ secret'.stamp = secret.stamp + 1 /\ lost' = lost \cup {secret.stamp + 1}
    BY <1>3, WriteFacts DEF DeployUnanswered
  <2>3. UNCHANGED secret \/ \E value \in {"none", "real", "theirs"} : Write(value)
    BY <2>2
  <2>4. Shape' /\ StampsAreRead'
    BY <2>1, <2>3, ScrubbersUndisturbed DEF Shape, StampsAreRead, LedgerRow
  <2>5. ToRecord' /\ RealIsOwed'
    BY <2>1, <2>2 DEF ToRecord, RealIsOwed
  <2> QED
    BY <2>1, <2>3, <2>4, <2>5, ScrubbersUndisturbed
<1>4. CASE DeployRecord
  <2>1. /\ UNCHANGED <<secret, scrub, lost, overtaken>> /\ deploy.pc = "record"
        /\ ledger' = Pending /\ ledger'.stamp = deploy.stamp /\ ledger'.status = "pending"
        /\ deploy' = [deploy EXCEPT !.pc = "idle"]
    BY <1>4 DEF DeployRecord, Pending
  <2>2. /\ deploy'.pc = "idle" /\ deploy'.stamp = deploy.stamp
        /\ deploy' \in [pc : {"idle", "post", "record"}, tries : Nat, stamp : Nat]
        /\ ledger' \in LedgerRow
    BY <2>1 DEF Shape, Pending, LedgerRow, Statuses
  <2>3. Shape' /\ StampsAreRead'
    BY <2>1, <2>2, ScrubbersUndisturbed DEF Shape, StampsAreRead, Read
  <2>4. ToRecord' /\ RealIsOwed'
    BY <2>1, <2>2 DEF ToRecord, RealIsOwed
  <2> QED
    BY <2>1, <2>3, <2>4, ScrubbersUndisturbed
<1>5. CASE DeployUnrecorded
  <2>1. /\ UNCHANGED <<secret, ledger, scrub, overtaken>> /\ deploy.pc = "record"
        /\ lost' = lost \cup {deploy.stamp}
        /\ deploy'.pc = "idle" /\ deploy'.stamp = deploy.stamp
        /\ deploy' \in [pc : {"idle", "post", "record"}, tries : Nat, stamp : Nat]
    BY <1>5 DEF DeployUnrecorded, ledgerVars, Shape
  <2>2. Shape' /\ StampsAreRead'
    BY <2>1, ScrubbersUndisturbed DEF Shape, StampsAreRead, Read
  <2>3. ToRecord' /\ RealIsOwed'
    BY <2>1 DEF ToRecord, RealIsOwed
  <2> QED
    BY <2>1, <2>2, <2>3, ScrubbersUndisturbed
<1> QED
  BY <1>1, <1>2, <1>3, <1>4, <1>5

LEMMA WorldStep ==
  ASSUME ScrubInv, DeleteToken \/ OwnerActs \/ TimePasses
  PROVE  ScrubInv'
<1> USE DEF ScrubInv
<1>1. CASE DeleteToken \/ TimePasses
  <2>1. /\ UNCHANGED <<secret, deploy, scrub, lost, overtaken>>
        /\ ledger' \in LedgerRow /\ ledger'.stamp = ledger.stamp /\ ledger'.status = ledger.status
    BY <1>1 DEF DeleteToken, TimePasses, Shape, LedgerRow
  <2>2. Shape' /\ StampsAreRead'
    BY <2>1, ScrubbersUndisturbed DEF Shape, StampsAreRead, Read
  <2>3. ToRecord' /\ RealIsOwed'
    BY <2>1 DEF ToRecord, RealIsOwed
  <2> QED
    BY <2>1, <2>2, <2>3, ScrubbersUndisturbed
<1>2. CASE OwnerActs
  <2>1. /\ UNCHANGED <<ledger, deploy, scrub, lost, overtaken>>
        /\ \E value \in {"none", "theirs"} : Write(value)
    BY <1>2 DEF OwnerActs, ledgerVars
  <2>2. secret'.value # "real"
    BY <2>1, WriteFacts
  <2>3. Shape' /\ StampsAreRead'
    BY <2>1, ScrubbersUndisturbed DEF Shape, StampsAreRead, LedgerRow
  <2>4. ToRecord' /\ RealIsOwed'
    BY <2>2 DEF ToRecord, RealIsOwed
  <2> QED
    BY <2>1, <2>3, <2>4, ScrubbersUndisturbed
<1> QED
  BY <1>1, <1>2

(* A scrubber looks, gives way or gives up: the secret and the ledger stay. *)
LEMMA ScrubberMoves ==
  ASSUME ScrubInv, NEW s \in Scrubbers, NEW w \in ScrubRow, scrub' = [scrub EXCEPT ![s] = w],
         UNCHANGED <<secret, ledger, deploy, lost, overtaken>>,
         Read(w.copy.stamp), Read(w.seen),
         w.pc = "record" =>
           /\ w.verdict # "none"
           /\ w.verdict \in {"scrubbed", "skipped"} /\ secret.value = "real" => secret.stamp # w.copy.stamp
  PROVE  ScrubInv'
<1> USE DEF ScrubInv
<1>1. scrub' \in [Scrubbers -> ScrubRow] /\ scrub'[s] = w /\ \A q \in Scrubbers \ {s} : scrub'[q] = scrub[q]
  BY DEF Shape
<1>2. Shape' /\ StampsAreRead'
  BY <1>1 DEF Shape, StampsAreRead, Read
<1>3. \A q \in Scrubbers : Settles(q)'
  BY <1>1 DEF Settles, At
<1>4. ToRecord' /\ RealIsOwed'
  BY DEF ToRecord, RealIsOwed
<1> QED
  BY <1>2, <1>3, <1>4

LEMMA ScrubberStep ==
  ASSUME ScrubInv, NEW s \in Scrubbers,
         SweepStart(s) \/ ClickStart(s) \/ ScrubStep(s) \/ ScrubFault(s)
  PROVE  ScrubInv'
<1>0. Shape /\ StampsAreRead /\ ToRecord /\ (\A q \in Scrubbers : Settles(q)) /\ RealIsOwed
  BY DEF ScrubInv
<1>1. /\ scrub[s] \in ScrubRow /\ scrub[s].copy \in LedgerRow /\ scrub[s].seen \in Nat /\ scrub[s].copy.stamp \in Nat
      /\ Read(0) /\ Read(scrub[s].copy.stamp) /\ Read(scrub[s].seen) /\ Read(ledger.stamp)
  BY <1>0 DEF Shape, ScrubRow, LedgerRow, StampsAreRead
<1>2. CASE SweepStart(s) \/ ClickStart(s)
  <2> DEFINE w == [AtRest EXCEPT !.pc = "look", !.copy = ledger]
  <2>1. scrub' = [scrub EXCEPT ![s] = w] /\ UNCHANGED <<secret, ledger, deploy, lost, overtaken>>
    BY <1>2 DEF SweepStart, ClickStart, Begin, ledgerVars
  <2>2. w \in ScrubRow /\ w.pc = "look" /\ w.copy = ledger /\ w.seen = 0
    BY <1>0 DEF Shape, AtRest, ScrubRow, Verdicts
  <2> QED
    BY <1>1, <2>1, <2>2, ScrubberMoves
<1>3. ASSUME NEW verdict \in {"scrubbed", "skipped", "failed"}, Judge(s, verdict),
             UNCHANGED <<secret, ledger, deploy, lost, overtaken>>,
             verdict \in {"scrubbed", "skipped"} /\ secret.value = "real" => secret.stamp # scrub[s].copy.stamp
      PROVE  ScrubInv'
  <2> DEFINE w == [scrub[s] EXCEPT !.pc = "record", !.verdict = verdict]
  <2>1. scrub' = [scrub EXCEPT ![s] = w]
    BY <1>3 DEF Judge
  <2>2. w \in ScrubRow /\ w.pc = "record" /\ w.copy = scrub[s].copy /\ w.seen = scrub[s].seen /\ w.verdict = verdict
    BY <1>1 DEF ScrubRow, Verdicts
  <2> QED
    BY <1>1, <1>3, <2>1, <2>2, ScrubberMoves
<1>4. CASE Look(s)
  <2>1. UNCHANGED <<secret, ledger, deploy, lost, overtaken>>
    BY <1>4 DEF Look, ledgerVars
  <2>2. \/ Judge(s, "failed")
        \/ Judge(s, "scrubbed") /\ secret.value = "none"
        \/ Judge(s, "skipped") /\ secret.stamp # scrub[s].copy.stamp
        \/ scrub' = [scrub EXCEPT ![s].pc = "put", ![s].seen = secret.stamp] /\ secret.stamp = scrub[s].copy.stamp
    BY <1>4 DEF Look, ModifiedSince
  <2>3. CASE scrub' = [scrub EXCEPT ![s].pc = "put", ![s].seen = secret.stamp] /\ secret.stamp = scrub[s].copy.stamp
    <3> DEFINE w == [scrub[s] EXCEPT !.pc = "put", !.seen = secret.stamp]
    <3>1. scrub' = [scrub EXCEPT ![s] = w]
      BY <2>3
    <3>2. w \in ScrubRow /\ w.pc = "put" /\ w.copy = scrub[s].copy /\ w.seen = scrub[s].copy.stamp
      BY <1>1, <2>3 DEF ScrubRow
    <3> QED
      BY <1>1, <2>1, <3>1, <3>2, ScrubberMoves
  <2> QED
    BY <1>3, <2>1, <2>2, <2>3
<1>5. CASE LookFails(s)
  BY <1>3, <1>5 DEF LookFails, ledgerVars
<1>6. CASE Overwrite(s) \/ OverwriteFails(s)
  <2>1. PICK verdict \in {"scrubbed", "failed"} : Judge(s, verdict)
    BY <1>6 DEF Overwrite, OverwriteFails
  <2>2. UNCHANGED <<ledger, deploy, lost, overtaken>>
    BY <1>6 DEF Overwrite, OverwriteFails, ledgerVars
  <2>3. CASE UNCHANGED secret
    <3>1. verdict = "failed" \/ secret.value = "none"
      <4>1. CASE OverwriteFails(s)
        <5>1. scrub \in [Scrubbers -> ScrubRow]
          BY <1>0 DEF Shape
        <5>2. Judge(s, "failed")
          BY <4>1 DEF OverwriteFails
        <5>3. scrub'[s] = [scrub[s] EXCEPT !.pc = "record", !.verdict = "failed"]
          BY <5>1, <5>2 DEF Judge
        <5>4. scrub'[s] = [scrub[s] EXCEPT !.pc = "record", !.verdict = verdict]
          BY <5>1, <2>1 DEF Judge
        <5>5. \A v \in {"failed", "scrubbed"} : [scrub[s] EXCEPT !.pc = "record", !.verdict = v].verdict = v
          BY <1>1 DEF ScrubRow
        <5> QED
          BY <5>3, <5>4, <5>5
      <4>2. CASE Overwrite(s) /\ secret.value # "none"
        <5>1. Write("123")
          BY <4>2 DEF Overwrite
        <5>2. secret'.stamp = secret.stamp + 1 /\ secret.stamp \in Nat
          BY <1>0, <5>1, WriteFacts DEF Shape
        <5> QED
          BY <2>3, <5>2
      <4> QED
        BY <1>6, <4>1, <4>2
    <3> QED
      BY <1>3, <2>1, <2>2, <2>3, <3>1
  <2>4. CASE Write("123")
    <3>1. /\ secret' \in [value : {"none", "real", "123", "theirs"}, stamp : Nat]
          /\ secret'.value = "123" /\ \A n \in Nat : Read(n) => Read(n)'
      BY <1>0, <2>4, WriteFacts
    <3> DEFINE w == [scrub[s] EXCEPT !.pc = "record", !.verdict = verdict]
    <3>2. scrub' = [scrub EXCEPT ![s] = w]
      BY <2>1 DEF Judge
    <3>3. w \in ScrubRow /\ w.pc = "record" /\ w.copy = scrub[s].copy /\ w.seen = scrub[s].seen /\ w.verdict = verdict
      BY <1>1 DEF ScrubRow, Verdicts
    <3>4. scrub' \in [Scrubbers -> ScrubRow] /\ scrub'[s] = w /\ \A q \in Scrubbers \ {s} : scrub'[q] = scrub[q]
      BY <1>0, <3>2, <3>3 DEF Shape
    <3> HIDE DEF w
    <3>5. Shape'
      BY <1>0, <2>2, <3>1, <3>4 DEF Shape
    <3>6. \A q \in Scrubbers : /\ scrub'[q].copy = scrub[q].copy /\ scrub'[q].seen = scrub[q].seen
                               /\ scrub[q].copy.stamp \in Nat /\ scrub[q].seen \in Nat
      BY <1>0, <3>3, <3>4 DEF Shape, ScrubRow, LedgerRow
    <3>7. /\ ledger.stamp \in Nat /\ deploy.stamp \in Nat
      BY <1>0 DEF Shape, LedgerRow
    <3>8. StampsAreRead'
      <4>1. Read(0)' /\ Read(ledger.stamp)' /\ Read(deploy.stamp)'
        BY <1>0, <2>2, <3>1, <3>7 DEF StampsAreRead, Read
      <4>2. \A q \in Scrubbers : Read(scrub[q].copy.stamp)' /\ Read(scrub[q].seen)'
        BY <1>0, <3>1, <3>6 DEF StampsAreRead, Read
      <4> QED
        BY <4>1, <4>2 DEF StampsAreRead
    <3>9. \A q \in Scrubbers : Settles(q)'
      BY <1>0, <3>1, <3>3, <3>4 DEF Settles, At
    <3>10. ToRecord' /\ RealIsOwed'
      BY <3>1 DEF ToRecord, RealIsOwed
    <3> QED
      BY <3>5, <3>8, <3>9, <3>10 DEF ScrubInv
  <2> QED
    BY <1>6, <2>3, <2>4 DEF Overwrite, OverwriteFails
<1>7. CASE Record(s)
  <2>1. /\ At(s, "record") /\ ledger' = RecordVerdict(s) /\ UNCHANGED <<secret, deploy, lost>>
        /\ overtaken' = (overtaken \/ scrub[s].copy.stamp # ledger.stamp)
        /\ scrub' = [scrub EXCEPT ![s] = AtRest]
    BY <1>7 DEF Record, Leave
  <2>2. scrub[s].verdict \in Verdicts \ {"none"}
    BY <1>0, <1>1, <2>1 DEF Settles, ScrubRow
  <2>3. ledger' \in LedgerRow /\ ledger'.stamp = ledger.stamp /\ ledger'.status = scrub[s].verdict
    BY <1>0, <2>1, <2>2 DEF RecordVerdict, Shape, LedgerRow, Statuses, Verdicts
  <2>4. scrub' \in [Scrubbers -> ScrubRow] /\ scrub'[s] = AtRest /\ \A q \in Scrubbers \ {s} : scrub'[q] = scrub[q]
    BY <1>0, <2>1, ScrubRestTyped DEF Shape
  <2>5. Shape'
    BY <1>0, <2>1, <2>3, <2>4 DEF Shape
  <2>6. StampsAreRead' /\ \A q \in Scrubbers : Settles(q)'
    BY <1>0, <2>1, <2>3, <2>4 DEF StampsAreRead, Read, Settles, At, AtRest, NoEntry
  <2>7. ToRecord'
    BY <1>0, <2>1 DEF ToRecord
  <2>8. RealIsOwed'
    <3> SUFFICES ASSUME secret.value = "real", secret.stamp \notin lost, ~overtaken', deploy.pc # "record"
                 PROVE  ledger'.status \in {"pending", "failed"} /\ ledger'.stamp = secret.stamp
      BY <2>1 DEF RealIsOwed
    <3>1. ~overtaken /\ scrub[s].copy.stamp = ledger.stamp
      BY <2>1
    <3>2. ledger.stamp = secret.stamp
      BY <1>0, <3>1 DEF RealIsOwed
    <3>3. scrub[s].verdict \notin {"scrubbed", "skipped"}
      BY <1>0, <2>1, <3>1, <3>2 DEF Settles
    <3> QED
      BY <2>2, <2>3, <3>2, <3>3 DEF Verdicts
  <2> QED
    BY <2>5, <2>6, <2>7, <2>8 DEF ScrubInv
<1>8. CASE Abandon(s)
  <2>1. scrub' = [scrub EXCEPT ![s] = AtRest] /\ UNCHANGED <<secret, ledger, deploy, lost, overtaken>>
    BY <1>8 DEF Abandon, Leave, ledgerVars
  <2>2. AtRest.pc = "idle" /\ AtRest.copy.stamp = 0 /\ AtRest.seen = 0
    BY DEF AtRest, NoEntry
  <2> QED
    BY <1>1, <2>1, <2>2, ScrubRestTyped, ScrubberMoves
<1> QED
  BY <1>2, <1>4, <1>5, <1>6, <1>7, <1>8 DEF ScrubStep, ScrubFault

LEMMA ScrubInvInductive == ScrubInv /\ [ScrubNext]_scrubVars => ScrubInv'
<1> SUFFICES ASSUME ScrubInv, [ScrubNext]_scrubVars PROVE ScrubInv'
  OBVIOUS
<1>1. CASE ScrubNext
  <2>1. Sweeps \subseteq Scrubbers /\ Clicks \subseteq Scrubbers
    BY DEF Scrubbers
  <2> QED
    BY <1>1, <2>1, DeployStep, WorldStep, ScrubberStep DEF ScrubNext
<1>2. CASE UNCHANGED scrubVars
  <2>1. UNCHANGED <<secret, ledger, deploy, scrub, lost, overtaken>>
    BY <1>2 DEF scrubVars, ledgerVars
  <2>2. Shape' /\ StampsAreRead' /\ ToRecord' /\ RealIsOwed'
    BY <2>1 DEF ScrubInv, Shape, StampsAreRead, Read, ToRecord, RealIsOwed
  <2>3. \A s \in Scrubbers : Settles(s)'
    BY <2>1 DEF ScrubInv, Settles, At
  <2> QED
    BY <2>2, <2>3 DEF ScrubInv
<1> QED
  BY <1>1, <1>2

LEMMA ScrubInvInitially == ScrubInit => ScrubInv
<1> SUFFICES ASSUME ScrubInit PROVE ScrubInv
  OBVIOUS
<1>1. Shape
  BY ScrubRestTyped DEF ScrubInit, Shape
<1>2. StampsAreRead
  BY DEF ScrubInit, StampsAreRead, Read, AtRest, NoEntry
<1>3. ToRecord /\ RealIsOwed /\ \A s \in Scrubbers : Settles(s)
  BY DEF ScrubInit, ToRecord, RealIsOwed, Settles, At, AtRest
<1> QED
  BY <1>1, <1>2, <1>3 DEF ScrubInv

(* A credential of ours that was recorded stays on the list of what is to   *)
(* be taken back for as long as it stands.                                  *)
THEOREM CredentialIsOwed == ScrubSpec => []RealIsOwed
<1>1. ScrubInv => RealIsOwed
  BY DEF ScrubInv
<1> QED
  BY <1>1, ScrubInvInitially, ScrubInvInductive, PTL DEF ScrubSpec

(* An owner's value is overwritten only by a scrubber that looked before    *)
(* the owner put it there.                                                  *)
THEOREM OwnersValueIsKept == ScrubSpec => TheirsIsKept
<1> DEFINE Spared == secret.value = "theirs" /\ secret'.value = "123" =>
                       \E s \in Scrubbers : At(s, "put") /\ scrub[s].seen # secret.stamp
<1>1. ScrubInv /\ [ScrubNext]_scrubVars => [Spared]_scrubVars
  <2> SUFFICES ASSUME ScrubInv, ScrubNext, secret.value = "theirs", secret'.value = "123"
               PROVE  \E s \in Scrubbers : At(s, "put") /\ scrub[s].seen # secret.stamp
    OBVIOUS
  <2>1. \A s \in Scrubbers : scrub[s].seen \in Nat /\ scrub[s].seen < secret.stamp
    BY DEF ScrubInv, Shape, ScrubRow, StampsAreRead, Read
  <2>2. \E s \in Scrubbers : Overwrite(s) \/ OverwriteFails(s)
    <3>1. secret' # secret
      OBVIOUS
    <3>2. Sweeps \subseteq Scrubbers /\ Clicks \subseteq Scrubbers
      BY DEF Scrubbers
    <3>3. ~(DeployCreated \/ DeployUnanswered \/ OwnerActs)
      BY <3>1, WriteFacts DEF ScrubInv, DeployCreated, DeployUnanswered, OwnerActs
    <3> QED
      BY <3>1, <3>2, <3>3
         DEF ScrubNext, DeployStart, DeployExisted, DeployRecord, DeployUnrecorded, DeleteToken, TimePasses,
             SweepStart, ClickStart, ScrubStep, ScrubFault, Look, LookFails, Record, Abandon
  <2>3. PICK s \in Scrubbers : Overwrite(s) \/ OverwriteFails(s)
    BY <2>2
  <2>4. At(s, "put")
    BY <2>3 DEF Overwrite, OverwriteFails
  <2>5. scrub[s].seen # secret.stamp
    BY <2>1 DEF ScrubInv, Shape
  <2> QED
    BY <2>4, <2>5
<1> QED
  BY <1>1, ScrubInvInitially, ScrubInvInductive, PTL DEF ScrubSpec, TheirsIsKept

-----------------------------------------------------------------------------
(* A deploy that posts has attempts left.                                   *)
ScrubRest ==
  /\ token \in BOOLEAN /\ overtaken \in BOOLEAN
  /\ sweeping \subseteq Sweeps /\ lost \subseteq Nat
  /\ budget \in [deploys : 0 .. MaxDeploys, edits : 0 .. MaxEdits, faults : 0 .. MaxFaults]
  /\ deploy.tries \in 0 .. MAX_ATTEMPTS
  /\ deploy.pc = "post" => deploy.tries < MAX_ATTEMPTS

LEMMA ScrubRestStep ==
  ASSUME Shape, ScrubRest, ScrubNext
  PROVE  ScrubRest'
<1>0. /\ deploy \in [pc : {"idle", "post", "record"}, tries : Nat, stamp : Nat] /\ secret.stamp \in Nat
      /\ budget \in [deploys : 0 .. MaxDeploys, edits : 0 .. MaxEdits, faults : 0 .. MaxFaults]
  BY DEF Shape, ScrubRest
<1>1. budget' \in [deploys : 0 .. MaxDeploys, edits : 0 .. MaxEdits, faults : 0 .. MaxFaults]
  <2>1. \/ budget' = budget
        \/ \E n \in 0 .. MaxDeploys : budget' = [budget EXCEPT !.deploys = n]
        \/ \E n \in 0 .. MaxEdits : budget' = [budget EXCEPT !.edits = n]
        \/ \E n \in 0 .. MaxFaults : budget' = [budget EXCEPT !.faults = n]
    <3>1. CASE Fault
      <4>1. budget.faults - 1 \in 0 .. MaxFaults
        BY <1>0, ScrubConstants, <3>1 DEF Fault
      <4> QED
        BY <3>1, <4>1 DEF Fault
    <3>2. CASE DeployStart
      <4>1. budget.deploys - 1 \in 0 .. MaxDeploys
        BY <1>0, ScrubConstants, <3>2 DEF DeployStart
      <4> QED
        BY <3>2, <4>1 DEF DeployStart
    <3>3. CASE OwnerActs
      <4>1. budget.edits - 1 \in 0 .. MaxEdits
        BY <1>0, ScrubConstants, <3>3 DEF OwnerActs
      <4> QED
        BY <3>3, <4>1 DEF OwnerActs
    <3>4. CASE UNCHANGED budget
      BY <3>4
    <3> QED
      BY <3>1, <3>2, <3>3, <3>4
         DEF ScrubNext, DeployCreated, DeployExisted, DeployUnanswered, DeployRecord, DeployUnrecorded, DeleteToken,
             TimePasses, SweepStart, ClickStart, ScrubStep, ScrubFault, Look, Overwrite, Record, LookFails,
             OverwriteFails, Abandon
  <2> QED
    BY <1>0, <2>1
<1>2. token' \in BOOLEAN
  BY DEF ScrubRest, ScrubNext, DeployStart, DeployCreated, DeployExisted, DeployUnanswered, DeployRecord,
         DeployUnrecorded, DeleteToken, OwnerActs, TimePasses, SweepStart, ClickStart, ScrubStep, ScrubFault, Look,
         Overwrite, Record, LookFails, OverwriteFails, Abandon, ledgerVars
<1>3. sweeping' \subseteq Sweeps
  BY DEF ScrubRest, ScrubNext, DeployStart, DeployCreated, DeployExisted, DeployUnanswered, DeployRecord,
         DeployUnrecorded, DeleteToken, OwnerActs, TimePasses, SweepStart, ClickStart, ScrubStep, ScrubFault, Look,
         Overwrite, Record, LookFails, OverwriteFails, Abandon, Leave
<1>4. overtaken' \in BOOLEAN
  BY DEF ScrubRest, ScrubNext, DeployStart, DeployCreated, DeployExisted, DeployUnanswered, DeployRecord,
         DeployUnrecorded, DeleteToken, OwnerActs, TimePasses, SweepStart, ClickStart, ScrubStep, ScrubFault, Look,
         Overwrite, Record, LookFails, OverwriteFails, Abandon
<1>5. lost' \subseteq Nat
  <2>1. lost' \in {lost, lost \cup {secret.stamp + 1}, lost \cup {deploy.stamp}}
    BY DEF ScrubNext, DeployStart, DeployCreated, DeployExisted, DeployUnanswered, DeployRecord,
         DeployUnrecorded, DeleteToken, OwnerActs, TimePasses, SweepStart, ClickStart, ScrubStep, ScrubFault, Look,
         Overwrite, Record, LookFails, OverwriteFails, Abandon
  <2> QED
    BY <1>0, <2>1 DEF ScrubRest
<1>6. deploy'.tries \in 0 .. MAX_ATTEMPTS /\ (deploy'.pc = "post" => deploy'.tries < MAX_ATTEMPTS)
  <2>1. CASE DeployStart
    <3>1. deploy'.tries = 0
      BY <1>0, <2>1 DEF DeployStart
    <3> QED
      BY <3>1 DEF MAX_ATTEMPTS
  <2>2. CASE DeployUnanswered
    <3>1. deploy'.tries = deploy.tries + 1 /\ (deploy.tries + 1 = MAX_ATTEMPTS => deploy'.pc = "idle")
      BY <1>0, <2>2 DEF DeployUnanswered
    <3>2. deploy.tries < MAX_ATTEMPTS
      BY <2>2 DEF DeployUnanswered, ScrubRest
    <3> QED
      BY <1>0, <3>1, <3>2 DEF MAX_ATTEMPTS
  <2>3. CASE DeployCreated \/ DeployExisted \/ DeployRecord \/ DeployUnrecorded
    <3>1. deploy'.tries = deploy.tries /\ deploy'.pc \in {"idle", "record"}
      BY <1>0, <2>3 DEF DeployCreated, DeployExisted, DeployRecord, DeployUnrecorded
    <3> QED
      BY <3>1 DEF ScrubRest
  <2>4. CASE UNCHANGED deploy
    BY <2>4 DEF ScrubRest
  <2> QED
    BY <2>1, <2>2, <2>3, <2>4
       DEF ScrubNext, DeleteToken, OwnerActs, TimePasses, SweepStart, ClickStart, ScrubStep, ScrubFault, Look,
           Overwrite, Record, LookFails, OverwriteFails, Abandon
<1> QED
  BY <1>1, <1>2, <1>3, <1>4, <1>5, <1>6 DEF ScrubRest

(* The types of the secret, of its row and of every scrubber.               *)
THEOREM ScrubTypeCorrect == ScrubSpec => []ScrubTypeOK
<1>1. ScrubInit => ScrubRest
  <2> SUFFICES ASSUME ScrubInit PROVE ScrubRest
    OBVIOUS
  <2>1. budget \in [deploys : 0 .. MaxDeploys, edits : 0 .. MaxEdits, faults : 0 .. MaxFaults]
    BY ScrubConstants DEF ScrubInit
  <2>2. deploy.tries = 0 /\ deploy.pc = "idle"
    BY DEF ScrubInit
  <2>3. token \in BOOLEAN /\ overtaken \in BOOLEAN
    <3>1. token = (budget.deploys > 0) /\ overtaken = FALSE
      BY DEF ScrubInit
    <3>2. (budget.deploys > 0) \in BOOLEAN
      OBVIOUS
    <3> QED
      BY <3>1, <3>2, Zenon
  <2>4. sweeping = {} /\ lost = {}
    BY DEF ScrubInit
  <2> QED
    BY <2>1, <2>2, <2>3, <2>4 DEF ScrubRest, MAX_ATTEMPTS
<1>2. ScrubInv /\ ScrubRest /\ [ScrubNext]_scrubVars => ScrubRest'
  BY ScrubRestStep DEF ScrubInv, scrubVars, ledgerVars, ScrubRest
<1>3. ScrubInv /\ ScrubRest => ScrubTypeOK
  <2> SUFFICES ASSUME ScrubInv, ScrubRest PROVE ScrubTypeOK
    OBVIOUS
  <2>1. deploy \in [pc : {"idle", "post", "record"}, tries : 0 .. MAX_ATTEMPTS, stamp : Nat]
    BY DEF ScrubInv, Shape, ScrubRest
  <2> QED
    BY <2>1 DEF ScrubInv, Shape, ScrubRest, ScrubTypeOK, Stamps, Entry, LedgerRow, ScrubRow, Statuses, Verdicts
<1> QED
  BY <1>1, <1>2, <1>3, ScrubInvInitially, ScrubInvInductive, PTL DEF ScrubSpec
=============================================================================
