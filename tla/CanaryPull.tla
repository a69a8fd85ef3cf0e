----------------------------- MODULE CanaryPull -----------------------------
(***************************************************************************)
(* The Canary Wire's pull from Mindtickle: one row, worked off in steps.   *)
(*                                                                         *)
(* A pull takes longer than a request may run, so each step takes up what  *)
(* the last one saved, under a lease, and lets go.  The dispatcher and an  *)
(* open page call for steps; a step dies with its process, and its lease   *)
(* runs out; a pull nobody works on is given up.  A lease is never renewed,*)
(* and the last learner of a step may take longer than is left of it.      *)
(***************************************************************************)
EXTENDS Naturals

CONSTANTS
  Pages,        \* calls of open pages that may be under way at once
  Ticks,        \* calls of the dispatcher
  Learners,     \* learners to fetch
  SaveEvery,    \* SAVE_EVERY
  MaxPulls,     \* pulls started
  MaxPullFaults

ASSUME PullConstants ==
  /\ Learners \in Nat /\ MaxPulls \in Nat /\ MaxPullFaults \in Nat
  /\ SaveEvery \in Nat \ {0}

Callers == Pages \cup Ticks

VARIABLES
  pull,       \* the newest row of canary_wire_pulls; its id counts the pulls
  snapshot,   \* the pull whose snapshot the pages show, and the learners in it
  step,       \* each call: where it is, its pull, its copy of the state
  overrun,    \* history: pulls of which a step was at work beyond its lease
  pullLeft    \* pulls, and steps that throw or die, still to come

pullVars == <<pull, snapshot, step, overrun, pullLeft>>

NoState == [rosters |-> FALSE, next |-> 0]
Uncalled == [pc |-> "idle", id |-> 0, state |-> NoState, moved |-> FALSE]

PullInit ==
  /\ pull = [id |-> 0, status |-> "none", state |-> NoState, lease |-> "free", stale |-> FALSE, recent |-> FALSE]
  /\ snapshot = [id |-> 0, learners |-> 0]
  /\ step = [c \in Callers |-> Uncalled]
  /\ overrun = {}
  /\ pullLeft \in {[pulls |-> MaxPulls, faults |-> MaxPullFaults], [pulls |-> 0, faults |-> 0]}

PullAt(c, pc) == step[c].pc = pc
Goto(c, pc) == step' = [step EXCEPT ![c].pc = pc]
HangUp(c) == step' = [step EXCEPT ![c] = Uncalled]
PullFault == pullLeft.faults > 0 /\ pullLeft' = [pullLeft EXCEPT !.faults = @ - 1]
MorePulls == pullLeft.pulls > 0
Running == pull.status = "running"
WorkingPcs == {"work", "release", "store", "finish", "fail"}

-----------------------------------------------------------------------------
(* Calls: Sync Now on the page, a step of the page, the dispatcher's.       *)

(* abandonStale, with which every call begins.                              *)
Abandoned ==
  IF Running /\ pull.stale /\ pull.lease # "live"
    THEN [pull EXCEPT !.status = "failed", !.state = NoState, !.lease = "free"] ELSE pull

StartCalled(c) ==
  /\ PullAt(c, "idle") /\ MorePulls
  /\ pull' = Abandoned
  /\ Goto(c, "insert")
  /\ UNCHANGED <<snapshot, overrun, pullLeft>>

StepCalled(c) ==
  /\ PullAt(c, "idle") /\ Running
  /\ pull' = Abandoned
  /\ Goto(c, "claim")
  /\ UNCHANGED <<snapshot, overrun, pullLeft>>

(* scheduledStep: a step of the pull that runs, or the start of one when    *)
(* none started within SCHEDULE_GAP_MS.                                     *)
ScheduleCalled(c) ==
  /\ PullAt(c, "idle")
  /\ Running \/ (~pull.recent /\ MorePulls)
  /\ pull' = Abandoned
  /\ Goto(c, "latest")
  /\ UNCHANGED <<snapshot, overrun, pullLeft>>

LatestRead(c) ==
  /\ PullAt(c, "latest")
  /\ \/ Running /\ Goto(c, "advance")
     \/ ~Running /\ pull.recent /\ HangUp(c)
     \/ ~Running /\ ~pull.recent /\ Goto(c, "start")
  /\ UNCHANGED <<pull, snapshot, overrun, pullLeft>>

(* One pull at a time: a second insert while one runs is a conflict.  The   *)
(* dispatcher goes on to a step either way.                                 *)
Insert(c) ==
  /\ step[c].pc \in {"insert", "start"}
  /\ IF Running \/ ~MorePulls THEN UNCHANGED <<pull, pullLeft>>
     ELSE /\ pull' = [id |-> pull.id + 1, status |-> "running", state |-> NoState,
                      lease |-> "free", stale |-> FALSE, recent |-> TRUE]
          /\ pullLeft' = [pullLeft EXCEPT !.pulls = @ - 1]
  /\ IF PullAt(c, "start") THEN Goto(c, "advance") ELSE HangUp(c)
  /\ UNCHANGED <<snapshot, overrun>>

Advance(c) ==
  /\ PullAt(c, "advance")
  /\ pull' = Abandoned
  /\ Goto(c, "claim")
  /\ UNCHANGED <<snapshot, overrun, pullLeft>>

-----------------------------------------------------------------------------
(* advancePull.                                                             *)

UnleasedAnyway == Running     \* mutant: a lease keeps nobody out
Unleased == Running /\ pull.lease # "live"

Claim(c) ==
  /\ PullAt(c, "claim")
  /\ IF Unleased
     THEN /\ pull' = [pull EXCEPT !.lease = "live"]
          /\ step' = [step EXCEPT ![c] = [pc |-> "work", id |-> pull.id, state |-> pull.state, moved |-> FALSE]]
     ELSE HangUp(c) /\ UNCHANGED pull
  /\ UNCHANGED <<snapshot, overrun, pullLeft>>

(* save: by id, whatever the row says by now.                               *)
Saved(c, state) ==
  IF pull.id = step[c].id THEN [pull EXCEPT !.state = state, !.stale = FALSE] ELSE pull

SetUp(c) ==
  /\ PullAt(c, "work") /\ ~step[c].state.rosters
  /\ LET state == [rosters |-> TRUE, next |-> 0] IN
       /\ pull' = Saved(c, state)
       /\ step' = [step EXCEPT ![c].state = state]
  /\ UNCHANGED <<snapshot, overrun, pullLeft>>

Left(c) == Learners - step[c].state.next

(* One learner, whose history may fail without failing the pull.            *)
FetchLearner(c) ==
  /\ PullAt(c, "work") /\ step[c].state.rosters /\ Left(c) > 0
  /\ LET state == [step[c].state EXCEPT !.next = @ + 1] IN
       /\ pull' = IF state.next % SaveEvery = 0 THEN Saved(c, state) ELSE pull
       /\ step' = [step EXCEPT ![c].state = state, ![c].moved = TRUE]
  /\ UNCHANGED <<snapshot, overrun, pullLeft>>

(* The budget is up: "at least one learner a step".                         *)
MayPauseAtOnce(c) == step[c].state.rosters     \* mutant: a late step fetches nobody
MayPause(c) == step[c].moved

Pause(c) ==
  /\ PullAt(c, "work") /\ MayPause(c) /\ Left(c) > 0
  /\ pull' = Saved(c, step[c].state)
  /\ Goto(c, "release")
  /\ UNCHANGED <<snapshot, overrun, pullLeft>>

Release(c) ==
  /\ PullAt(c, "release")
  /\ pull' = IF pull.id = step[c].id THEN [pull EXCEPT !.lease = "free"] ELSE pull
  /\ HangUp(c)
  /\ UNCHANGED <<snapshot, overrun, pullLeft>>

AllFetchedFinish(c) ==     \* mutant: the pull is finished before its snapshot is stored
  /\ PullAt(c, "work") /\ step[c].state.rosters /\ Left(c) = 0
  /\ pull' = IF pull.id = step[c].id THEN [Saved(c, step[c].state) EXCEPT !.status = "succeeded"] ELSE pull
  /\ Goto(c, "store")
  /\ UNCHANGED <<snapshot, overrun, pullLeft>>
AllFetched(c) ==
  /\ PullAt(c, "work") /\ step[c].state.rosters /\ Left(c) = 0
  /\ pull' = Saved(c, step[c].state)
  /\ Goto(c, "store")
  /\ UNCHANGED <<snapshot, overrun, pullLeft>>

(* saveSnapshot: the new one in, every older one out.                       *)
Store(c) ==
  /\ PullAt(c, "store")
  /\ snapshot' = [id |-> step[c].id, learners |-> step[c].state.next]
  /\ Goto(c, "finish")
  /\ UNCHANGED <<pull, overrun, pullLeft>>

(* finish: by id as well.                                                   *)
Finish(c) ==
  /\ step[c].pc \in {"finish", "fail"}
  /\ LET outcome == IF PullAt(c, "finish") THEN "succeeded" ELSE "failed" IN
       pull' = IF pull.id # step[c].id THEN pull
               ELSE [pull EXCEPT !.status = outcome, !.state = NoState, !.lease = "free", !.stale = FALSE]
  /\ HangUp(c)
  /\ UNCHANGED <<snapshot, overrun, pullLeft>>

(* Mindtickle refuses, or a write fails, the last one included.             *)
StepThrows(c) ==
  /\ step[c].pc \in WorkingPcs \ {"fail"} /\ PullFault
  /\ Goto(c, "fail")
  /\ UNCHANGED <<pull, snapshot, overrun>>

StepDies(c) ==
  /\ ~PullAt(c, "idle") /\ PullFault
  /\ HangUp(c)
  /\ UNCHANGED <<pull, snapshot, overrun>>

-----------------------------------------------------------------------------
(* Time: 290 seconds, 6 hours, 90 minutes.                                  *)

SomebodyWorks == \E c \in Callers : step[c].pc \in WorkingPcs
WorksOn(c, id) == step[c].pc \in WorkingPcs /\ step[c].id = id

(* A step looks at its budget of 240 seconds between learners only, and one *)
(* learner's calls may take five times 60 seconds.                          *)
LeaseRunsOut ==
  /\ pull.lease = "live"
  /\ pull' = [pull EXCEPT !.lease = "over"]
  /\ overrun' = IF \E c \in Callers : WorksOn(c, pull.id) THEN overrun \cup {pull.id} ELSE overrun
  /\ UNCHANGED <<snapshot, step, pullLeft>>

GoesStale ==
  /\ Running /\ ~pull.stale /\ pull.lease # "live" /\ ~SomebodyWorks
  /\ pull' = [pull EXCEPT !.stale = TRUE]
  /\ UNCHANGED <<snapshot, step, overrun, pullLeft>>

GapPasses ==
  /\ pull.recent
  /\ pull' = [pull EXCEPT !.recent = FALSE]
  /\ UNCHANGED <<snapshot, step, overrun, pullLeft>>

PullStep(c) ==
  \/ LatestRead(c) \/ Insert(c) \/ Advance(c) \/ Claim(c)
  \/ SetUp(c) \/ FetchLearner(c) \/ Pause(c) \/ Release(c) \/ AllFetched(c) \/ Store(c) \/ Finish(c)

PullNext ==
  \/ LeaseRunsOut \/ GoesStale \/ GapPasses
  \/ \E c \in Callers : PullStep(c) \/ StepThrows(c) \/ StepDies(c)
  \/ \E c \in Pages : StartCalled(c) \/ StepCalled(c)
  \/ \E c \in Ticks : ScheduleCalled(c)

PullSpec == PullInit /\ [][PullNext]_pullVars

(* The dispatcher calls again and again; a call goes on unless it dies; a   *)
(* lease nobody renews runs out.                                            *)
PullFairness ==
  /\ WF_pullVars(\E c \in Ticks : ScheduleCalled(c)) /\ WF_pullVars(LeaseRunsOut)
  /\ \A c \in Callers : WF_pullVars(PullStep(c))

-----------------------------------------------------------------------------
States == [rosters : BOOLEAN, next : 0 .. Learners]
AskingPcs == {"idle", "insert", "latest", "start", "advance", "claim"}

PullTypeOK ==
  /\ pull \in [id : 0 .. MaxPulls, status : {"none", "running", "succeeded", "failed"}, state : States,
               lease : {"free", "live", "over"}, stale : BOOLEAN, recent : BOOLEAN]
  /\ snapshot \in [id : 0 .. MaxPulls, learners : 0 .. Learners]
  /\ step \in [Callers -> [pc : AskingPcs \cup WorkingPcs, id : 0 .. MaxPulls, state : States, moved : BOOLEAN]]
  /\ overrun \subseteq 0 .. MaxPulls
  /\ pullLeft \in [pulls : 0 .. MaxPulls, faults : 0 .. MaxPullFaults]

(* As long as no step of its pull outlasted its lease, a step at work works *)
(* alone, and on the pull that runs under a live lease, whichever steps     *)
(* died, paused, threw or were given up before.                             *)
OneStepWorks ==
  \A c \in Callers : step[c].pc \in WorkingPcs /\ step[c].id \notin overrun =>
    /\ Running /\ pull.id = step[c].id /\ pull.lease = "live"
    /\ \A d \in Callers \ {c} : ~WorksOn(d, step[c].id)

(* pull.ts, advancePull: every step of a pull is taken under a lease, "so   *)
(* two never fetch at once".                                                *)
TwoNeverFetchAtOnce ==
  \A c, d \in Callers : PullAt(c, "work") /\ PullAt(d, "work") => c = d

(* What a pull that is called a success fetched is what the pages show, all *)
(* learners of it, even after steps that died half-way and a later pull     *)
(* that failed; only a step that outlasted its lease may put an earlier     *)
(* pull's snapshot back, and that one is whole as well.                     *)
SuccessIsShown ==
  /\ pull.status = "succeeded" => snapshot.id = pull.id \/ snapshot.id \in overrun
  /\ pull.status = "succeeded" \/ snapshot.id > 0 => snapshot.learners = Learners

(* A pull comes to an end: steps make headway, and a dead one's lease runs  *)
(* out.                                                                     *)
PullEnds == Running ~> ~Running
=============================================================================
