------------------------ MODULE WorkshopRunsStanding ------------------------
(***************************************************************************)
(* What stands for a run in other services, for every value of the         *)
(* constants: a run is marked destroyed or dropped only with nothing left  *)
(* standing, and shown as live only with what it needs.                    *)
(***************************************************************************)
EXTENDS WorkshopRunsOwnership

-----------------------------------------------------------------------------
(* What may stand, by where the run is.                                    *)

Gone(r) == row[r].status = "deleted"
Rest == {"harness", "account", "stray"}

(* An update asks for a cloud at least, when every booking does.            *)
WantsFit ==
  {} \notin Bookings =>
    \A q \in Requests : req[q].pc = "write" /\ req[q].op = "update" => req[q].want # {}

(* The row tells what to tear down: the clouds column names every layer,    *)
(* the roster knows the account, the org unit path is known before anything *)
(* is made in it; and nothing stands before the first provision and after   *)
(* the teardown.                                                            *)
RowTells(r) ==
  /\ Exists(r) => /\ row[r].clouds # {}
                  /\ row[r].expires # NoExpiry => row[r].ou
                  /\ standing[r] \subseteq row[r].clouds \cup Rest
  /\ "account" \in standing[r] => r \in roster
  /\ standing[r] \cap {"account", "stray"} # {} => row[r].ou
  /\ row[r].status \in {"unbooked", "scheduled", "destroyed", "deleted"} \/ r \in due => standing[r] = {}

(* A first start finds nothing standing, and an execution knows no layer    *)
(* that the row does not name.                                              *)
HandsTell(r) ==
  /\ \A q \in Requests : Calls(q, r) /\ req[q].op = "startNow" => standing[r] = {}
  /\ \A e \in Executions : Holds(e, r) /\ ~At(e, "queued") =>
       /\ exec[e].units \subseteq row[r].clouds
       /\ ~At(e, "orgUnit") => row[r].ou

(* What a teardown has not come to yet.                                     *)
Left(x) ==
  CASE Step(x) = "clouds" -> reaper[x].units \cup Rest
    [] Step(x) = "harness" -> Rest
    [] Step(x) = "accounts" -> {"account", "stray"}
    [] Step(x) = "orgUnit" -> {"stray"}
    [] Step(x) \in {"forget", "finish", "mark"} -> {}
    [] OTHER -> Thing

(* The listed copy of the row still tells of the org unit.                  *)
ListingTells(x, r) ==
  /\ reaper[x].listed[r].status = "ready" => reaper[x].listed[r].ou
  /\ reaper[x].listed[r].ou = row[r].ou \/ Gone(r)

TearsTell(r) ==
  \A x \in Reapers :
    /\ Lists(x, r) => ListingTells(x, r)
    /\ TearingDown(x, r) => /\ standing[r] \subseteq Left(x)
                            /\ Step(x) = "clouds" => reaper[x].units # {}

LeftInv == \A r \in Runs \ stale : RowTells(r) /\ HandsTell(r) /\ TearsTell(r)

(* A step after which r is in the hands it was in, and no more stands.      *)
HandsStay(r) ==
  /\ \A q \in Requests : Calls(q, r)' /\ req'[q].op = "startNow" =>
       standing[r] = {} \/ (Calls(q, r) /\ req[q].op = "startNow")
  /\ \A e \in Executions : Holds(e, r)' /\ ~At(e, "queued")' => Holds(e, r) /\ exec'[e] = exec[e]

TearsStay(r) ==
  \A x \in Reapers :
    /\ Lists(x, r)' => Lists(x, r) /\ reaper'[x].listed[r] = reaper[x].listed[r]
    /\ TearingDown(x, r)' => TearingDown(x, r) /\ Step(x)' = Step(x) /\ reaper'[x].units = reaper[x].units

StillTells(r) ==
  /\ row'[r] = row[r]
  /\ standing'[r] \subseteq standing[r]
  /\ r \in roster => r \in roster' \/ "account" \notin standing'[r]
  /\ r \in due' => r \in due

LEMMA HandsStillTell ==
  ASSUME NEW r \in Runs, HandsTell(r), HandsStay(r),
         row'[r].clouds = row[r].clouds, row'[r].ou = row[r].ou, standing'[r] \subseteq standing[r]
  PROVE  HandsTell(r)'
  <1>1. \A e \in Executions : At(e, "queued")' <=> exec'[e].pc = "queued"
    BY DEF At
  <1>2. \A e \in Executions : At(e, "orgUnit")' <=> exec'[e].pc = "orgUnit"
    BY DEF At
  <1> QED
    BY <1>1, <1>2 DEF HandsTell, HandsStay, At

LEMMA TearsStillTell ==
  ASSUME NEW r \in Runs, TearsTell(r), TearsStay(r),
         row'[r].ou = row[r].ou \/ row'[r].status = "deleted", Gone(r) => Gone(r)',
         standing'[r] \subseteq standing[r]
  PROVE  TearsTell(r)'
  <1>1. \A x \in Reapers : TearingDown(x, r)' => Left(x)' = Left(x)
    BY DEF TearsStay, Left
  <1> QED
    BY <1>1 DEF TearsTell, TearsStay, ListingTells, Gone

LEMMA StillLeft ==
  ASSUME NEW r \in Runs, RowTells(r), HandsTell(r), TearsTell(r), StillTells(r), HandsStay(r), TearsStay(r)
  PROVE  RowTells(r)' /\ HandsTell(r)' /\ TearsTell(r)'
  <1>1. RowTells(r)'
    BY DEF RowTells, StillTells, Exists
  <1> QED
    BY <1>1, HandsStillTell, TearsStillTell DEF StillTells, Gone

LEMMA WantsStayFit ==
  ASSUME TypeInv, WantsFit, [Next]_vars
  PROVE  WantsFit'
  <1>1. row \in [Runs -> Row]
    BY DEF TypeInv, TypeOK
  <1> SUFFICES ASSUME {} \notin Bookings, NEW q \in Requests, (req[q].pc = "write" /\ req[q].op = "update")'
               PROVE  req'[q].want # {}
    BY DEF WantsFit
  <1>2. CASE req'[q] = req[q]
    BY <1>2 DEF WantsFit
  <1>3. ASSUME NEW p \in Requests, ReadFor(p) \/ ClaimStart(p) \/ ApiWrite(p) \/ ApiCrash(p)
        PROVE  req'[q].want # {}
    <2>1. /\ \A o \in Requests \ {p} : req'[o] = req[o]
          /\ \/ ApiReads(p) \/ ApiClaims(p) \/ ApiWrites(p) \/ ApiReprovisions(p)
             \/ ApiTriggers(p) \/ ApiRollsBack(p) \/ ApiDies(p)
      BY <1>3, ApiMoves
    <2>2. req[p] \in ReqState /\ DoneReq.pc = "done"
      BY DEF TypeInv, TypeOK, DoneReq
    <2>3. CASE p = q /\ ApiReads(p)
      <3>1. PICK r \in Runs, op \in Ops \ {"startNow", "retry"} :
              \E want \in IF op = "update" THEN Bookings \cup {Clouds} ELSE {{}} :
                /\ Accepts(op, row[r], want)
                /\ req'[p] = [pc |-> "write", op |-> op, run |-> r, seen |-> row[r], want |-> want]
        BY <2>3 DEF ApiReads
      <3>2. PICK want \in IF op = "update" THEN Bookings \cup {Clouds} ELSE {{}} :
                /\ Accepts(op, row[r], want)
                /\ req'[p] = [pc |-> "write", op |-> op, run |-> r, seen |-> row[r], want |-> want]
        BY <3>1
      <3>3. op = "update" /\ req'[q].want = want
        BY <2>3, <3>2
      <3>4. want # row[r].clouds /\ row[r].clouds \subseteq Clouds
        BY <1>1, <3>2, <3>3 DEF Accepts, Row
      <3> QED
        BY <3>2, <3>3, <3>4
    <2>4. CASE p = q /\ ApiClaims(p)
      BY <2>4 DEF ApiClaims, IdleReq
    <2>5. CASE p = q /\ (ApiWrites(p) \/ ApiReprovisions(p) \/ ApiTriggers(p) \/ ApiRollsBack(p) \/ ApiDies(p))
      BY <2>2, <2>5 DEF ApiWrites, ApiReprovisions, ApiTriggers, ApiRollsBack, ApiDies, ReqState
    <2> QED
      BY <1>2, <2>1, <2>3, <2>4, <2>5
  <1>4. CASE SchedulerNext \/ RunnerNext \/ ReaperNext \/ Tick \/ UNCHANGED vars
    BY <1>2, <1>4, SchedulerMoves, RunnerMoves, ReaperMoves DEF RunnerNext, ReaperNext, Tick, vars
  <1>5. ASSUME NEW r \in Runs, CreateScheduledRun(r)
        PROVE  UNCHANGED req
    BY <1>5 DEF CreateScheduledRun
  <1> QED
    BY <1>2, <1>3, <1>4, <1>5 DEF Next, ApiNext

-----------------------------------------------------------------------------
(* What an execution makes, the row tells of.                              *)
LEMMA RunnerLeft ==
  ASSUME TypeInv, ExpiryInv, Owned, LeftInv, NEW e \in Executions,
         RunnerStep(e) \/ RunnerLateVerdict(e) \/ RunnerFail(e) \/ RunnerCrash(e)
  PROVE  LeftInv'
  <1>1. /\ row \in [Runs -> Row] /\ exec[e] \in Exec /\ standing \in [Runs -> SUBSET Thing]
        /\ Null \notin Runs
    BY ConstantsAssumption DEF TypeInv, TypeOK
  <1>2. PICK r \in Runs :
          /\ r = RunOf(e) /\ OthersKept(r)
          /\ UNCHANGED <<now, reaping, req, due, died, resets>>
          /\ \A d \in Executions \ {e} : exec'[d] = exec[d]
          /\ RunnerAdvances(e) \/ RunnerLeaves(e) \/ RunnerConcludes(e)
    BY RunnerMoves
  <1>3. \/ RunnerAdvances(e) /\ RunOf(e)' = r /\ exec'[e].pc \in BuildSteps
        \/ exec'[e].pc \in {"announce", "done"} /\ ~RunnerAdvances(e)
    BY <1>2, AdvanceStays, LeavingLetsGo DEF BuildSteps
  <1>4. \A q \in Runs \ stale' : q \notin stale
    BY <1>2, ConcludingKeeps DEF RunnerAdvances, RunnerLeaves
  <1>5. \A q \in Runs : /\ TearsStay(q)
                        /\ \A o \in Requests : Calls(o, q)' => Calls(o, q) /\ req'[o].op = req[o].op
    BY <1>2 DEF TearsStay, reaping, Lists, TearingDown, Step, Cur, Calls
  <1>6. ASSUME NEW q \in Runs \ stale', q # r
        PROVE  RowTells(q)' /\ HandsTell(q)' /\ TearsTell(q)'
    <2>1. q \notin stale /\ StillTells(q)
      BY <1>2, <1>4, <1>6 DEF OthersKept, StillTells
    <2>2. HandsStay(q)
      BY <1>2, <1>3, <1>5, <1>6 DEF HandsStay, Holds, RunOf, BuildSteps
    <2> QED
      BY <1>5, <2>1, <2>2, StillLeft DEF LeftInv
  <1>8. ASSUME r \notin stale', RunnerConcludes(e)
        PROVE  RowTells(r)' /\ HandsTell(r)' /\ TearsTell(r)'
    <2>1. r \notin stale /\ RowTells(r) /\ HandsTell(r) /\ TearsTell(r)
      BY <1>2, <1>4, <1>8 DEF LeftInv
    <2>2. HandsStay(r)
      BY <1>2, <1>5, <1>8, LeavingLetsGo DEF HandsStay, Holds, RunOf, BuildSteps
    <2>3. /\ row'[r].clouds = row[r].clouds /\ row'[r].expires = row[r].expires
          /\ row'[r].ou = row[r].ou /\ StandingKept(r)
          /\ \/ row'[r] = row[r]
             \/ row[r].status = "ready" /\ row'[r].status \in {"ready", "failed"}
      BY <1>2, <1>8, ConcludingKeeps
    <2>4. RowTells(r)'
      BY <1>2, <2>1, <2>3 DEF RowTells, Exists, NoRow, StandingKept
    <2>5. HandsTell(r)'
      BY <2>1, <2>2, <2>3, HandsStillTell DEF StandingKept
    <2>6. TearsTell(r)'
      BY <1>5, <2>1, <2>3, TearsStillTell DEF StandingKept, Gone
    <2> QED
      BY <2>4, <2>5, <2>6
  <1>7. ASSUME r \notin stale', RunnerAdvances(e) \/ RunnerLeaves(e)
        PROVE  RowTells(r)' /\ HandsTell(r)' /\ TearsTell(r)'
    <2>1. /\ r \notin stale /\ Holds(e, r) /\ row[r] \in Row
          /\ OneHand(r) /\ GoingDown(r) /\ RowTells(r) /\ HandsTell(r) /\ TearsTell(r)
      BY <1>1, <1>2, <1>4, <1>7, AdvanceStays, LeavingLetsGo DEF Holds, Owned, LeftInv
    <2>2. /\ row[r].status \in InFlight /\ r \notin due'
          /\ \A q \in Requests : ~Calls(q, r)'
          /\ \A d \in Executions : Holds(d, r) => d = e
          /\ \A x \in Reapers : ~TearingDown(x, r)' /\ (Lists(x, r)' => ListingTells(x, r) /\ ListedFits(x, r)
                                                           /\ reaper'[x] = reaper[x])
      <3>1. row[r].status \in InFlight /\ \A d \in Executions : Holds(d, r) => d = e
        BY <2>1 DEF OneHand, InFlight
      <3>2. r \notin due' /\ \A q \in Requests : ~Calls(q, r)'
        BY <1>2, <1>5, <2>1 DEF OneHand
      <3>3. \A x \in Reapers : Lists(x, r)' => ListingTells(x, r) /\ ListedFits(x, r) /\ reaper'[x] = reaper[x]
        BY <1>2, <1>5, <2>1 DEF TearsStay, TearsTell, GoingDown, reaping
      <3>4. \A x \in Reapers : ~TearingDown(x, r)'
        BY <1>5, <2>1, <3>1 DEF TearsStay, GoingDown, InFlight
      <3> QED
        BY <3>1, <3>2, <3>3, <3>4
    <2>3. Exists(r) /\ row[r].status # "deleted"
      BY <2>2 DEF Exists, InFlight, NoRow
    (* What stands is told of by the row as it was.                          *)
    <2>4. /\ standing'[r] \subseteq row[r].clouds \cup Rest
          /\ "account" \in standing'[r] => r \in roster'
          /\ standing'[r] \cap {"account", "stray"} # {} => row[r].ou
      <3> USE <2>1, <2>3
      <3>1. CASE StandingKept(r)
        BY <3>1 DEF StandingKept, RowTells
      <3>2. CASE At(e, "accounts") /\ r \in roster' /\ standing'[r] \subseteq standing[r] \cup {"account"}
        BY <3>2 DEF RowTells, HandsTell, Rest, At
      <3>3. CASE standing'[r] \subseteq standing[r] \cup {"harness"} /\ (r \in roster' <=> r \in roster)
        BY <3>3 DEF RowTells, Rest
      <3>4. CASE /\ At(e, "clouds") /\ (r \in roster' <=> r \in roster)
                 /\ standing'[r] \subseteq standing[r] \cup exec[e].units
        <4>1. exec[e].units \subseteq row[r].clouds /\ row[r].clouds \subseteq Clouds /\ row[r].ou
          BY <3>4 DEF HandsTell, At, Row
        <4>2. "account" \notin Clouds /\ "stray" \notin Clouds
          BY ConstantsAssumption
        <4> QED
          BY <3>4, <4>1, <4>2 DEF RowTells, Rest
      <3>5. CASE /\ At(e, "accounts") /\ (r \in roster' <=> r \in roster)
                 /\ standing'[r] \subseteq standing[r] \cup {"stray"}
        BY <3>5 DEF RowTells, HandsTell, Rest, At
      <3>6. CASE RunnerAdvances(e)
        <4>1. CASE At(e, "queued") \/ At(e, "orgUnit")
          BY <1>2, <3>1, <3>6, <4>1 DEF RunnerAdvances, At
        <4>2. CASE At(e, "accounts")
          BY <1>2, <3>2, <3>6, <4>2 DEF RunnerAdvances, At
        <4>3. CASE At(e, "harness")
          BY <1>2, <3>3, <3>6, <4>3 DEF RunnerAdvances, At
        <4>4. CASE At(e, "clouds")
          BY <1>2, <3>4, <3>6, <4>4 DEF RunnerAdvances, At
        <4> QED
          BY <3>6, <4>1, <4>2, <4>3, <4>4 DEF RunnerAdvances
      <3>7. CASE RunnerLeaves(e)
        <4>1. /\ r \in roster' <=> r \in roster
              /\ standing'[r] = standing[r] \/ \E part \in SUBSET Halfway(e) : standing'[r] = standing[r] \cup part
          BY <1>2, <3>7 DEF RunnerLeaves
        <4>2. CASE standing'[r] = standing[r]
          BY <3>1, <4>1, <4>2 DEF StandingKept
        <4>3. CASE \E part \in SUBSET Halfway(e) : standing'[r] = standing[r] \cup part
          <5>1. Halfway(e) = IF At(e, "accounts") THEN {"stray"}
                             ELSE IF At(e, "harness") THEN {"harness"}
                             ELSE IF At(e, "clouds") THEN exec[e].units ELSE {}
            BY DEF Halfway, At
          <5>2. CASE At(e, "accounts")
            BY <3>5, <4>1, <4>3, <5>1, <5>2
          <5>3. CASE At(e, "harness")
            BY <3>3, <4>1, <4>3, <5>1, <5>3 DEF At
          <5>4. CASE At(e, "clouds")
            BY <3>4, <4>1, <4>3, <5>1, <5>4 DEF At
          <5>5. CASE ~At(e, "accounts") /\ ~At(e, "harness") /\ ~At(e, "clouds")
            BY <3>1, <4>1, <4>3, <5>1, <5>5 DEF StandingKept
          <5> QED
            BY <5>2, <5>3, <5>4, <5>5
        <4> QED
          BY <4>1, <4>2, <4>3
      <3> QED
        BY <1>7, <3>6, <3>7
    (* The row: its clouds stay, an end time comes with the org unit.        *)
    <2>5. /\ row'[r].clouds = row[r].clouds
          /\ row'[r].status \in InFlight \cup {"ready", "failed"}
      BY <1>2, <1>7, <2>1, <2>2, RunnerKeeps DEF InFlight
    <2>6. /\ row[r].ou => row'[r].ou
          /\ At(e, "orgUnit") /\ RunnerAdvances(e) => row'[r].ou
          /\ row'[r].ou = row[r].ou \/ At(e, "orgUnit")
          /\ row'[r].expires # NoExpiry => row'[r].ou
      <3>1. row[r].expires # NoExpiry => row[r].ou
        BY <2>1, <2>3 DEF RowTells
      <3>2. CASE RunnerAdvances(e)
        <4>1. CASE At(e, "orgUnit")
          <5>1. row'[r] = SetOrgUnitPath(row[r])
            BY <1>2, <3>2, <4>1 DEF RunnerAdvances, At
          <5> QED
            BY <2>1, <4>1, <5>1 DEF SetOrgUnitPath, Row
        <4>2. CASE ~At(e, "orgUnit")
          <5>1. row'[r] \in {row[r], SetProvisioning(row[r]), SetApplying(row[r])}
            BY <1>2, <3>2, <4>2 DEF RunnerAdvances, At
          <5>2. row'[r].ou = row[r].ou /\ row'[r].expires = row[r].expires
            BY <2>1, <5>1 DEF SetProvisioning, SetApplying, Row
          <5> QED
            BY <3>1, <4>2, <5>2
        <4> QED
          BY <4>1, <4>2
      <3>3. CASE RunnerLeaves(e)
        <4>1. row'[r].ou = row[r].ou
          BY <1>2, <3>3, RunnerKeeps
        <4>2. ~RunnerAdvances(e)
          BY <3>3, AdvanceStays, LeavingLetsGo DEF BuildSteps
        <4>3. CASE At(e, "clouds")
          BY <2>1, <4>1, <4>2, <4>3 DEF HandsTell, At
        <4>4. CASE ~At(e, "clouds")
          <5>1. row'[r] \in {row[r], Caught(e, row[r])}
            BY <1>2, <3>3, <4>4 DEF RunnerLeaves
          <5>2. row'[r].expires = row[r].expires
            BY <2>1, <5>1 DEF Caught, SetLiveError, SetFailed, Row
          <5> QED
            BY <3>1, <4>1, <4>2, <5>2
        <4> QED
          BY <4>3, <4>4
      <3> QED
        BY <1>7, <3>2, <3>3
    <2>7. RowTells(r)'
      <3>1. standing'[r] \cap {"account", "stray"} # {} => row'[r].ou
        BY <2>4, <2>6
      <3>2. /\ row'[r].clouds # {}
            /\ row'[r].status \notin {"unbooked", "scheduled", "destroyed", "deleted"}
        BY <2>1, <2>3, <2>5 DEF RowTells, InFlight
      <3> QED
        BY <2>2, <2>4, <2>5, <2>6, <3>1, <3>2 DEF RowTells
    <2>8. HandsTell(r)'
      <3>1. ASSUME NEW d \in Executions, Holds(d, r)', ~At(d, "queued")'
            PROVE  exec'[d].units \subseteq row'[r].clouds /\ (~At(d, "orgUnit")' => row'[r].ou)
        <4>1. d = e /\ RunnerAdvances(e)
          BY <1>2, <1>3, <2>2, <3>1 DEF Holds, RunOf, BuildSteps
        <4>2. CASE At(e, "queued")
          <5>1. exec'[e].pc = "orgUnit" /\ exec'[e].units = Units(row[r].clouds)
            BY <1>2, <4>1, <4>2 DEF RunnerAdvances, At
          <5>2. Units(row[r].clouds) = row[r].clouds
            BY <2>1, <2>3 DEF RowTells, Units
          <5> QED
            BY <2>5, <4>1, <5>1, <5>2 DEF At
        <4>3. CASE ~At(e, "queued")
          <5>1. exec[e].units \subseteq row[r].clouds /\ (~At(e, "orgUnit") => row[r].ou)
            BY <2>1, <4>3 DEF HandsTell
          <5>2. exec'[e].units \subseteq exec[e].units
            <6>1. CASE At(e, "orgUnit") \/ At(e, "accounts") \/ At(e, "harness")
              <7>1. PICK pc : exec'[e] = [exec[e] EXCEPT !.pc = pc]
                BY <4>1, <4>3, <6>1 DEF RunnerAdvances, At
              <7> QED
                BY <1>1, <7>1 DEF Exec
            <6>2. CASE At(e, "clouds")
              <7>1. PICK u : exec'[e] = [exec[e] EXCEPT !.units = exec[e].units \ {u}]
                BY <4>1, <4>3, <6>2 DEF RunnerAdvances, At
              <7> QED
                BY <1>1, <7>1 DEF Exec
            <6> QED
              BY <4>1, <4>3, <6>1, <6>2 DEF RunnerAdvances
          <5> QED
            BY <2>5, <2>6, <4>1, <5>1, <5>2
        <4> QED
          BY <4>2, <4>3
      <3> QED
        BY <2>2, <3>1 DEF HandsTell
    <2>9. TearsTell(r)'
      <3>1. ASSUME NEW x \in Reapers, Lists(x, r)'
            PROVE  ListingTells(x, r)'
        <4>1. /\ ListingTells(x, r) /\ reaper'[x].listed[r] = reaper[x].listed[r]
              /\ reaper[x].listed[r].status = "ready"
          BY <2>2, <3>1 DEF ListedFits, Down, InFlight
        <4> QED
          BY <2>3, <2>6, <4>1 DEF ListingTells, Gone
      <3> QED
        BY <2>2, <3>1 DEF TearsTell
    <2> QED
      BY <2>7, <2>8, <2>9
  <1> QED
    BY <1>2, <1>6, <1>7, <1>8 DEF LeftInv

(* A row that changes its status, and of the rest of the row at most what   *)
(* it may be extended by, still tells of what stands.                       *)
LEMMA StatusLeft ==
  ASSUME NEW r \in Runs, RowTells(r), HandsTell(r), TearsTell(r), HandsStay(r), TearsStay(r),
         Exists(r), standing'[r] = standing[r], r \in roster' <=> r \in roster,
         row'[r].clouds = row[r].clouds, row'[r].ou = row[r].ou,
         row'[r].expires # NoExpiry => row[r].expires # NoExpiry,
         row'[r].status \in {"unbooked", "scheduled", "destroyed", "deleted"} \/ r \in due' =>
           standing[r] = {}
  PROVE  RowTells(r)' /\ HandsTell(r)' /\ TearsTell(r)'
  <1>1. RowTells(r)'
    BY DEF RowTells
  <1>2. HandsTell(r)'
    BY HandsStillTell
  <1>3. ~Gone(r)
    BY DEF Gone, Exists, NoRow
  <1>4. TearsTell(r)'
    BY <1>3, TearsStillTell
  <1> QED
    BY <1>1, <1>2, <1>4

(* The scheduler hands over what nothing stands for yet.                    *)
LEMMA SchedulerLeft ==
  ASSUME TypeInv, Owned, LeftInv, SchedulerNext \/ Tick \/ UNCHANGED vars
  PROVE  LeftInv'
  <1>1. row \in [Runs -> Row] /\ due \subseteq Runs /\ exec \in [Executions -> Exec]
    BY DEF TypeInv, TypeOK
  <1>2. UNCHANGED <<roster, standing, reaping, req, history>>
    BY SchedulerMoves DEF Tick, vars, tables, outside
  <1> SUFFICES ASSUME NEW r \in Runs \ stale' PROVE RowTells(r)' /\ HandsTell(r)' /\ TearsTell(r)'
    BY DEF LeftInv
  <1>3. /\ r \notin stale /\ OneHand(r) /\ RowTells(r) /\ HandsTell(r) /\ TearsTell(r)
        /\ row[r] \in Row
    BY <1>1, <1>2 DEF history, Owned, LeftInv
  <1>4. TearsStay(r) /\ \A q \in Requests : Calls(q, r)' => Calls(q, r) /\ req'[q].op = req[q].op
    BY <1>2 DEF TearsStay, reaping, Lists, TearingDown, Step, Cur, Calls
  <1>5. HandsStay(r)
    <2>1. CASE UNCHANGED exec
      BY <1>4, <2>1 DEF HandsStay, Holds, RunOf, At
    <2>2. CASE \E e \in Executions, p \in Runs : Queues(e, p)
      <3>1. PICK e \in Executions, p \in Runs : Queues(e, p)
        BY <2>2
      <3>2. exec'[e].pc = "queued" /\ \A d \in Executions \ {e} : exec'[d] = exec[d]
        BY <1>1, <3>1 DEF Queues, Exec
      <3> QED
        BY <1>4, <3>2 DEF HandsStay, Holds, RunOf, At
    <2> QED
      BY <1>1, <2>1, <2>2, SchedulerMoves
      DEF SchedulerClaims, SchedulerQueues, SchedulerPutsBack, Tick, vars
  <1>6. ASSUME row'[r] = row[r], r \in due' => r \in due
        PROVE  RowTells(r)' /\ HandsTell(r)' /\ TearsTell(r)'
    BY <1>2, <1>3, <1>4, <1>5, <1>6, StillLeft DEF StillTells
  <1>7. CASE SchedulerNext /\ SchedulerClaims
    <2>1. CASE r \in due'
      <3>1. row[r].status = "scheduled" /\ row'[r] = [row[r] EXCEPT !.status = "requested"]
        BY <1>7, <2>1 DEF SchedulerClaims, DueToStart
      <3>2. Exists(r) /\ standing[r] = {}
        BY <1>3, <3>1 DEF Exists, NoRow, RowTells
      <3>3. /\ row'[r].clouds = row[r].clouds /\ row'[r].ou = row[r].ou
            /\ row'[r].expires = row[r].expires
        BY <1>3, <3>1 DEF Row
      <3> QED
        BY <1>2, <1>3, <1>4, <1>5, <3>2, <3>3, StatusLeft
    <2> QED
      BY <1>6, <1>7, <2>1 DEF SchedulerClaims
  <1>8. CASE SchedulerNext /\ SchedulerPutsBack
    <2>1. PICK p \in due : /\ Exists(p) /\ due' = due \ {p}
                           /\ row'[p] = SetScheduledBack(row[p])
                           /\ \A q \in Runs \ {p} : row'[q] = row[q]
      BY <1>8 DEF SchedulerPutsBack
    <2>2. CASE r = p
      <3>1. standing[r] = {}
        BY <1>3, <2>1, <2>2 DEF RowTells
      <3>2. /\ row'[r].clouds = row[r].clouds /\ row'[r].ou = row[r].ou
            /\ row'[r].expires = row[r].expires
        BY <1>3, <2>1, <2>2 DEF Row, SetScheduledBack
      <3> QED
        BY <1>2, <1>3, <1>4, <1>5, <2>1, <2>2, <3>1, <3>2, StatusLeft
    <2> QED
      BY <1>6, <2>1, <2>2
  <1>9. CASE due' \subseteq due /\ UNCHANGED row
    BY <1>6, <1>9
  <1> QED
    BY <1>7, <1>8, <1>9, SchedulerMoves DEF SchedulerQueues, Tick, vars, tables

(* A booking names a cloud, and nothing stands for it.                      *)
LEMMA BookingLeft ==
  ASSUME {} \notin Bookings, TypeInv, LeftInv, Owned, NEW p \in Runs, CreateScheduledRun(p)
  PROVE  LeftInv'
  <1>1. /\ row[p].status = "unbooked" /\ row \in [Runs -> Row]
        /\ UNCHANGED <<roster, standing, reaping, exec, req, due, stale>>
    BY DEF CreateScheduledRun, apiFrame, outside, history, TypeInv, TypeOK
  <1>2. PICK w : /\ w.clouds # {} /\ w.expires = NoExpiry /\ w.ou = FALSE
                 /\ row' = [row EXCEPT ![p] = w]
    <2>1. PICK clouds \in Bookings, start \in StartDays :
            row' = [row EXCEPT ![p] = [Unbooked EXCEPT !.status = "scheduled", !.ttl = DEFAULT_TTL,
                                                       !.start = start, !.clouds = clouds]]
      BY DEF CreateScheduledRun
    <2> QED
      BY <2>1 DEF Unbooked
  <1> SUFFICES ASSUME NEW r \in Runs \ stale' PROVE RowTells(r)' /\ HandsTell(r)' /\ TearsTell(r)'
    BY DEF LeftInv
  <1>3. r \notin stale /\ RowTells(r) /\ HandsTell(r) /\ TearsTell(r) /\ OneHand(r) /\ GoingDown(r)
    BY <1>1 DEF LeftInv, Owned
  <1>4. HandsStay(r) /\ TearsStay(r)
    BY <1>1 DEF HandsStay, TearsStay, reaping, Calls, Holds, RunOf, At, Lists, TearingDown, Step, Cur
  <1>5. CASE r = p
    <2>1. row'[r] = w /\ standing[r] = {}
      BY <1>1, <1>2, <1>3, <1>5 DEF RowTells
    <2>2. /\ \A q \in Requests : ~Calls(q, r)
          /\ \A e \in Executions : ~Holds(e, r)
          /\ \A x \in Reapers : ~Lists(x, r) /\ ~TearingDown(x, r)
      BY <1>1, <1>3, <1>5, NoHands DEF InFlight, GoingDown, ListedFits
    <2>3. RowTells(r)'
      BY <1>1, <1>2, <2>1 DEF RowTells
    <2>4. HandsTell(r)' /\ TearsTell(r)'
      <3>1. \A q \in Requests : ~Calls(q, r)'
        BY <1>1, <2>2 DEF Calls
      <3> QED
        BY <1>4, <2>2, <3>1 DEF HandsTell, TearsTell, HandsStay, TearsStay
    <2> QED
      BY <2>3, <2>4
  <1>6. CASE r # p
    <2>1. row'[r] = row[r]
      BY <1>1, <1>2, <1>6
    <2> QED
      BY <1>1, <1>3, <1>4, <2>1, StillLeft DEF StillTells
  <1> QED
    BY <1>5, <1>6

(* A request changes what the row tells of only while nobody is at the run. *)
LEMMA RequestsLeft ==
  ASSUME {} \notin Bookings, TypeInv, ExpiryInv, ReadsFit, WantsFit, Owned, LeftInv, NEW q \in Requests,
         ReadFor(q) \/ ClaimStart(q) \/ ApiWrite(q) \/ ApiCrash(q)
  PROVE  LeftInv'
  <1>1. row \in [Runs -> Row] /\ exec \in [Executions -> Exec] /\ req[q] \in ReqState
    BY DEF TypeInv, TypeOK
  <1>2. /\ UNCHANGED <<now, reaping, due, standing>>
        /\ \A p \in Requests \ {q} : req'[p] = req[p]
        /\ req[q].pc \notin {"idle", "done"} => req[q].run \in Runs
        /\ \/ ApiReads(q) \/ ApiClaims(q) \/ ApiWrites(q) \/ ApiReprovisions(q)
           \/ ApiTriggers(q) \/ ApiRollsBack(q) \/ ApiDies(q)
    BY ApiMoves
  <1> SUFFICES ASSUME NEW r \in Runs \ stale' PROVE RowTells(r)' /\ HandsTell(r)' /\ TearsTell(r)'
    BY DEF LeftInv
  <1>3. TearsStay(r)
    BY <1>2 DEF TearsStay, reaping, Lists, TearingDown, Step, Cur
  <1>4. ASSUME r \notin stale
        PROVE  OneHand(r) /\ RowTells(r) /\ HandsTell(r) /\ TearsTell(r) /\ row[r] \in Row
    BY <1>1, <1>4 DEF Owned, LeftInv
  <1>5. ASSUME UNCHANGED exec \/ \E e \in Executions, p \in Runs : Queues(e, p),
               Calls(q, r)' /\ req'[q].op = "startNow" =>
                 standing[r] = {} \/ (Calls(q, r) /\ req[q].op = "startNow")
        PROVE  HandsStay(r)
    <2>1. \A e \in Executions : Holds(e, r)' /\ ~At(e, "queued")' => Holds(e, r) /\ exec'[e] = exec[e]
      <3>1. CASE UNCHANGED exec
        BY <3>1 DEF Holds, RunOf, At
      <3>2. CASE \E e \in Executions, p \in Runs : Queues(e, p)
        <4>1. PICK e \in Executions, p \in Runs : Queues(e, p)
          BY <3>2
        <4>2. exec'[e].pc = "queued" /\ \A d \in Executions \ {e} : exec'[d] = exec[d]
          BY <1>1, <4>1 DEF Queues, Exec
        <4> QED
          BY <4>2 DEF Holds, RunOf, At
      <3> QED
        BY <1>5, <3>1, <3>2
    <2> QED
      BY <1>2, <1>5, <2>1 DEF HandsStay, Calls
  <1>6. ASSUME r \notin stale, HandsStay(r), row'[r] = row[r],
               r \in roster => r \in roster' \/ "account" \notin standing'[r]
        PROVE  RowTells(r)' /\ HandsTell(r)' /\ TearsTell(r)'
    BY <1>2, <1>3, <1>4, <1>6, StillLeft DEF StillTells
  <1>7. ASSUME NEW p \in Runs, OnlyWrites(p), HandsStay(r), p # r
        PROVE  RowTells(r)' /\ HandsTell(r)' /\ TearsTell(r)'
    BY <1>6, <1>7 DEF OnlyWrites, OthersKept
  (* A status that r did not need to be torn down from.                      *)
  <1>8. ASSUME r \notin stale, HandsStay(r), Exists(r), r \in roster' <=> r \in roster,
               row'[r].clouds = row[r].clouds, row'[r].ou = row[r].ou,
               row'[r].expires # NoExpiry => row[r].expires # NoExpiry,
               row'[r].status \in {"unbooked", "scheduled", "destroyed", "deleted"} => standing[r] = {}
        PROVE  RowTells(r)' /\ HandsTell(r)' /\ TearsTell(r)'
    <2>1. r \in due' => standing[r] = {}
      BY <1>2, <1>4, <1>8 DEF RowTells
    <2> QED
      BY <1>2, <1>3, <1>4, <1>8, <2>1, StatusLeft
  <1>9. DoneReq.pc = "done"
    BY DEF DoneReq
  <1>10. CASE ApiReads(q) \/ ApiDies(q)
    <2>1. UNCHANGED <<row, roster, exec, stale>> /\ req'[q].pc \in {"write", "done"}
      <3>1. CASE ApiReads(q)
        <4>1. PICK o, p, s, w : req'[q] = [pc |-> "write", op |-> o, run |-> p, seen |-> s, want |-> w]
          BY <3>1 DEF ApiReads
        <4> QED
          BY <3>1, <4>1 DEF ApiReads
      <3> QED
        BY <1>9, <1>10, <3>1 DEF ApiDies
    <2>2. HandsStay(r)
      BY <1>5, <2>1 DEF Calls
    <2> QED
      BY <1>6, <2>1, <2>2
  <1>11. CASE ApiClaims(q)
    <2>1. PICK p \in Runs, op \in {"startNow", "retry"} :
            /\ row[p].status = ClaimFrom(op)
            /\ row'[p] = [row[p] EXCEPT !.status = "requested"]
            /\ OnlyWrites(p) /\ (p \in roster' <=> p \in roster)
            /\ req'[q] = [IdleReq EXCEPT !.pc = "trigger", !.op = op, !.run = p]
      BY <1>11 DEF ApiClaims
    <2>2. r \notin stale /\ UNCHANGED exec /\ req'[q].op = op /\ req'[q].run = p
      BY <1>11, <2>1 DEF ApiClaims, IdleReq
    <2>3. HandsStay(r)
      <3>1. r = p /\ op = "startNow" => standing[r] = {}
        BY <1>4, <2>1, <2>2 DEF ClaimFrom, RowTells
      <3> QED
        BY <1>5, <2>2, <3>1 DEF Calls
    <2>4. CASE r = p
      <3>1. Exists(r) /\ row[r].status \in {"scheduled", "failed"}
        BY <2>1, <2>4 DEF ClaimFrom, Exists, NoRow
      <3>2. /\ row'[r].clouds = row[r].clouds /\ row'[r].ou = row[r].ou
            /\ row'[r].expires = row[r].expires /\ row'[r].status = "requested"
        BY <1>4, <2>1, <2>2, <2>4 DEF Row
      <3> QED
        BY <1>8, <2>1, <2>2, <2>3, <2>4, <3>1, <3>2
    <2> QED
      BY <1>7, <2>1, <2>3, <2>4
  <1>12. CASE ApiReprovisions(q)
    <2>1. PICK p \in Runs : p = req[q].run /\ OnlyWrites(p) /\ (p \in roster' <=> p \in roster)
      BY <1>2, <1>12 DEF ApiReprovisions
    <2>2. r \notin stale /\ UNCHANGED exec /\ req[q].op = "update"
      BY <1>12 DEF ApiReprovisions, ExpiryInv, OpsFit
    <2>3. req'[q] = DoneReq \/ req'[q].op = "update"
      BY <1>1, <1>12, <2>2 DEF ApiReprovisions, ReqState
    <2>4. HandsStay(r)
      BY <1>5, <1>9, <2>2, <2>3 DEF Calls
    <2>5. CASE r = p /\ row[p].status = "ready"
      <3>1. row'[r] = [row[r] EXCEPT !.status = "requested"]
        BY <1>12, <2>1, <2>5 DEF ApiReprovisions
      <3>2. /\ row'[r].clouds = row[r].clouds /\ row'[r].ou = row[r].ou
            /\ row'[r].expires = row[r].expires /\ row'[r].status = "requested" /\ Exists(r)
        BY <1>4, <2>2, <2>5, <3>1 DEF Row, Exists, NoRow
      <3> QED
        BY <1>8, <2>1, <2>2, <2>4, <2>5, <3>2
    <2>6. CASE r = p /\ row[p].status # "ready"
      BY <1>6, <1>12, <2>1, <2>2, <2>4, <2>6 DEF ApiReprovisions
    <2> QED
      BY <1>7, <2>1, <2>4, <2>5, <2>6
  <1>13. CASE ApiTriggers(q)
    <2>1. PICK p \in Runs : p = req[q].run /\ OnlyWrites(p)
      BY <1>2, <1>13 DEF ApiTriggers
    <2>2. UNCHANGED <<row, roster>> /\ r \notin stale
      BY <1>13, <2>1 DEF ApiTriggers, OnlyWrites
    <2>3. UNCHANGED exec \/ \E e \in Executions, o \in Runs : Queues(e, o)
      BY <1>13, <2>1 DEF ApiTriggers
    <2>4. \/ req'[q] = DoneReq
          \/ req'[q].op = req[q].op /\ req'[q].run = req[q].run
      BY <1>1, <1>13 DEF ApiTriggers, ReqState
    <2>5. HandsStay(r)
      BY <1>5, <1>9, <1>13, <2>3, <2>4 DEF Calls, ApiTriggers
    <2> QED
      BY <1>6, <2>2, <2>5
  <1>14. CASE ApiRollsBack(q)
    <2>1. PICK p \in Runs : /\ p = req[q].run /\ OnlyWrites(p) /\ (p \in roster' <=> p \in roster)
                            /\ Calls(q, p) /\ req'[q] = DoneReq /\ UNCHANGED exec
      BY <1>2, <1>14 DEF ApiRollsBack, Calls
    <2>2. r \notin stale /\ HandsStay(r)
      BY <1>5, <1>9, <2>1 DEF Calls, OnlyWrites
    <2>3. CASE r = p
      <3>1. row[r].status = "requested" /\ Exists(r)
        BY <1>4, <2>1, <2>2, <2>3 DEF OneHand, Exists, NoRow
      <3>2. row'[r] = [row[r] EXCEPT !.status = IF req[q].op = "update" THEN "ready" ELSE ClaimFrom(req[q].op)]
        BY <1>14, <2>1, <2>3, <3>1 DEF ApiRollsBack
      <3>3. /\ row'[r].clouds = row[r].clouds /\ row'[r].ou = row[r].ou
            /\ row'[r].expires = row[r].expires
            /\ row'[r].status = IF req[q].op = "update" THEN "ready" ELSE ClaimFrom(req[q].op)
        BY <1>4, <2>2, <3>2 DEF Row
      <3>4. row'[r].status \in {"unbooked", "scheduled", "destroyed", "deleted"} => standing[r] = {}
        BY <1>4, <2>1, <2>2, <2>3, <3>3 DEF ClaimFrom, HandsTell
      <3> QED
        BY <1>8, <2>1, <2>2, <2>3, <3>1, <3>3, <3>4
    <2> QED
      BY <1>7, <2>1, <2>2, <2>3
  <1>15. CASE ApiWrites(q)
    <2>1. PICK p \in Runs : p = req[q].run /\ OnlyWrites(p) /\ req[q].pc = "write" /\ UNCHANGED exec
      BY <1>2, <1>15 DEF ApiWrites
    <2>2. r \notin stale /\ HandsStay(r)
      <3>1. req'[q].pc \in {"done", "reprovision"}
        BY <1>1, <1>9, <1>15 DEF ApiWrites, ReqState
      <3> QED
        BY <1>5, <2>1, <3>1 DEF Calls, OnlyWrites
    <2>3. /\ OneHand(r) /\ RowTells(r) /\ HandsTell(r) /\ TearsTell(r) /\ row[r] \in Row
      BY <1>4, <2>2
    <2>4. CASE r = p /\ ~Exists(r)
      <3>1. standing[r] = {} /\ row'[r] = row[r] /\ standing'[r] = standing[r]
        BY <1>15, <2>1, <2>3, <2>4 DEF ApiWrites, RowTells, Exists, NoRow, OnlyWrites
      <3> QED
        BY <1>6, <2>2, <3>1
    <2>5. CASE r = p /\ Exists(r)
      <3>1. /\ row[r].status = req[q].seen.status /\ row[r].clouds = req[q].seen.clouds
            /\ ApiRewrites(q)
        BY <1>15, <2>1, <2>5, FreshWrite
      <3>2. CASE req[q].op = "extend"
        <4>1. row'[r] = IF req[q].seen.expires # NoExpiry
                        THEN [row[r] EXCEPT !.expires = req[q].seen.expires + EXTENSION]
                        ELSE [row[r] EXCEPT !.ttl = req[q].seen.ttl + EXTENSION]
          BY <2>1, <2>5, <3>1, <3>2 DEF ApiRewrites
        <4>2. req[q].seen.expires # NoExpiry => row[r].expires # NoExpiry
          BY <2>1, <2>5 DEF ExpiryInv, ReqsKnowEnd, Ended, Exists, NoRow
        <4>3. /\ row'[r].clouds = row[r].clouds /\ row'[r].ou = row[r].ou
              /\ row'[r].expires # NoExpiry => row[r].expires # NoExpiry
              /\ row'[r].status = row[r].status
          BY <2>3, <4>1, <4>2 DEF Row
        <4>4. r \in roster' <=> r \in roster
          BY <2>1, <2>5, <3>1, <3>2 DEF ApiRewrites
        <4> QED
          BY <1>8, <2>2, <2>3, <2>5, <4>3, <4>4 DEF RowTells
      <3>3. CASE req[q].op = "end"
        <4>1. row'[r] = [row[r] EXCEPT !.expires = now] /\ (r \in roster' <=> r \in roster)
          BY <2>1, <2>5, <3>1, <3>3 DEF ApiRewrites
        <4>2. row[r].status = "ready" /\ row[r].expires # NoExpiry
          BY <2>1, <2>5, <3>1, <3>3 DEF ReadsFit, ExpiryInv, RowsEnd, Ended
        <4>3. row'[r].clouds = row[r].clouds /\ row'[r].ou = row[r].ou /\ row'[r].status = "ready"
          BY <2>3, <4>1, <4>2 DEF Row
        <4> QED
          BY <1>8, <2>2, <2>5, <4>1, <4>2, <4>3
      <3>4. CASE row'[r] = Deleted /\ r \notin roster' /\ row[r].status \in {"scheduled", "destroyed"}
        <4>1. standing[r] = {} /\ standing'[r] = standing[r]
          BY <1>2, <2>3, <3>4 DEF RowTells
        <4>2. row'[r].status = "deleted"
          BY <3>4 DEF Deleted, Unbooked
        <4>3. /\ \A o \in Requests : ~Calls(o, r)
              /\ \A e \in Executions : ~Holds(e, r)
          BY <2>3, <3>4, NoHands DEF InFlight
        <4>4. RowTells(r)'
          BY <4>1, <4>2 DEF RowTells, Exists, NoRow
        <4>5. HandsTell(r)'
          BY <2>2, <4>1, <4>3 DEF HandsTell, HandsStay
        <4>6. TearsTell(r)'
          BY <1>3, <2>3, <4>1, <4>2, TearsStillTell DEF Gone
        <4> QED
          BY <4>4, <4>5, <4>6
      <3>5. CASE /\ row'[r] \in {DestroyReset(row[r]), [DestroyReset(row[r]) EXCEPT !.del = TRUE]}
                 /\ r \in roster' <=> r \in roster
        <4>1. /\ row'[r].clouds = row[r].clouds /\ row'[r].ou = row[r].ou
              /\ row'[r].expires = row[r].expires /\ row'[r].status = "destroying"
          BY <2>3, <3>5 DEF DestroyReset, Row
        <4> QED
          BY <1>8, <2>2, <2>5, <3>5, <4>1
      (* The one write of the clouds: while scheduled, or to more of them.    *)
      <3>6. CASE req[q].op = "update"
        <4>1. row'[r] = [row[r] EXCEPT !.clouds = req[q].want] /\ (r \in roster' <=> r \in roster)
          BY <2>1, <2>5, <3>1, <3>6 DEF ApiRewrites
        <4>2. /\ row'[r].clouds = req[q].want /\ row'[r].ou = row[r].ou
              /\ row'[r].expires = row[r].expires /\ row'[r].status = row[r].status
          BY <2>3, <4>1 DEF Row
        <4>3. /\ \/ row[r].status = "scheduled"
                 \/ row[r].status = "ready" /\ row[r].clouds \subseteq req[q].want
              /\ req[q].want # {}
          BY <2>1, <3>1, <3>6 DEF ReadsFit, WantsFit
        <4>4. /\ \A o \in Requests : ~Calls(o, r)
              /\ \A e \in Executions : ~Holds(e, r)
              /\ r \notin due
          BY <2>3, <4>3, NoHands DEF InFlight
        <4>5. standing[r] \subseteq req[q].want \cup Rest
          BY <2>3, <2>5, <4>3 DEF RowTells
        <4>6. RowTells(r)'
          BY <1>2, <2>3, <2>5, <4>1, <4>2, <4>3, <4>4, <4>5 DEF RowTells, Exists
        <4>7. HandsTell(r)'
          <5>1. \A e \in Executions : ~(Holds(e, r)' /\ ~At(e, "queued")')
            BY <2>2, <4>4 DEF HandsStay
          <5>2. \A o \in Requests : Calls(o, r)' /\ req'[o].op = "startNow" => standing'[r] = {}
            BY <1>2, <2>2, <4>4 DEF HandsStay
          <5> QED
            BY <5>1, <5>2 DEF HandsTell
        <4>8. TearsTell(r)'
          BY <1>2, <1>3, <2>3, <4>2, TearsStillTell DEF Gone
        <4> QED
          BY <4>6, <4>7, <4>8
      <3>7. req[q].op \in {"delete", "retryTeardown"} =>
              \/ row'[r] = Deleted /\ r \notin roster' /\ row[r].status \in {"scheduled", "destroyed"}
              \/ /\ row'[r] \in {DestroyReset(row[r]), [DestroyReset(row[r]) EXCEPT !.del = TRUE]}
                 /\ r \in roster' <=> r \in roster
        BY <2>1, <2>5, <3>1 DEF ApiRewrites
      <3> QED
        BY <3>1, <3>2, <3>3, <3>4, <3>5, <3>6, <3>7 DEF ApiRewrites
    <2> QED
      BY <1>7, <2>1, <2>2, <2>4, <2>5
  <1> QED
    BY <1>2, <1>10, <1>11, <1>12, <1>13, <1>14, <1>15

(* A teardown removes what the row tells of, in an order that keeps it told. *)
LEMMA ReaperLeft ==
  ASSUME TypeInv, LockHeld, ExpiryInv, Owned, LeftInv, NEW x \in Reapers,
         ReaperStep(x) \/ ReaperThrow(x) \/ ReaperCrash(x)
  PROVE  LeftInv'
  <1>1. /\ row \in [Runs -> Row] /\ reaper \in [Reapers -> ReaperState] /\ reaper[x] \in ReaperState
        /\ standing \in [Runs -> SUBSET Thing] /\ Null \notin Runs
    BY ConstantsAssumption DEF TypeInv, TypeOK
  <1>2. /\ UNCHANGED <<exec, req, due>> /\ stale \subseteq stale'
        /\ \A y \in Reapers \ {x} : reaper'[y] = reaper[y]
        /\ OthersSpared(x)
        /\ \/ ReaperBrowses(x) \/ ReaperStops(x)
           \/ Cur(x) \in Runs /\ (ReaperClaims(x) \/ ReaperWorks(x) \/ ReaperLeaves(x))
    BY ReaperMoves DEF ReaperBrowses, ReaperStops, ReaperClaims, ReaperWorks, ReaperLeaves
  <1> SUFFICES ASSUME NEW r \in Runs \ stale' PROVE RowTells(r)' /\ HandsTell(r)' /\ TearsTell(r)'
    BY DEF LeftInv
  <1>3. /\ r \notin stale /\ RowTells(r) /\ HandsTell(r) /\ TearsTell(r) /\ OneHand(r) /\ GoingDown(r)
        /\ row[r] \in Row
    BY <1>1, <1>2 DEF LeftInv, Owned
  <1>4. HandsStay(r)
    BY <1>2 DEF HandsStay, Calls, Holds, RunOf, At
  <1>5. \A y \in Reapers \ {x} : /\ Lists(y, r)' <=> Lists(y, r)
                                 /\ TearingDown(y, r)' <=> TearingDown(y, r)
                                 /\ reaper'[y] = reaper[y] /\ Step(y)' = Step(y) /\ Left(y)' = Left(y)
    BY <1>2 DEF Lists, TearingDown, Step, Cur, Left
  (* A step away from r.                                                     *)
  <1>6. ASSUME row'[r] = row[r], standing'[r] \subseteq standing[r], r \in roster' <=> r \in roster,
               Lists(x, r)' => Lists(x, r) /\ reaper'[x].listed[r] = reaper[x].listed[r],
               ~TearingDown(x, r)'
        PROVE  RowTells(r)' /\ HandsTell(r)' /\ TearsTell(r)'
    <2>1. TearsStay(r)
      BY <1>5, <1>6 DEF TearsStay
    <2> QED
      BY <1>2, <1>3, <1>4, <1>6, <2>1, StillLeft DEF StillTells
  <1>7. ASSUME reaper'[x] \in {Finished(x), IdleReaper}
        PROVE  /\ Lists(x, r)' => Lists(x, r) /\ reaper'[x].listed[r] = reaper[x].listed[r]
               /\ ~TearingDown(x, r)'
    <2>1. /\ reaper'[x].cur = Null
          /\ \/ reaper'[x].todo = {}
             \/ reaper'[x].todo = reaper[x].todo
                /\ (r \in reaper[x].todo => reaper'[x].listed[r] = reaper[x].listed[r])
      <3>1. CASE reaper'[x] = IdleReaper
        BY <3>1 DEF IdleReaper
      <3>2. CASE reaper'[x] = Finished(x)
        <4>1. /\ reaper'[x].cur = Null /\ reaper'[x].todo = reaper[x].todo
              /\ reaper'[x].listed = [p \in Runs |-> IF p \in reaper[x].todo
                                                     THEN reaper[x].listed[p] ELSE Blank]
          BY <3>2 DEF Finished, IdleReaper
        <4> QED
          BY <4>1
      <3> QED
        BY <1>7, <3>1, <3>2
    <2> QED
      BY <1>1, <2>1 DEF Lists, TearingDown, Step, Cur
  <1>8. CASE ReaperBrowses(x)
    <2>1. UNCHANGED <<row, roster, standing>>
      BY <1>8 DEF ReaperBrowses
    (* A live row that is listed has its org unit path already.               *)
    <2>2. CASE reaper'[x] =
                 [IdleReaper EXCEPT !.pc = "scan", !.todo = {p \in Runs : Reapable(row[p])},
                    !.listed = [p \in Runs |-> IF Reapable(row[p]) THEN Glimpse(row[p]) ELSE Blank]]
      <3>1. /\ reaper'[x].cur = Null /\ reaper'[x].pc = "scan"
            /\ r \in reaper'[x].todo => Reapable(row[r]) /\ reaper'[x].listed[r] = Glimpse(row[r])
        BY <2>2 DEF IdleReaper
      <3>2. ~TearingDown(x, r)' /\ (Lists(x, r)' => r \in reaper'[x].todo)
        BY <1>1, <3>1 DEF TearingDown, Lists, Step, Cur
      <3>3. row[r].status = "ready" => row[r].ou
        BY <1>3 DEF ExpiryInv, RowsEnd, Ended, RowTells, Exists, NoRow
      <3>4. Lists(x, r)' => ListingTells(x, r)'
        BY <2>1, <3>1, <3>2, <3>3 DEF ListingTells, Glimpse
      <3>5. TearsTell(r)'
        BY <1>3, <1>5, <2>1, <3>2, <3>4 DEF TearsTell, ListingTells, Gone
      <3>6. RowTells(r)'
        BY <1>2, <1>3, <2>1 DEF RowTells, Exists
      <3>7. HandsTell(r)'
        BY <1>3, <1>4, <2>1, HandsStillTell
      <3> QED
        BY <3>5, <3>6, <3>7
    <2>3. CASE /\ Step(x) = "scan"
               /\ \E p \in reaper[x].todo :
                    reaper'[x] = [reaper[x] EXCEPT !.pc = "claim", !.cur = p, !.todo = @ \ {p}]
      <3>1. PICK p \in reaper[x].todo :
                   reaper'[x] = [reaper[x] EXCEPT !.pc = "claim", !.cur = p, !.todo = @ \ {p}]
        BY <2>3
      <3>2. /\ reaper'[x].pc = "claim" /\ reaper'[x].cur = p /\ reaper'[x].todo \subseteq reaper[x].todo
            /\ reaper'[x].listed = reaper[x].listed
        BY <1>1, <3>1 DEF ReaperState
      <3> QED
        BY <1>6, <2>1, <3>2 DEF Lists, TearingDown, Step, Cur, TeardownSteps
    <2>4. CASE /\ Step(x) = "scan"
               /\ \E p \in reaper[x].todo :
                    reaper'[x] = [reaper[x] EXCEPT !.todo = @ \ {p}, !.listed[p] = Blank,
                                    !.pc = IF reaper[x].todo \ {p} = {} THEN "idle" ELSE "scan"]
      <3>1. PICK p \in reaper[x].todo :
                   reaper'[x] = [reaper[x] EXCEPT !.todo = @ \ {p}, !.listed[p] = Blank,
                                    !.pc = IF reaper[x].todo \ {p} = {} THEN "idle" ELSE "scan"]
        BY <2>4
      <3>2. /\ reaper'[x].pc \in {"idle", "scan"} /\ reaper'[x].todo = reaper[x].todo \ {p}
            /\ r # p => reaper'[x].listed[r] = reaper[x].listed[r]
        BY <1>1, <3>1 DEF ReaperState
      <3> QED
        BY <1>6, <2>1, <3>2 DEF Lists, TearingDown, Step, Cur, TeardownSteps, LockedSteps
    <2> QED
      BY <1>8, <2>2, <2>3, <2>4 DEF ReaperBrowses
  <1>9. CASE ReaperStops(x)
    BY <1>6, <1>7, <1>9 DEF ReaperStops
  <1>10. ASSUME Cur(x) # r, ReaperClaims(x) \/ ReaperWorks(x) \/ ReaperLeaves(x)
         PROVE  RowTells(r)' /\ HandsTell(r)' /\ TearsTell(r)'
    <2>1. row'[r] = row[r] /\ standing'[r] \subseteq standing[r] /\ (r \in roster' <=> r \in roster)
      BY <1>2, <1>10 DEF OthersSpared
    <2>2. CASE reaper'[x].cur = Cur(x) /\ reaper'[x].todo = reaper[x].todo /\ reaper'[x].listed = reaper[x].listed
      BY <1>6, <1>10, <2>1, <2>2 DEF Lists, TearingDown, Step, Cur
    <2>3. CASE reaper'[x] \in {Finished(x), IdleReaper}
      BY <1>6, <1>7, <2>1, <2>3
    <2> QED
      BY <1>10, <2>2, <2>3, ReaperStays DEF ReaperLeaves
  (* At r.                                                                   *)
  <1>11. ASSUME Cur(x) = r, Step(x) \in LockedSteps
         PROVE  /\ \A y \in Reapers \ {x} : ~TearingDown(y, r)'
                /\ Lists(x, r)
    BY <1>5, <1>11, OneReaper DEF TearingDown, LockedSteps, Lists
  <1>12. ASSUME Cur(x) = r, Step(x) \in LockedSteps,
                row'[r].ou = row[r].ou \/ row'[r].status = "deleted", Gone(r) => Gone(r)',
                Lists(x, r)' => reaper'[x].listed[r] = reaper[x].listed[r],
                TearingDown(x, r)' => /\ standing'[r] \subseteq Left(x)'
                                      /\ Step(x)' = "clouds" => reaper'[x].units # {}
         PROVE  TearsTell(r)'
    <2>1. \A y \in Reapers : Lists(y, r)' => Lists(y, r) /\ reaper'[y].listed[r] = reaper[y].listed[r]
      BY <1>5, <1>11, <1>12
    <2>2. \A y \in Reapers : Lists(y, r)' => ListingTells(y, r)'
      BY <1>3, <1>12, <2>1 DEF TearsTell, ListingTells, Gone
    <2> QED
      BY <1>11, <1>12, <2>2 DEF TearsTell
  <1>13. CASE Cur(x) = r /\ ReaperClaims(x)
    <2>1. /\ Step(x) = "claim" /\ row'[r] = SetDestroyClaim(row[r]) /\ StandingKept(r) /\ Exists(r)
          /\ ~MovedOn(r, reaper[x].listed[r])
      BY <1>13 DEF ReaperClaims, Seen
    <2>2. /\ reaper'[x].pc = "clouds" /\ reaper'[x].units = Units(reaper[x].listed[r].clouds)
          /\ reaper'[x].listed = reaper[x].listed
      BY <1>1, <1>13 DEF ReaperClaims, Seen, ReaperState
    <2>3. /\ row'[r].clouds = row[r].clouds /\ row'[r].ou = row[r].ou
          /\ row'[r].expires = row[r].expires /\ row'[r].status = "destroying"
      BY <1>3, <2>1 DEF SetDestroyClaim, Row
    <2>4. /\ Units(reaper[x].listed[r].clouds) = row[r].clouds /\ row[r].clouds # {}
          /\ standing[r] \subseteq row[r].clouds \cup Rest
      BY <1>3, <2>1 DEF MovedOn, RowTells, Units
    <2>5. RowTells(r)'
      BY <1>2, <1>3, <2>1, <2>3 DEF RowTells, Exists, NoRow, StandingKept
    <2>6. HandsTell(r)'
      BY <1>3, <1>4, <2>1, <2>3, HandsStillTell DEF StandingKept
    <2>7. Left(x)' = row[r].clouds \cup Rest
      BY <2>2, <2>4 DEF Left, Step
    <2>8. TearsTell(r)'
      BY <1>12, <1>13, <2>1, <2>2, <2>3, <2>4, <2>7 DEF LockedSteps, Gone, Exists, NoRow, StandingKept
    <2> QED
      BY <2>5, <2>6, <2>8
  <1>14. CASE Cur(x) = r /\ ReaperWorks(x)
    <2>1. row'[r] = row[r]
      BY <1>14 DEF ReaperWorks
    <2>2. Step(x) \in LockedSteps
      BY <1>14 DEF ReaperWorks, LockedSteps, TeardownSteps
    <2>3. reaper'[x].listed[r] = reaper[x].listed[r]
      BY <1>14, ReaperStays
    (* What stands after the step is what the next one starts from.           *)
    <2>4. /\ standing'[r] \subseteq standing[r]
          /\ r \in roster => r \in roster' \/ "account" \notin standing'[r]
          /\ TearingDown(x, r)' => /\ standing'[r] \subseteq Left(x)'
                                   /\ Step(x)' = "clouds" => reaper'[x].units # {}
      <3>1. TearingDown(x, r) => standing[r] \subseteq Left(x)
        BY <1>3 DEF TearsTell
      <3>2. standing[r] \subseteq Thing
        BY <1>1
      <3>3. /\ Exists(r) => ("account" \in standing[r] => r \in roster)
            /\ standing[r] \cap {"account", "stray"} # {} => row[r].ou
            /\ Step(x) = "orgUnit" /\ Exists(r) => reaper[x].listed[r].ou = row[r].ou
        BY <1>3, <1>11, <1>14, <2>2 DEF RowTells, TearsTell, ListingTells, Gone, Exists, NoRow
      <3>4. CASE /\ StandingKept(r)
                 /\ \/ Step(x) = "claim" /\ Goes(x, "abandoned")
                    \/ \E c : reaper'[x] = [reaper[x] EXCEPT !.pc = "threw", !.clears = c]
        <4>1. reaper'[x].pc \in {"abandoned", "threw"}
          BY <1>1, <3>4 DEF Goes, ReaperState
        <4>2. TearingDown(x, r)' => Left(x)' = Thing /\ Step(x)' = "threw"
          BY <4>1 DEF TearingDown, TeardownSteps, Left, Step
        <4> QED
          BY <3>2, <3>4, <4>2 DEF StandingKept
      <3>5. CASE Step(x) = "clouds" /\ \E u \in reaper[x].units :
                   /\ standing'[r] = standing[r] \ {u} /\ (r \in roster' <=> r \in roster)
                   /\ reaper'[x] = [reaper[x] EXCEPT !.units = @ \ {u},
                                !.pc = IF reaper[x].units = {u} THEN "harness" ELSE "clouds"]
        <4>1. PICK u \in reaper[x].units :
                   /\ standing'[r] = standing[r] \ {u} /\ (r \in roster' <=> r \in roster)
                   /\ reaper'[x] = [reaper[x] EXCEPT !.units = @ \ {u},
                                !.pc = IF reaper[x].units = {u} THEN "harness" ELSE "clouds"]
          BY <3>5
        <4>2. /\ reaper'[x].units = reaper[x].units \ {u}
              /\ reaper'[x].pc = IF reaper[x].units = {u} THEN "harness" ELSE "clouds"
          BY <1>1, <4>1 DEF ReaperState
        <4>3. standing[r] \subseteq reaper[x].units \cup Rest
          BY <1>14, <3>1, <3>5 DEF Left, TearingDown, TeardownSteps
        <4>4. Left(x)' = (reaper[x].units \ {u}) \cup Rest
          BY <4>2 DEF Left, Step
        <4> QED
          BY <4>1, <4>2, <4>3, <4>4 DEF Step
      <3>6. CASE Step(x) = "harness" /\ Goes(x, "accounts") /\ standing'[r] = standing[r] \ {"harness"}
                   /\ (r \in roster' <=> r \in roster)
        <4>1. reaper'[x].pc = "accounts" /\ Left(x) = Rest
          BY <1>1, <3>6 DEF Goes, ReaperState, Left
        <4> QED
          BY <1>14, <3>1, <3>6, <4>1 DEF Left, Step, Rest, TearingDown, TeardownSteps
      <3>7. CASE Step(x) = "accounts" /\ Goes(x, "orgUnit") /\ Exists(r) /\ (r \in roster' <=> r \in roster)
                   /\ standing'[r] = IF r \in roster THEN standing[r] \ {"account"} ELSE standing[r]
        <4>1. reaper'[x].pc = "orgUnit" /\ Left(x) = {"account", "stray"}
          BY <1>1, <3>7 DEF Goes, ReaperState, Left
        <4>2. Left(x)' = {"stray"}
          BY <4>1 DEF Left, Step
        <4>3. standing[r] \subseteq {"account", "stray"}
          BY <1>14, <3>1, <3>7, <4>1 DEF TearingDown, TeardownSteps
        <4>4. standing'[r] \subseteq {"stray"} /\ standing'[r] \subseteq standing[r]
          BY <3>3, <3>7, <4>3
        <4> QED
          BY <3>7, <4>1, <4>2, <4>4 DEF Step
      <3>8. CASE Step(x) = "orgUnit" /\ Goes(x, "forget") /\ Exists(r) /\ (r \in roster' <=> r \in roster)
                   /\ standing'[r] = IF Seen(x).ou THEN standing[r] \ {"account", "stray"} ELSE standing[r]
        <4>1. reaper'[x].pc = "forget" /\ Left(x) = {"stray"}
          BY <1>1, <3>8 DEF Goes, ReaperState, Left
        <4>2. Left(x)' = {}
          BY <4>1 DEF Left, Step
        <4>3. standing[r] \subseteq {"stray"}
          BY <1>14, <3>1, <3>8, <4>1 DEF TearingDown, TeardownSteps
        <4>4. standing'[r] = {}
          BY <1>14, <3>3, <3>8, <4>3 DEF Seen
        <4> QED
          BY <3>8, <4>1, <4>2, <4>4 DEF Step
      <3>9. CASE Step(x) = "forget" /\ Goes(x, "finish") /\ standing'[r] = standing[r]
        <4>1. reaper'[x].pc = "finish" /\ Left(x) = {}
          BY <1>1, <3>9 DEF Goes, ReaperState, Left
        <4>2. standing[r] = {}
          BY <1>14, <3>1, <3>9, <4>1 DEF TearingDown, TeardownSteps
        <4> QED
          BY <3>9, <4>1, <4>2 DEF Step
      <3>10. CASE Step(x) = "finish" /\ Goes(x, "mark") /\ StandingKept(r)
        <4>1. reaper'[x].pc = "mark" /\ Left(x) = {}
          BY <1>1, <3>10 DEF Goes, ReaperState, Left
        <4>2. standing[r] = {}
          BY <1>14, <3>1, <3>10, <4>1 DEF TearingDown, TeardownSteps
        <4> QED
          BY <3>10, <4>1, <4>2 DEF Step, StandingKept
      <3> QED
        BY <1>14, <3>4, <3>5, <3>6, <3>7, <3>8, <3>9, <3>10 DEF ReaperWorks
    <2>5. RowTells(r)'
      BY <1>2, <1>3, <2>1, <2>4 DEF RowTells, Exists
    <2>6. HandsTell(r)'
      BY <1>3, <1>4, <2>1, <2>4, HandsStillTell
    <2>7. TearsTell(r)'
      BY <1>12, <1>14, <2>1, <2>2, <2>3, <2>4 DEF Gone
    <2> QED
      BY <2>5, <2>6, <2>7
  <1>15. CASE Cur(x) = r /\ ReaperLeaves(x)
    <2>1. /\ Step(x) \in {"abandoned", "finish", "mark", "threw"} /\ Step(x) \in LockedSteps
          /\ reaper'[x] \in {Finished(x), IdleReaper} /\ standing'[r] = standing[r]
      BY <1>15 DEF ReaperLeaves, LockedSteps, TeardownSteps
    <2>2. \/ row'[r] = row[r] /\ (r \in roster' <=> r \in roster)
          \/ row'[r] = Deleted /\ Step(x) = "finish"
          \/ row'[r] = SetDestroyed(row[r]) /\ Step(x) = "mark" /\ Exists(r) /\ (r \in roster' <=> r \in roster)
          \/ /\ row'[r] \in {SetDestroyFailed(row[r]), SetDestroyRetry(row[r])}
             /\ Exists(r) /\ (r \in roster' <=> r \in roster)
      BY <1>15 DEF ReaperLeaves
    <2>3. Step(x) \in {"finish", "mark"} => standing[r] = {}
      BY <1>3, <1>15 DEF TearsTell, TearingDown, TeardownSteps, Left
    <2>4. CASE row'[r] = row[r] /\ (r \in roster' <=> r \in roster)
      BY <1>6, <1>7, <2>1, <2>4
    <2>5. CASE row'[r] = Deleted /\ Step(x) = "finish"
      <3>1. row'[r].status = "deleted"
        BY <2>5 DEF Deleted, Unbooked
      <3>2. RowTells(r)'
        BY <2>1, <2>3, <2>5, <3>1 DEF RowTells, Exists, NoRow
      <3>3. row[r].status = "destroying"
        BY <1>3, <1>15, <2>5 DEF GoingDown, TearingDown, TeardownSteps
      <3>4. HandsTell(r)'
        BY <1>3, <1>4, <2>1, <2>3, <2>5, <3>3, NoHands DEF HandsTell, HandsStay, InFlight
      <3>5. TearsTell(r)'
        BY <1>7, <1>12, <1>15, <2>1, <3>1 DEF Gone
      <3> QED
        BY <3>2, <3>4, <3>5
    <2>6. ASSUME row'[r].clouds = row[r].clouds, row'[r].ou = row[r].ou, row'[r].expires = row[r].expires,
                 row'[r].status \in Down, row'[r].status = "destroyed" => Step(x) = "mark",
                 Exists(r), r \in roster' <=> r \in roster
          PROVE  RowTells(r)' /\ HandsTell(r)' /\ TearsTell(r)'
      <3>1. RowTells(r)'
        BY <1>2, <1>3, <2>1, <2>3, <2>6 DEF RowTells, Down
      <3>2. HandsTell(r)'
        BY <1>3, <1>4, <2>1, <2>6, HandsStillTell
      <3>3. TearsTell(r)'
        BY <1>7, <1>12, <1>15, <2>1, <2>6 DEF Gone, Exists, NoRow
      <3> QED
        BY <3>1, <3>2, <3>3
    <2>7. CASE /\ row'[r] = SetDestroyed(row[r]) /\ Step(x) = "mark"
               /\ Exists(r) /\ (r \in roster' <=> r \in roster)
      BY <1>3, <2>6, <2>7 DEF SetDestroyed, Row, Down
    <2>8. CASE /\ row'[r] \in {SetDestroyFailed(row[r]), SetDestroyRetry(row[r])}
               /\ Exists(r) /\ (r \in roster' <=> r \in roster)
      <3>1. /\ row'[r].clouds = row[r].clouds /\ row'[r].ou = row[r].ou
            /\ row'[r].expires = row[r].expires
            /\ row'[r].status \in {"destroying", "destroy_failed"}
        BY <1>3, <2>8 DEF SetDestroyFailed, SetDestroyRetry, Row
      <3> QED
        BY <2>6, <2>8, <3>1 DEF Down
    <2> QED
      BY <2>2, <2>4, <2>5, <2>7, <2>8
  <1> QED
    BY <1>2, <1>8, <1>9, <1>10, <1>13, <1>14, <1>15

(* Whatever happens, the row tells of all that stands, when every booking   *)
(* asks for a cloud.                                                        *)
LEMMA LeftInvariance ==
  ASSUME {} \notin Bookings
  PROVE  Spec => [](WantsFit /\ LeftInv)
  <1>1. Init => WantsFit /\ LeftInv
    <2> SUFFICES ASSUME Init PROVE WantsFit /\ LeftInv
      OBVIOUS
    <2>1. WantsFit
      BY DEF Init, WantsFit, IdleReq
    <2>2. ASSUME NEW r \in Runs
          PROVE  RowTells(r) /\ HandsTell(r) /\ TearsTell(r)
      <3>1. RowTells(r)
        BY DEF Init, RowTells, Exists, Unbooked, NoRow
      <3>2. HandsTell(r)
        BY DEF Init, HandsTell, Calls, Holds, IdleReq, IdleExec, BuildSteps
      <3>3. \A x \in Reapers : reaper[x].cur = Null /\ reaper[x].todo = {}
        BY DEF Init, IdleReaper
      <3>4. TearsTell(r)
        BY <3>3, ConstantsAssumption DEF TearsTell, Lists, TearingDown, Cur
      <3> QED
        BY <3>1, <3>2, <3>4
    <2> QED
      BY <2>1, <2>2 DEF LeftInv
  <1>2. TypeInv /\ LockHeld /\ ExpiryInv /\ ReadsFit /\ Owned /\ WantsFit /\ LeftInv /\ [Next]_vars
          => WantsFit' /\ LeftInv'
    BY WantsStayFit, RunnerLeft, SchedulerLeft, BookingLeft, RequestsLeft, ReaperLeft
    DEF Next, RunnerNext, ApiNext, ReaperNext
  <1> QED
    BY <1>1, <1>2, TypeInvariance, LockInvariance, ExpiryInvariance, OwnedInvariance, PTL DEF Spec

(* A run is marked destroyed, or dropped, only with nothing left standing   *)
(* in any other service: after failed steps, killed attempts, retries and   *)
(* half-finished provisions, as long as nobody acted on an outdated read of *)
(* it, and every booking asks for a cloud (one that asks for none leaves    *)
(* the sandbox grants behind: run `sandbox`).                               *)
THEOREM TeardownLeavesNothing ==
  ASSUME {} \notin Bookings
  PROVE  Spec => []NothingLeft
  <1>1. LeftInv => NothingLeft
    BY DEF LeftInv, RowTells, NothingLeft
  <1> QED
    BY <1>1, LeftInvariance, PTL

-----------------------------------------------------------------------------
(* What stands for a run that is shown as live.                            *)

NamesDiffer == \A q, r \in Runs : NameOf[q] = NameOf[r] => q = r

(* A row with an end time was provisioned once; a roster is of accounts     *)
(* that are there; an execution stands on what it made before.              *)
Built(r) ==
  /\ Exists(r) /\ row[r].status \notin Down /\ row[r].expires # NoExpiry =>
       {"account", "harness"} \subseteq standing[r]
  /\ row[r].status \notin Down /\ r \in roster => "account" \in standing[r]
  /\ \A e \in Executions : RunOf(e) = r =>
       /\ At(e, "harness") \/ At(e, "clouds") => "account" \in standing[r]
       /\ At(e, "clouds") => "harness" \in standing[r]

BuiltInv == \A r \in Runs \ stale : Built(r)

(* No execution comes to a step it was not at.                              *)
StepsStay(r) ==
  \A e \in Executions : RunOf(e)' = r /\ exec'[e].pc \in {"harness", "clouds"} =>
    RunOf(e) = r /\ exec'[e].pc = exec[e].pc

(* A step that takes down nothing of r and does not bring r up.             *)
LEMMA StillBuilt ==
  ASSUME NEW r \in Runs, Built(r), StepsStay(r),
         standing[r] \cap {"account", "harness"} \subseteq standing'[r],
         r \in roster' => r \in roster,
         row'[r].status \notin Down => row[r].status \notin Down,
         Exists(r)' /\ row'[r].status \notin Down /\ row'[r].expires # NoExpiry =>
           Exists(r) /\ row[r].expires # NoExpiry
  PROVE  Built(r)'
  BY DEF Built, StepsStay, At

(* A run on its way down, or gone, needs nothing to stand.                  *)
LEMMA DownIsBuilt ==
  ASSUME NEW r \in Runs, OneHand(r), row[r].status \notin InFlight, UNCHANGED exec,
         row'[r].status \in Down \/ (row'[r].status = "deleted" /\ r \notin roster')
  PROVE  Built(r)'
  <1>1. \A e \in Executions : RunOf(e)' = r => ~At(e, "harness")' /\ ~At(e, "clouds")'
    BY NoHands DEF Holds, RunOf, At, BuildSteps
  <1> QED
    BY <1>1 DEF Built, Exists, NoRow

(* An execution makes the accounts, then the organization, then ends.       *)
LEMMA RunnerBuilds ==
  ASSUME TypeInv, Owned, BuiltInv, NEW e \in Executions,
         RunnerStep(e) \/ RunnerLateVerdict(e) \/ RunnerFail(e) \/ RunnerCrash(e)
  PROVE  BuiltInv'
  <1>1. /\ row \in [Runs -> Row] /\ exec[e] \in Exec /\ Null \notin Runs
    BY ConstantsAssumption DEF TypeInv, TypeOK
  <1>2. PICK r \in Runs :
          /\ r = RunOf(e) /\ OthersKept(r)
          /\ UNCHANGED <<now, reaping, req, due, died, resets>>
          /\ \A d \in Executions \ {e} : exec'[d] = exec[d]
          /\ RunnerAdvances(e) \/ RunnerLeaves(e) \/ RunnerConcludes(e)
    BY RunnerMoves
  <1>3. \/ RunnerAdvances(e) /\ RunOf(e)' = r /\ exec'[e].pc \in BuildSteps
        \/ exec'[e].pc \in {"announce", "done"} /\ ~RunnerAdvances(e)
    BY <1>2, AdvanceStays, LeavingLetsGo DEF BuildSteps
  <1>4. \A q \in Runs \ stale' : q \notin stale
    BY <1>2, ConcludingKeeps DEF RunnerAdvances, RunnerLeaves
  <1>5. ASSUME NEW q \in Runs \ stale', q # r
        PROVE  Built(q)'
    <2>1. q \notin stale /\ row'[q] = row[q] /\ standing'[q] = standing[q] /\ (q \in roster' <=> q \in roster)
      BY <1>2, <1>4, <1>5 DEF OthersKept
    <2>2. StepsStay(q)
      BY <1>2, <1>3, <1>5 DEF StepsStay, RunOf
    <2> QED
      BY <2>1, <2>2, StillBuilt DEF BuiltInv, Exists
  <1>7. ASSUME r \notin stale', RunnerConcludes(e)
        PROVE  Built(r)'
    <2>1. r \notin stale /\ Built(r)
      BY <1>2, <1>4, <1>7 DEF BuiltInv
    <2>2. StepsStay(r)
      BY <1>2, <1>7, LeavingLetsGo DEF StepsStay, RunOf
    <2>3. /\ row'[r].expires = row[r].expires /\ StandingKept(r)
          /\ \/ row'[r] = row[r]
             \/ row[r].status = "ready" /\ row'[r].status \in {"ready", "failed"}
      BY <1>2, <1>7, ConcludingKeeps
    <2> QED
      BY <2>1, <2>2, <2>3, StillBuilt DEF StandingKept, Exists, NoRow, Down
  <1>6. ASSUME r \notin stale', RunnerAdvances(e) \/ RunnerLeaves(e)
        PROVE  Built(r)'
    <2>1. /\ r \notin stale /\ Holds(e, r) /\ row[r] \in Row /\ OneHand(r) /\ Built(r)
      BY <1>1, <1>2, <1>4, <1>6, AdvanceStays, LeavingLetsGo DEF Holds, Owned, BuiltInv
    <2>2. row[r].status \in InFlight /\ \A d \in Executions : Holds(d, r) => d = e
      BY <2>1 DEF OneHand, InFlight
    <2>3. row[r].status \notin Down /\ Exists(r)
      BY <2>2 DEF InFlight, Down, Exists, NoRow
    <2>4. ASSUME NEW d \in Executions, RunOf(d)' = r, exec'[d].pc \in {"harness", "clouds"}
          PROVE  d = e /\ RunnerAdvances(e)
      BY <1>2, <1>3, <2>2, <2>4 DEF Holds, RunOf, BuildSteps
    <2>5. CASE RunnerAdvances(e)
      <3>1. /\ row'[r] \in {row[r], SetProvisioning(row[r]), SetOrgUnitPath(row[r]), SetApplying(row[r])}
        BY <1>2, <2>5 DEF RunnerAdvances
      <3>2. row'[r].expires = row[r].expires /\ row'[r].status \notin Down
        BY <2>1, <2>3, <3>1 DEF SetProvisioning, SetOrgUnitPath, SetApplying, Row, Down
      <3>3. CASE At(e, "queued") \/ At(e, "orgUnit")
        <4>1. StandingKept(r) /\ exec'[e].pc \in {"orgUnit", "accounts"}
          BY <1>1, <1>2, <2>5, <3>3 DEF RunnerAdvances, At, Exec
        <4>2. StepsStay(r)
          BY <2>4, <4>1 DEF StepsStay
        <4> QED
          BY <2>1, <2>3, <3>2, <4>1, <4>2, StillBuilt DEF StandingKept
      <3>4. CASE At(e, "accounts")
        <4>1. /\ exec'[e].pc = "harness" /\ "account" \in standing'[r]
              /\ standing[r] \subseteq standing'[r]
          BY <1>1, <1>2, <2>1, <2>3, <2>5, <3>4 DEF RunnerAdvances, At, Exec, Built
        <4> QED
          BY <2>1, <2>3, <2>4, <3>2, <4>1 DEF Built, At
      <3>5. CASE At(e, "harness")
        <4>1. exec'[e].pc = "clouds" /\ standing'[r] = standing[r] \cup {"harness"}
          BY <1>1, <1>2, <2>5, <3>5 DEF RunnerAdvances, At, Exec
        <4>2. "account" \in standing[r]
          BY <1>2, <2>1, <3>5 DEF Built
        <4> QED
          BY <2>1, <2>3, <2>4, <3>2, <4>1, <4>2 DEF Built, At
      <3>6. CASE At(e, "clouds")
        <4>1. PICK u : /\ exec'[e] = [exec[e] EXCEPT !.units = exec[e].units \ {u}]
                       /\ standing'[r] = (standing[r] \ (IF u = "gcp" THEN {"sandbox"} ELSE {})) \cup {u}
                       /\ r \in roster' <=> r \in roster
          BY <1>2, <2>5, <3>6 DEF RunnerAdvances, At
        <4>2. exec'[e].pc = exec[e].pc
          BY <1>1, <4>1 DEF Exec
        <4>3. StepsStay(r)
          BY <1>2, <2>4, <4>2 DEF StepsStay
        <4> QED
          BY <2>1, <2>3, <3>2, <4>1, <4>3, StillBuilt
      <3> QED
        BY <2>5, <3>3, <3>4, <3>5, <3>6 DEF RunnerAdvances
    <2>6. CASE RunnerLeaves(e)
      <3>1. StepsStay(r)
        BY <1>2, <2>4, <2>6, AdvanceStays, LeavingLetsGo DEF StepsStay, BuildSteps
      <3>2. /\ standing[r] \subseteq standing'[r] /\ (r \in roster' <=> r \in roster)
            /\ row'[r].status \notin Down
        <4>1. standing[r] \subseteq standing'[r] /\ (r \in roster' <=> r \in roster)
          BY <1>2, <2>6 DEF RunnerLeaves
        <4>2. \/ row'[r].status \in {"ready", "failed"}
              \/ row'[r] = row[r]
          <5>1. \A w : w \in Row => Caught(e, w).status \in {"ready", "failed"}
            BY DEF Caught, SetLiveError, SetFailed, Row
          <5>2. \A t \in Int : SetReady(row[r], t) \in Row /\ SetReady(row[r], t).status = "ready"
            BY <2>1 DEF SetReady, Row, RunStatus, NoRow
          <5>3. exec[e].expires \in Int /\ now + exec[e].ttl \in Int
            BY <1>1 DEF Exec, TypeInv, TypeOK
          <5> QED
            BY <1>2, <2>1, <2>6, <5>1, <5>2, <5>3 DEF RunnerLeaves
        <4> QED
          BY <2>3, <4>1, <4>2 DEF Down
      <3>3. CASE At(e, "clouds")
        BY <1>2, <2>1, <3>1, <3>2, <3>3 DEF Built, StepsStay, At
      <3>4. CASE ~At(e, "clouds")
        <4>1. row'[r] \in {row[r], Caught(e, row[r])}
          BY <1>2, <2>6, <3>4 DEF RunnerLeaves
        <4>2. row'[r].expires = row[r].expires
          BY <2>1, <4>1 DEF Caught, SetLiveError, SetFailed, Row
        <4> QED
          BY <2>1, <2>3, <3>1, <3>2, <4>2, StillBuilt
      <3> QED
        BY <3>3, <3>4
    <2> QED
      BY <1>6, <2>5, <2>6
  <1> QED
    BY <1>2, <1>5, <1>6, <1>7 DEF BuiltInv

(* The scheduler and a booking bring up nothing that is down.               *)
LEMMA SchedulerBuilds ==
  ASSUME TypeInv, Owned, BuiltInv, SchedulerNext \/ Tick \/ UNCHANGED vars
  PROVE  BuiltInv'
  <1>1. row \in [Runs -> Row] /\ due \subseteq Runs /\ exec \in [Executions -> Exec]
    BY DEF TypeInv, TypeOK
  <1>2. UNCHANGED <<roster, standing, history>>
    BY SchedulerMoves DEF Tick, vars, tables, outside
  <1> SUFFICES ASSUME NEW r \in Runs \ stale' PROVE Built(r)'
    BY DEF BuiltInv
  <1>3. r \notin stale /\ OneHand(r) /\ Built(r) /\ row[r] \in Row
    BY <1>1, <1>2 DEF history, Owned, BuiltInv
  <1>4. StepsStay(r)
    <2>1. CASE UNCHANGED exec
      BY <2>1 DEF StepsStay, RunOf
    <2>2. CASE \E e \in Executions, p \in Runs : Queues(e, p)
      <3>1. PICK e \in Executions, p \in Runs : Queues(e, p)
        BY <2>2
      <3>2. exec'[e].pc = "queued" /\ \A d \in Executions \ {e} : exec'[d] = exec[d]
        BY <1>1, <3>1 DEF Queues, Exec
      <3> QED
        BY <3>2 DEF StepsStay, RunOf
    <2> QED
      BY <1>1, <2>1, <2>2, SchedulerMoves
      DEF SchedulerClaims, SchedulerQueues, SchedulerPutsBack, Tick, vars
  <1>5. \/ row'[r] = row[r]
        \/ row[r].status = "scheduled" /\ row'[r] = [row[r] EXCEPT !.status = "requested"]
        \/ row[r].status = "requested" /\ row'[r] = SetScheduledBack(row[r])
    <2>1. CASE SchedulerNext /\ SchedulerClaims
      BY <2>1 DEF SchedulerClaims, DueToStart
    <2>2. CASE SchedulerNext /\ SchedulerPutsBack
      BY <1>3, <2>2 DEF SchedulerPutsBack, OneHand
    <2> QED
      BY <2>1, <2>2, SchedulerMoves DEF SchedulerQueues, Tick, vars, tables
  <1>6. /\ row'[r].expires = row[r].expires
        /\ row'[r].status \notin Down => row[r].status \notin Down
        /\ row[r].status \in NoRow => row'[r].status = row[r].status
    BY <1>3, <1>5 DEF Row, SetScheduledBack, Down, NoRow
  <1> QED
    BY <1>2, <1>3, <1>4, <1>6, StillBuilt DEF Exists

LEMMA BookingBuilds ==
  ASSUME TypeInv, BuiltInv, NEW p \in Runs, CreateScheduledRun(p)
  PROVE  BuiltInv'
  <1>1. /\ row[p].status = "unbooked" /\ row \in [Runs -> Row]
        /\ UNCHANGED <<roster, standing, exec, stale>>
    BY DEF CreateScheduledRun, apiFrame, outside, history, TypeInv, TypeOK
  <1>2. PICK w : w.expires = NoExpiry /\ row' = [row EXCEPT ![p] = w]
    BY DEF CreateScheduledRun, Unbooked
  <1> SUFFICES ASSUME NEW r \in Runs \ stale' PROVE Built(r)'
    BY DEF BuiltInv
  <1>3. Built(r) /\ StepsStay(r)
    BY <1>1 DEF BuiltInv, StepsStay, RunOf
  <1>4. \/ row'[r] = row[r]
        \/ row'[r].expires = NoExpiry /\ row[r].status = "unbooked"
    BY <1>1, <1>2
  <1> QED
    BY <1>1, <1>3, <1>4, StillBuilt DEF Exists, Down

(* A request gives a row its first end time never, and brings one up again  *)
(* only from where an execution left it.                                    *)
LEMMA RequestsBuild ==
  ASSUME TypeInv, ExpiryInv, ReadsFit, Owned, BuiltInv, NEW q \in Requests,
         ReadFor(q) \/ ClaimStart(q) \/ ApiWrite(q) \/ ApiCrash(q)
  PROVE  BuiltInv'
  <1>1. row \in [Runs -> Row] /\ exec \in [Executions -> Exec] /\ req[q] \in ReqState
    BY DEF TypeInv, TypeOK
  <1>2. /\ UNCHANGED <<now, reaping, due, standing>>
        /\ req[q].pc \notin {"idle", "done"} => req[q].run \in Runs
        /\ \/ ApiReads(q) \/ ApiClaims(q) \/ ApiWrites(q) \/ ApiReprovisions(q)
           \/ ApiTriggers(q) \/ ApiRollsBack(q) \/ ApiDies(q)
    BY ApiMoves
  <1> SUFFICES ASSUME NEW r \in Runs \ stale' PROVE Built(r)'
    BY DEF BuiltInv
  <1>3. ASSUME r \notin stale
        PROVE  OneHand(r) /\ Built(r) /\ row[r] \in Row
    BY <1>1, <1>3 DEF Owned, BuiltInv
  <1>4. StepsStay(r)
    <2>1. CASE UNCHANGED exec
      BY <2>1 DEF StepsStay, RunOf
    <2>2. CASE \E e \in Executions, p \in Runs : Queues(e, p)
      <3>1. PICK e \in Executions, p \in Runs : Queues(e, p)
        BY <2>2
      <3>2. exec'[e].pc = "queued" /\ \A d \in Executions \ {e} : exec'[d] = exec[d]
        BY <1>1, <3>1 DEF Queues, Exec
      <3> QED
        BY <3>2 DEF StepsStay, RunOf
    <2> QED
      BY <1>2, <2>1, <2>2 DEF ApiReads, ApiClaims, ApiWrites, ApiReprovisions, ApiTriggers,
         ApiRollsBack, ApiDies
  <1>5. ASSUME r \notin stale, row'[r] = row[r], r \in roster' => r \in roster
        PROVE  Built(r)'
    BY <1>2, <1>3, <1>4, <1>5, StillBuilt DEF Exists
  <1>6. ASSUME NEW p \in Runs, OnlyWrites(p), p # r
        PROVE  Built(r)'
    BY <1>5, <1>6 DEF OnlyWrites, OthersKept
  <1>7. ASSUME r \notin stale, r \in roster' => r \in roster, Exists(r), row[r].status \notin Down,
               row'[r].expires # NoExpiry => row[r].expires # NoExpiry
        PROVE  Built(r)'
    BY <1>2, <1>3, <1>4, <1>7, StillBuilt
  <1>8. CASE ApiReads(q) \/ ApiDies(q)
    BY <1>5, <1>8 DEF ApiReads, ApiDies
  <1>9. CASE ApiClaims(q)
    <2>1. PICK p \in Runs, op \in {"startNow", "retry"} :
            /\ row[p].status = ClaimFrom(op)
            /\ row'[p] = [row[p] EXCEPT !.status = "requested"]
            /\ OnlyWrites(p) /\ (p \in roster' <=> p \in roster)
      BY <1>9 DEF ApiClaims
    <2>2. r \notin stale
      BY <1>9 DEF ApiClaims
    <2>3. CASE r = p
      BY <1>3, <1>7, <2>1, <2>2, <2>3 DEF ClaimFrom, Exists, NoRow, Down, Row
    <2> QED
      BY <1>6, <2>1, <2>3
  <1>10. CASE ApiReprovisions(q)
    <2>1. PICK p \in Runs : p = req[q].run /\ OnlyWrites(p) /\ (p \in roster' <=> p \in roster)
      BY <1>2, <1>10 DEF ApiReprovisions
    <2>2. r \notin stale
      BY <1>10 DEF ApiReprovisions
    <2>3. CASE r = p /\ row[p].status = "ready"
      <3>1. row'[r] = [row[r] EXCEPT !.status = "requested"]
        BY <1>10, <2>1, <2>3 DEF ApiReprovisions
      <3> QED
        BY <1>3, <1>7, <2>1, <2>2, <2>3, <3>1 DEF Exists, NoRow, Down, Row
    <2>4. CASE r = p /\ row[p].status # "ready"
      BY <1>5, <1>10, <2>1, <2>2, <2>4 DEF ApiReprovisions
    <2> QED
      BY <1>6, <2>1, <2>3, <2>4
  <1>11. CASE ApiTriggers(q)
    <2>1. PICK p \in Runs : p = req[q].run /\ OnlyWrites(p)
      BY <1>2, <1>11 DEF ApiTriggers
    <2> QED
      BY <1>5, <1>11, <2>1 DEF ApiTriggers, OnlyWrites
  <1>12. CASE ApiRollsBack(q)
    <2>1. PICK p \in Runs : /\ p = req[q].run /\ OnlyWrites(p) /\ (p \in roster' <=> p \in roster)
                            /\ Calls(q, p)
      BY <1>2, <1>12 DEF ApiRollsBack, Calls
    <2>2. r \notin stale
      BY <2>1 DEF OnlyWrites
    <2>3. CASE r = p
      <3>1. row[r].status = "requested" /\ Exists(r)
        BY <1>3, <2>1, <2>2, <2>3 DEF OneHand, Exists, NoRow
      <3>2. row'[r] = [row[r] EXCEPT !.status = IF req[q].op = "update" THEN "ready" ELSE ClaimFrom(req[q].op)]
        BY <1>12, <2>1, <2>3, <3>1 DEF ApiRollsBack
      <3>3. row'[r].expires = row[r].expires
        BY <1>3, <2>2, <3>2 DEF Row
      <3> QED
        BY <1>7, <2>1, <2>2, <2>3, <3>1, <3>3 DEF Down
    <2> QED
      BY <1>6, <2>1, <2>3
  <1>13. CASE ApiWrites(q)
    <2>1. PICK p \in Runs : p = req[q].run /\ OnlyWrites(p)
      BY <1>2, <1>13 DEF ApiWrites
    <2>2. r \notin stale /\ UNCHANGED exec /\ req[q].pc = "write"
      BY <1>13, <2>1 DEF ApiWrites, OnlyWrites
    <2>3. CASE r = p /\ ~Exists(p)
      BY <1>5, <1>13, <2>1, <2>2, <2>3 DEF ApiWrites
    <2>4. CASE r = p /\ Exists(p)
      <3>1. /\ row[r].status = req[q].seen.status /\ ApiRewrites(q) /\ row[r] \in Row
            /\ OneHand(r) /\ Built(r)
        BY <1>3, <1>13, <2>1, <2>2, <2>4, FreshWrite
      <3>2. req[q].op = "delete" => row[r].status \notin InFlight
        BY <2>2, <3>1 DEF ReadsFit
      <3>3. row[r].status # "deleted"
        BY <2>4 DEF Exists, NoRow
      <3>4. \/ /\ r \in roster' <=> r \in roster
               /\ row'[r].status = row[r].status
               /\ row'[r].expires # NoExpiry => row[r].expires # NoExpiry
            \/ row'[r].status = "destroying" /\ row[r].status \notin InFlight
            \/ row'[r].status = "deleted" /\ r \notin roster' /\ row[r].status \notin InFlight
        <4>1. CASE req[q].op = "extend"
          <5>1. /\ r \in roster' <=> r \in roster
                /\ row'[r] = IF req[q].seen.expires # NoExpiry
                             THEN [row[r] EXCEPT !.expires = req[q].seen.expires + EXTENSION]
                             ELSE [row[r] EXCEPT !.ttl = req[q].seen.ttl + EXTENSION]
            BY <2>1, <2>4, <3>1, <4>1 DEF ApiRewrites
          <5>2. req[q].seen.expires # NoExpiry => row[r].expires # NoExpiry
            BY <2>1, <2>2, <2>4, <3>3 DEF ExpiryInv, ReqsKnowEnd, Ended
          <5> QED
            BY <3>1, <5>1, <5>2 DEF Row
        <4>2. CASE req[q].op = "end"
          <5>1. (r \in roster' <=> r \in roster) /\ row'[r] = [row[r] EXCEPT !.expires = now]
            BY <2>1, <2>4, <3>1, <4>2 DEF ApiRewrites
          <5>2. row[r].status = "ready"
            BY <2>2, <3>1, <4>2 DEF ReadsFit
          <5>3. row[r].expires # NoExpiry
            BY <5>2 DEF ExpiryInv, RowsEnd, Ended
          <5> QED
            BY <3>1, <5>1, <5>3 DEF Row
        <4>3. CASE req[q].op = "delete"
          <5>1. \/ row'[r] = Deleted /\ r \notin roster'
                \/ row'[r] = [DestroyReset(row[r]) EXCEPT !.del = TRUE]
            BY <2>1, <2>4, <3>1, <4>3 DEF ApiRewrites
          <5> QED
            BY <3>1, <3>2, <4>3, <5>1 DEF Deleted, Unbooked, DestroyReset, Row
        <4>4. CASE req[q].op = "retryTeardown"
          <5>1. row'[r] = DestroyReset(row[r])
            BY <2>1, <2>4, <3>1, <4>4 DEF ApiRewrites
          <5>2. row[r].status = "destroy_failed"
            BY <2>2, <3>1, <4>4 DEF ReadsFit
          <5> QED
            BY <3>1, <5>1, <5>2 DEF DestroyReset, Row, InFlight
        <4>5. CASE req[q].op = "update"
          <5>1. (r \in roster' <=> r \in roster) /\ row'[r] = [row[r] EXCEPT !.clouds = req[q].want]
            BY <2>1, <2>4, <3>1, <4>5 DEF ApiRewrites
          <5> QED
            BY <3>1, <5>1 DEF Row
        <4> QED
          BY <3>1, <4>1, <4>2, <4>3, <4>4, <4>5 DEF ApiRewrites
      <3> QED
        BY <1>2, <1>4, <2>2, <2>4, <3>1, <3>4, StillBuilt, DownIsBuilt DEF Down
    <2> QED
      BY <1>6, <2>1, <2>3, <2>4
  <1> QED
    BY <1>2, <1>8, <1>9, <1>10, <1>11, <1>12, <1>13

(* A teardown takes from no other run, and from its own once it is down.    *)
LEMMA ReaperBuilds ==
  ASSUME NamesDiffer, TypeInv, Owned, BuiltInv, NEW x \in Reapers,
         ReaperStep(x) \/ ReaperThrow(x) \/ ReaperCrash(x)
  PROVE  BuiltInv'
  <1>1. row \in [Runs -> Row]
    BY DEF TypeInv, TypeOK
  <1>2. /\ UNCHANGED <<now, exec, req, due, resets>>
        /\ OthersSpared(x)
        /\ \/ ReaperBrowses(x) \/ ReaperStops(x)
           \/ Cur(x) \in Runs /\ (ReaperClaims(x) \/ ReaperWorks(x) \/ ReaperLeaves(x))
    BY ReaperMoves
  <1> SUFFICES ASSUME NEW r \in Runs \ stale' PROVE Built(r)'
    BY DEF BuiltInv
  <1>3. /\ r \notin stale /\ Built(r) /\ OneHand(r) /\ GoingDown(r) /\ row[r] \in Row
    BY <1>1, <1>2 DEF ReaperBrowses, ReaperStops, ReaperClaims, ReaperWorks, ReaperLeaves, BuiltInv, Owned
  <1>4. ASSUME row'[r] = row[r], standing'[r] = standing[r], r \in roster' => r \in roster
        PROVE  Built(r)'
    <2>1. StepsStay(r)
      BY <1>2 DEF StepsStay, RunOf
    <2> QED
      BY <1>3, <1>4, <2>1, StillBuilt DEF Exists
  <1>5. CASE ReaperBrowses(x) \/ ReaperStops(x)
    BY <1>4, <1>5 DEF ReaperBrowses, ReaperStops
  <1>6. CASE Cur(x) \in Runs /\ Cur(x) # r
    BY <1>2, <1>4, <1>6 DEF OthersSpared, NamesDiffer
  <1>7. CASE Cur(x) = r /\ ReaperClaims(x)
    <2>1. /\ Step(x) = "claim" /\ row'[r] = SetDestroyClaim(row[r]) /\ ~MovedOn(r, reaper[x].listed[r])
      BY <1>7 DEF ReaperClaims, Seen
    <2>2. row[r].status \in {"ready", "destroying", "destroyed"}
      BY <1>3, <1>7, <2>1 DEF GoingDown, Lists, LockedSteps, ListedFits, MovedOn
    <2>3. row'[r].status = "destroying"
      BY <1>3, <2>1 DEF SetDestroyClaim, Row
    <2> QED
      BY <1>2, <1>3, <2>2, <2>3, DownIsBuilt DEF Down, InFlight
  <1>8. CASE Cur(x) = r /\ ReaperWorks(x)
    <2>1. row'[r] = row[r]
      BY <1>8 DEF ReaperWorks
    <2>2. CASE Step(x) = "claim"
      BY <1>4, <1>8, <2>1, <2>2 DEF ReaperWorks, TeardownSteps, StandingKept
    <2>3. CASE Step(x) # "claim"
      <3>1. row[r].status = "destroying"
        BY <1>3, <1>8, <2>3 DEF ReaperWorks, GoingDown, TearingDown, TeardownSteps
      <3> QED
        BY <1>2, <1>3, <2>1, <3>1, DownIsBuilt DEF Down, InFlight
    <2> QED
      BY <2>2, <2>3
  <1>9. CASE Cur(x) = r /\ ReaperLeaves(x)
    <2>1. row[r].status \in {"destroying", "deleted"}
      BY <1>3, <1>9 DEF ReaperLeaves, GoingDown, TearingDown, Meets, TeardownSteps
    <2>2. CASE row'[r] = row[r] /\ (r \in roster' <=> r \in roster)
      BY <1>4, <1>9, <2>2 DEF ReaperLeaves
    <2>3. CASE row'[r] = Deleted /\ r \notin roster'
      BY <1>2, <1>3, <2>1, <2>3, DownIsBuilt DEF Deleted, Unbooked, InFlight
    <2>4. CASE row'[r] \in {SetDestroyFailed(row[r]), SetDestroyed(row[r]), SetDestroyRetry(row[r])}
      <3>1. row'[r].status \in Down
        BY <1>3, <2>4 DEF SetDestroyFailed, SetDestroyed, SetDestroyRetry, Row, Down
      <3> QED
        BY <1>2, <1>3, <2>1, <3>1, DownIsBuilt DEF InFlight
    <2> QED
      BY <1>9, <2>2, <2>3, <2>4 DEF ReaperLeaves
  <1> QED
    BY <1>2, <1>5, <1>6, <1>7, <1>8, <1>9

LEMMA BuiltInvariance ==
  ASSUME NamesDiffer
  PROVE  Spec => []BuiltInv
  <1>1. Init => BuiltInv
    BY ConstantsAssumption
    DEF Init, BuiltInv, Built, Exists, Unbooked, NoRow, RunOf, IdleExec
  <1>2. TypeInv /\ ExpiryInv /\ ReadsFit /\ Owned /\ BuiltInv /\ [Next]_vars => BuiltInv'
    BY RunnerBuilds, SchedulerBuilds, BookingBuilds, RequestsBuild, ReaperBuilds
    DEF Next, RunnerNext, ApiNext, ReaperNext
  <1> QED
    BY <1>1, <1>2, TypeInvariance, ExpiryInvariance, OwnedInvariance, PTL DEF Spec

(* A run shown as live has its accounts and its organization, whichever of  *)
(* the paths to ready it took, as long as nobody acted on an outdated read  *)
(* of it, and no two events share a name (the teardown of one that does     *)
(* empties the org unit they share: run `same_name`).                       *)
THEOREM LiveEventsAreBuilt ==
  ASSUME NamesDiffer
  PROVE  Spec => []ReadyIsBuilt
  <1>1. ExpiryInv /\ BuiltInv => ReadyIsBuilt
    BY DEF ExpiryInv, RowsEnd, Ended, BuiltInv, Built, ReadyIsBuilt, Exists, NoRow, Down
  <1> QED
    BY <1>1, BuiltInvariance, ExpiryInvariance, PTL
=============================================================================
