----------------------------- MODULE MCServices -----------------------------
(***************************************************************************)
(* The instance of Services that TLC checks.  Parts that share nothing     *)
(* need not be explored in every combination: in each initial state one of *)
(* them has something to do and the others nothing, so their states add up *)
(* and do not multiply.                                                    *)
(***************************************************************************)
EXTENDS Services, TLC

MCSchedules == {{1, 3}, {2}}
MCDelays == "contention" :> 1 @@ "warmup" :> 2
MCZonesOf == "east" :> <<"a", "b">> @@ "west" :> <<"a">>

MCLeft(starts, answers, withdrawals, others) ==
  [starts |-> starts, answers |-> answers, withdrawals |-> withdrawals,
   banks |-> others, clearings |-> others, losses |-> others]
MCOccasions ==
  {[approved |-> <<12, 14, 12>>, left |-> MCLeft(1, 18, 0, 0)],
   [approved |-> <<6, 2, 2>>, left |-> MCLeft(1, 18, 0, 0)],
   [approved |-> <<3, 4, 3>>, left |-> MCLeft(1, 18, 1, 0)],
   [approved |-> <<2, 6, 2>>, left |-> MCLeft(3, 2, 0, 1)],
   [approved |-> <<0, 0, 0>>, left |-> MCLeft(0, 0, 0, 0)]}

ScrubAsleep == budget.deploys = 0
RecordingAsleep == ~take.kept
JobsAsleep == clock = Horizon
AwsAsleep == \A r \in AwsRuns : AwsAt(r, "built")
LayersAsleep == layersLeft.provisions = 0 /\ build.region = "east"
CatalogAsleep == PassAt("gone") /\ \A c \in Components : Unmet(c) = {}
PullAsleep == pullLeft.pulls = 0
StudioAsleep == studioLeft.imports = 0 /\ (\A j \in StudioJobs : studioJob[j].status = "succeeded") /\ videos.en = NoVideo
IrisAsleep == irisLeft.starts = 0

(* ServicesInit, with everything but one part asleep.                       *)
OneAwake(parts) ==
  \E awake \in parts :
    /\ ScrubInit /\ (awake # "scrub" => ScrubAsleep)
    /\ RecordingInit /\ (awake # "recording" => RecordingAsleep)
    /\ JobsInit /\ (awake # "jobs" => JobsAsleep)
    /\ AwsInit /\ (awake # "aws" => AwsAsleep)
    /\ LayersInit /\ (awake # "layers" => LayersAsleep)
    /\ CatalogInit /\ (awake # "catalog" => CatalogAsleep)
    /\ PullInit /\ (awake # "pull" => PullAsleep)
    /\ StudioInit /\ (awake # "studio" => StudioAsleep)
    /\ IrisInit /\ (awake # "iris" => IrisAsleep)

MCSpec ==
  /\ OneAwake({"scrub", "recording", "jobs", "aws", "layers", "catalog", "pull", "studio", "iris"})
  /\ [][ServicesNext]_servicesVars

(* The same for what must come about in the end; the parts that nothing     *)
(* obliges to move are asleep.                                              *)
MCLiveSpec ==
  /\ OneAwake({"scrub", "recording", "aws", "pull"})
  /\ [][ServicesNext]_servicesVars
  /\ ServicesFairness

(* The members of a pair can change places.  It is enough to swap all the   *)
(* pairs at once, as only one part is awake.                                *)
MCPairs == {Sweeps, Tabs, Handlers, Calls, AwsRuns, StudioJobs, Visits}
MCOther(x) == CHOOSE y \in UNION MCPairs : y # x /\ \E pair \in MCPairs : {x, y} \subseteq pair
MCSymmetry == {[x \in UNION MCPairs |-> IF swap THEN MCOther(x) ELSE x] : swap \in BOOLEAN}
=============================================================================
