--------------------------- MODULE ServicesProofs ---------------------------
(***************************************************************************)
(* Side by side the services do what each does alone: what is proved of    *)
(* a part holds of the composition, whatever the others are up to.         *)
(***************************************************************************)
EXTENDS Services, ProvisionProofs, TimedProofs, LearningProofs

-----------------------------------------------------------------------------
(* A step of the services is a step of a part or leaves that part alone:    *)
(* none writes what belongs to another.                                     *)
LEMMA PartsStep ==
  [ServicesNext]_servicesVars =>
    /\ [ScrubNext]_scrubVars
    /\ [RecordingNext]_recordingVars
    /\ [JobsNext]_jobVars
    /\ [AwsNext]_awsVars
    /\ [LayersNext]_layersVars
    /\ [CatalogNext]_catalogVars
    /\ [PullNext]_pullVars
    /\ [StudioNext]_studioVars
    /\ [IrisNext]_irisVars
<1> SUFFICES ASSUME [ServicesNext]_servicesVars
             PROVE  /\ [ScrubNext]_scrubVars
                    /\ [RecordingNext]_recordingVars
                    /\ [JobsNext]_jobVars
                    /\ [AwsNext]_awsVars
                    /\ [LayersNext]_layersVars
                    /\ [CatalogNext]_catalogVars
                    /\ [PullNext]_pullVars
                    /\ [StudioNext]_studioVars
                    /\ [IrisNext]_irisVars
  OBVIOUS
<1>1. CASE ScrubNext /\ UNCHANGED othersThanScrub
  BY <1>1, Zenon DEF othersThanScrub
<1>2. CASE RecordingNext /\ UNCHANGED othersThanRecording
  BY <1>2, Zenon DEF othersThanRecording
<1>3. CASE JobsNext /\ UNCHANGED othersThanJobs
  BY <1>3, Zenon DEF othersThanJobs
<1>4. CASE AwsNext /\ UNCHANGED othersThanAws
  BY <1>4, Zenon DEF othersThanAws
<1>5. CASE LayersNext /\ UNCHANGED othersThanLayers
  BY <1>5, Zenon DEF othersThanLayers
<1>6. CASE CatalogNext /\ UNCHANGED othersThanCatalog
  BY <1>6, Zenon DEF othersThanCatalog
<1>7. CASE PullNext /\ UNCHANGED othersThanPull
  BY <1>7, Zenon DEF othersThanPull
<1>8. CASE StudioNext /\ UNCHANGED othersThanStudio
  BY <1>8, Zenon DEF othersThanStudio
<1>9. CASE IrisNext /\ UNCHANGED othersThanIris
  BY <1>9, Zenon DEF othersThanIris
<1>10. CASE UNCHANGED servicesVars
  BY <1>10, Zenon DEF servicesVars
<1> QED
  BY <1>1, <1>2, <1>3, <1>4, <1>5, <1>6, <1>7, <1>8, <1>9, <1>10, Zenon DEF ServicesNext

(* Every behaviour of the services is one of each part, so that each        *)
(* theorem about a part is one about the services.                          *)
THEOREM PartsStandAlone ==
  ServicesSpec =>
    /\ ScrubSpec /\ RecordingSpec /\ JobsSpec /\ AwsSpec /\ LayersSpec
    /\ CatalogSpec /\ PullSpec /\ StudioSpec /\ IrisSpec
<1>1. ServicesInit =>
        /\ ScrubInit /\ RecordingInit /\ JobsInit /\ AwsInit /\ LayersInit
        /\ CatalogInit /\ PullInit /\ StudioInit /\ IrisInit
  BY DEF ServicesInit
<1> QED
  BY <1>1, PartsStep, PTL
  DEF ServicesSpec, ScrubSpec, RecordingSpec, JobsSpec, AwsSpec, LayersSpec, CatalogSpec, PullSpec, StudioSpec, IrisSpec

(* Every variable of the services keeps its type.                           *)
THEOREM ServicesTypeCorrect == ServicesSpec => []ServicesTypeOK
<1>1. RecordingTyped => RecordingTypeOK
  BY DEF RecordingTyped
<1>2. /\ ScrubTypeOK /\ RecordingTypeOK /\ JobsTypeOK /\ AwsTypeOK /\ LayersTypeOK
      /\ CatalogTypeOK /\ PullTypeOK /\ StudioTypeOK /\ IrisTypeOK
      => ServicesTypeOK
  BY DEF ServicesTypeOK
<1> QED
  BY <1>1, <1>2, PartsStandAlone, ScrubTypeCorrect, RecordingTypeCorrect, JobsTypeCorrect, FullBudgets,
     LayersTypeCorrect, CatalogTypeCorrect, PullTypeCorrect, StudioTypeCorrect, IrisTypeCorrect, PTL

(* What the services promise, all of it at once and for any instance, as    *)
(* long as a recorder at work is not listed as ended and a join does not    *)
(* outlast its claim.                                                       *)
THEOREM ServicesAreSafe ==
  ASSUME Punctual = TRUE, PatientJoin = TRUE
  PROVE  ServicesSpec =>
           /\ []RealIsOwed /\ []FileIsWhole /\ []StartedOnce /\ []DueIsClaimed /\ []RunningIsRunning
           /\ []BudgetsAreApart /\ []StandingIsKnown /\ []ReadyIsSelected
           /\ []PartsComeFirst /\ []PassIsComplete /\ []RefusalIsDeserved /\ []OrgIsEmptied
           /\ []OneStepWorks /\ []SuccessIsShown /\ []TranslationsMatch /\ []SittingIsFair
           /\ TheirsIsKept /\ HandoverKept /\ NothingCaughtUp /\ RecordedClusterStays /\ ProgressIsKept
<1>1. JobsSpec => []StartedOnce /\ []DueIsClaimed /\ []RunningIsRunning /\ NothingCaughtUp
  BY ClaimsAreOnce, DueTimesAreClaimed, RunningIsTrue, ChangesCount, PTL
<1>2. ScrubSpec => []RealIsOwed /\ TheirsIsKept
  BY CredentialIsOwed, OwnersValueIsKept, PTL
<1>3. RecordingSpec => []FileIsWhole /\ HandoverKept
  BY FilesAreWhole, HandoverIsKept, PTL
<1>4. AwsSpec => []BudgetsAreApart
  BY FullBudgets, PTL
<1>5. LayersSpec => []StandingIsKnown /\ []ReadyIsSelected /\ RecordedClusterStays
  BY LayersAreKnown, SuccessIsSelected, ClustersAreNotMoved, PTL
<1>6. CatalogSpec => []PartsComeFirst /\ []PassIsComplete /\ []RefusalIsDeserved /\ []OrgIsEmptied
  BY PartsStandFirst, PassesAreComplete, RefusalsAreDeserved, TeardownsEmptyOrgs, PTL
<1>7. PullSpec => []OneStepWorks /\ []SuccessIsShown
  BY StepsAreExclusive, SuccessesAreShown, PTL
<1>8. IrisSpec => []SittingIsFair /\ ProgressIsKept
  BY SittingsAreFair, AnswersAreKept, PTL
<1> QED
  BY <1>1, <1>2, <1>3, <1>4, <1>5, <1>6, <1>7, <1>8, TranslationsAreTheirs, PartsStandAlone, PTL
=============================================================================
