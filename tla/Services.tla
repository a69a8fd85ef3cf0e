------------------------------ MODULE Services ------------------------------
(***************************************************************************)
(* The parts of the system that share no state with one another, side by   *)
(* side: a behaviour is an interleaving of theirs.                         *)
(***************************************************************************)
EXTENDS SecretScrub, RecordingUpload, TimedJobs, AwsApply, ChallengeLayers, ComponentCatalog, CanaryPull,
        StudioVideos, IrisSitting

othersThanScrub == <<recordingVars, jobVars, awsVars, layersVars, catalogVars, pullVars, studioVars, irisVars>>
othersThanRecording == <<scrubVars, jobVars, awsVars, layersVars, catalogVars, pullVars, studioVars, irisVars>>
othersThanJobs == <<scrubVars, recordingVars, awsVars, layersVars, catalogVars, pullVars, studioVars, irisVars>>
othersThanAws == <<scrubVars, recordingVars, jobVars, layersVars, catalogVars, pullVars, studioVars, irisVars>>
othersThanLayers == <<scrubVars, recordingVars, jobVars, awsVars, catalogVars, pullVars, studioVars, irisVars>>
othersThanCatalog == <<scrubVars, recordingVars, jobVars, awsVars, layersVars, pullVars, studioVars, irisVars>>
othersThanPull == <<scrubVars, recordingVars, jobVars, awsVars, layersVars, catalogVars, studioVars, irisVars>>
othersThanStudio == <<scrubVars, recordingVars, jobVars, awsVars, layersVars, catalogVars, pullVars, irisVars>>
othersThanIris == <<scrubVars, recordingVars, jobVars, awsVars, layersVars, catalogVars, pullVars, studioVars>>

ServicesNext ==
  \/ ScrubNext /\ UNCHANGED othersThanScrub
  \/ RecordingNext /\ UNCHANGED othersThanRecording
  \/ JobsNext /\ UNCHANGED othersThanJobs
  \/ AwsNext /\ UNCHANGED othersThanAws
  \/ LayersNext /\ UNCHANGED othersThanLayers
  \/ CatalogNext /\ UNCHANGED othersThanCatalog
  \/ PullNext /\ UNCHANGED othersThanPull
  \/ StudioNext /\ UNCHANGED othersThanStudio
  \/ IrisNext /\ UNCHANGED othersThanIris

servicesVars == <<scrubVars, recordingVars, jobVars, awsVars, layersVars, catalogVars, pullVars, studioVars,
                  irisVars>>

ServicesInit ==
  /\ ScrubInit /\ RecordingInit /\ JobsInit /\ AwsInit /\ LayersInit /\ CatalogInit /\ PullInit /\ StudioInit
  /\ IrisInit

ServicesSpec == ServicesInit /\ [][ServicesNext]_servicesVars

ServicesFairness == ScrubFairness /\ RecordingFairness /\ AwsFairness /\ PullFairness

ServicesTypeOK ==
  /\ ScrubTypeOK /\ RecordingTypeOK /\ JobsTypeOK /\ AwsTypeOK /\ LayersTypeOK /\ CatalogTypeOK /\ PullTypeOK
  /\ StudioTypeOK /\ IrisTypeOK
=============================================================================
