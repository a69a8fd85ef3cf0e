-------------------------- MODULE ChallengeLayers --------------------------
(***************************************************************************)
(* What a GCP challenge has on top of its competitors' projects: a cluster *)
(* each, applied as one layer in one zone, and the scenarios the organizer *)
(* has ticked, each a layer of its own.                                    *)
(*                                                                         *)
(* A provision applies what is selected and takes away what the last       *)
(* successful one recorded and is no longer selected; what it records, in  *)
(* the run's outputs, is all the next one knows.  Zones run out of         *)
(* capacity, applies fail half-way, deployments change the region and the  *)
(* scenarios shipped, and the organizer edits the selection.               *)
(***************************************************************************)
EXTENDS Naturals, Sequences, FiniteSets, Functions

CONSTANTS
  ClusterOnly,     \* the scenario that is the cluster, and has no layer
  Issues,          \* the scenarios that break one
  Regions,
  ZonesOf,         \* the zone letters of a region, in the order tried
  Nowhere,
  MaxProvisions, MaxSelections, MaxRollouts, MaxLayerFaults

ASSUME LayersConstants ==
  /\ ClusterOnly \notin Issues
  /\ \A r \in Regions : ZonesOf[r] \in Seq(Range(ZonesOf[r])) /\ ZonesOf[r] # <<>>
  /\ {MaxProvisions, MaxSelections, MaxRollouts, MaxLayerFaults} \subseteq Nat

Ids == Issues \cup {ClusterOnly}
Places == UNION {{<<r, z>> : z \in Range(ZonesOf[r])} : r \in Regions}
NoOutputs == [applied |-> {}, location |-> Nowhere]

VARIABLES
  selected,    \* run.scenarios
  editing,     \* an edit whose status check has passed
  outputs,     \* run.outputs: scenarios_applied, gke_cluster_locations
  standing,    \* scenario layers that stand
  cluster,     \* where the clusters stand
  build,       \* what is deployed: the region for new runs, the scenarios shipped
  full,        \* places without capacity
  prov,        \* the provision under way
  layersLeft,  \* provisions, edits, rollouts and faults still to come
  stranded     \* history: layers no provision will take away, see the README

layersVars == <<selected, editing, outputs, standing, cluster, build, full, prov, layersLeft, stranded>>

Rest == [pc |-> "rest", sel |-> {}, out |-> NoOutputs, zones |-> <<>>, i |-> 0, off |-> {}, on |-> {},
         new |-> NoOutputs]

LayersInit ==
  /\ selected = {} /\ editing = FALSE
  /\ outputs = NoOutputs
  /\ standing = {} /\ cluster = Nowhere
  /\ \E r \in Regions : build = [region |-> r, shipped |-> Ids]
  /\ full = {}
  /\ prov = Rest
  /\ layersLeft \in {[provisions |-> MaxProvisions, selections |-> MaxSelections,
                      rollouts |-> MaxRollouts, faults |-> MaxLayerFaults],
                     [provisions |-> 0, selections |-> 0, rollouts |-> 0, faults |-> 0]}
  /\ stranded = {}

Spend(what) == layersLeft[what] > 0 /\ layersLeft' = [layersLeft EXCEPT ![what] = @ - 1]
ProvAt(pc) == prov.pc = pc

-----------------------------------------------------------------------------
(* The organizer: the status is checked, then the selection written by id.  *)

SelectionRead ==
  /\ ProvAt("rest") /\ ~editing /\ Spend("selections")
  /\ editing' = TRUE
  /\ UNCHANGED <<selected, outputs, standing, cluster, build, full, prov, stranded>>

(* withClusterScenario: an issue brings the cluster it breaks.              *)
WithCluster(S) == IF S \cap Issues = {} THEN S ELSE S \cup {ClusterOnly}

SelectionWritten ==
  /\ editing
  /\ editing' = FALSE
  /\ \E S \in SUBSET Ids : selected' = WithCluster(S)
  /\ UNCHANGED <<outputs, standing, cluster, build, full, prov, layersLeft, stranded>>

(* A rollout of another build or configuration; zones fill up and empty.    *)
Rollout ==
  /\ ProvAt("rest") /\ Spend("rollouts")
  /\ \/ \E r \in Regions : build' = [build EXCEPT !.region = r]
     \/ \E s \in Issues : build' = [build EXCEPT !.shipped = IF s \in @ THEN @ \ {s} ELSE @ \cup {s}]
  /\ UNCHANGED <<selected, editing, outputs, standing, cluster, full, prov, stranded>>

ZoneTurns ==
  /\ Spend("faults")
  /\ \E p \in Places : full' = IF p \in full THEN full \ {p} ELSE full \cup {p}
  /\ UNCHANGED <<selected, editing, outputs, standing, cluster, build, prov, stranded>>

-----------------------------------------------------------------------------
(* The cluster layer.                                                       *)

(* resolveScenarios: ids the build does not ship are dropped.               *)
Known(S) == S \cap build.shipped

ProvisionStart ==
  /\ ProvAt("rest") /\ Spend("provisions")
  /\ prov' = [Rest EXCEPT !.pc = "cluster", !.sel = selected, !.out = outputs]
  /\ UNCHANGED <<selected, editing, outputs, standing, cluster, build, full, stranded>>

(* gcpRegionFor, zoneLetterFromLocation: the zone recorded is the only one. *)
ZonesConfigured(out) ==    \* mutant: the recorded location must be in the configured region
  IF out.location # Nowhere /\ out.location[1] = build.region THEN <<out.location>>
  ELSE [k \in DOMAIN ZonesOf[build.region] |-> <<build.region, ZonesOf[build.region][k]>>]
ZonesToTry(out) ==
  IF out.location # Nowhere THEN <<out.location>>
  ELSE [k \in DOMAIN ZonesOf[build.region] |-> <<build.region, ZonesOf[build.region][k]>>]

(* needsCluster: with nothing selected the layer is left as it is, and its  *)
(* location is not among the outputs.                                       *)
ClusterWanted ==
  /\ ProvAt("cluster")
  /\ prov' = IF Known(prov.sel) = {} THEN [prov EXCEPT !.pc = "diff"]
             ELSE [prov EXCEPT !.pc = "zone", !.zones = ZonesToTry(prov.out), !.i = 1]
  /\ UNCHANGED <<selected, editing, outputs, standing, cluster, build, full, layersLeft, stranded>>

(* An apply elsewhere than where the clusters stand replaces them.          *)
ZoneApplied ==
  /\ ProvAt("zone")
  /\ LET here == prov.zones[prov.i] IN
       /\ cluster = here \/ here \notin full
       /\ cluster' = here
       /\ prov' = [prov EXCEPT !.pc = "diff", !.new.location = here]
  /\ UNCHANGED <<selected, editing, outputs, standing, build, full, layersLeft, stranded>>

LastZone(p) == p.i = Len(p.zones)

ZoneFull ==
  /\ ProvAt("zone")
  /\ LET here == prov.zones[prov.i] IN
       /\ cluster # here /\ here \in full
       /\ cluster' = Nowhere
  /\ prov' = IF LastZone(prov) THEN [prov EXCEPT !.pc = "full"] ELSE [prov EXCEPT !.i = @ + 1]
  /\ UNCHANGED <<selected, editing, outputs, standing, build, full, layersLeft, stranded>>

-----------------------------------------------------------------------------
(* reconcileScenarios.                                                      *)

Applied(S) == S \ {ClusterOnly}

RemovedIfOthers(want, previous) ==    \* mutant: nothing selected, nothing to do
  IF want = {} THEN {} ELSE Known(previous) \ want
Removed(want, previous) == Known(previous) \ want

NextAppliedKnown(want, previous) == want     \* mutant: unknown ids are dropped
NextApplied(want, previous) == want \cup (previous \ build.shipped)

DiffScenarios ==
  /\ ProvAt("diff")
  /\ LET want == Known(prov.sel)
         previous == prov.out.applied
         removed == Removed(want, previous)
     IN IF want = {} /\ removed = {}
        THEN /\ prov' = [prov EXCEPT !.pc = "finish"]
             /\ stranded' = stranded \cup (previous \ build.shipped)
        ELSE /\ prov' = [prov EXCEPT !.pc = "off", !.off = removed, !.on = want,
                                     !.new.applied = NextApplied(want, previous)]
             /\ UNCHANGED stranded
  /\ UNCHANGED <<selected, editing, outputs, standing, cluster, build, full, layersLeft>>

RemoveScenario ==
  /\ ProvAt("off")
  /\ \E s \in prov.off :
       /\ standing' = standing \ {s}
       /\ prov' = [prov EXCEPT !.off = @ \ {s}]
  /\ UNCHANGED <<selected, editing, outputs, cluster, build, full, layersLeft, stranded>>

AllOff == ProvAt("off") /\ prov.off = {}

ScenariosOff ==
  /\ AllOff
  /\ prov' = [prov EXCEPT !.pc = "on"]
  /\ UNCHANGED <<selected, editing, outputs, standing, cluster, build, full, layersLeft, stranded>>

ApplyScenario ==
  /\ ProvAt("on")
  /\ \E s \in prov.on :
       /\ standing' = standing \cup Applied({s})
       /\ prov' = [prov EXCEPT !.on = @ \ {s}]
  /\ UNCHANGED <<selected, editing, outputs, cluster, build, full, layersLeft, stranded>>

ScenariosOn ==
  /\ ProvAt("on") /\ prov.on = {}
  /\ prov' = [prov EXCEPT !.pc = "finish"]
  /\ UNCHANGED <<selected, editing, outputs, standing, cluster, build, full, layersLeft, stranded>>

(* setReady: the outputs of this provision take the place of the last one's.*)
ProvisionDone ==
  /\ ProvAt("finish")
  /\ outputs' = prov.new
  /\ prov' = Rest
  /\ UNCHANGED <<selected, editing, standing, cluster, build, full, layersLeft, stranded>>

(* No zone had room, or an apply fails or the process dies, having done its *)
(* work, part of it or nothing: the outputs stay those of the last success. *)
ProvisionStops ==
  /\ stranded' = stranded \cup (standing' \ outputs.applied)
  /\ prov' = Rest
  /\ UNCHANGED <<selected, editing, outputs, cluster, build, full>>

ProvisionFull == ProvAt("full") /\ UNCHANGED <<standing, layersLeft>> /\ ProvisionStops

ProvisionFails ==
  /\ prov.pc \notin {"rest", "full"} /\ Spend("faults")
  /\ \/ UNCHANGED standing
     \/ ProvAt("on") /\ \E s \in prov.on : standing' = standing \cup Applied({s})
     \/ ProvAt("off") /\ \E s \in prov.off : standing' = standing \ {s}
  /\ ProvisionStops

LayersNext ==
  \/ SelectionRead \/ SelectionWritten \/ Rollout \/ ZoneTurns
  \/ ProvisionStart \/ ClusterWanted \/ ZoneApplied \/ ZoneFull
  \/ DiffScenarios \/ RemoveScenario \/ ScenariosOff \/ ApplyScenario \/ ScenariosOn
  \/ ProvisionDone \/ ProvisionFull \/ ProvisionFails

LayersSpec == LayersInit /\ [][LayersNext]_layersVars

-----------------------------------------------------------------------------
LayersOutputs == [applied : SUBSET Ids, location : Places \cup {Nowhere}]

LayersTypeOK ==
  /\ selected \subseteq Ids /\ editing \in BOOLEAN
  /\ outputs \in LayersOutputs
  /\ standing \subseteq Issues
  /\ cluster \in Places \cup {Nowhere}
  /\ build \in [region : Regions, shipped : SUBSET Ids]
  /\ full \subseteq Places
  /\ prov.pc \in {"rest", "cluster", "zone", "full", "diff", "off", "on", "finish"}
  /\ prov.sel \subseteq Ids /\ prov.off \subseteq Ids /\ prov.on \subseteq Ids
  /\ prov.out \in LayersOutputs /\ prov.new \in LayersOutputs
  /\ Range(prov.zones) \subseteq Places /\ prov.i \in 0 .. Len(prov.zones)
  /\ layersLeft.provisions \in 0 .. MaxProvisions /\ layersLeft.selections \in 0 .. MaxSelections
  /\ layersLeft.rollouts \in 0 .. MaxRollouts /\ layersLeft.faults \in 0 .. MaxLayerFaults
  /\ stranded \subseteq Ids

(* Clusters whose location the run has recorded are not moved, whatever     *)
(* region, zones, selection and failures the next provisions meet: nobody's *)
(* environment is rebuilt under them.                                       *)
RecordedClusterStays == [][outputs.location # Nowhere => cluster' = cluster]_layersVars

(* What stands is what the next provision will take away or what is still   *)
(* selected; a layer is overlooked only once a provision that was building  *)
(* it failed, or its scenario was not shipped when all the rest was off.    *)
StandingIsKnown == standing \subseteq outputs.applied \cup stranded \cup prov.sel

(* A provision that succeeds leaves the scenarios it was asked for and, but *)
(* for the overlooked, no other the build can take away.                    *)
ReadyIsSelected ==
  ProvAt("finish") => /\ Applied(Known(prov.sel)) \subseteq standing
                      /\ Known(standing) \subseteq prov.sel \cup stranded
=============================================================================
