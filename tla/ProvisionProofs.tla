-------------------------- MODULE ProvisionProofs --------------------------
(***************************************************************************)
(* What a provision makes in the clouds: how often it tries, where, and    *)
(* which layers and components it leaves standing, for every value of the  *)
(* constants.                                                              *)
(***************************************************************************)
EXTENDS AwsApply, ChallengeLayers, ComponentCatalog, FiniteSetTheorems, WellFoundedInduction, TLAPS

-----------------------------------------------------------------------------
(* AwsApply.                                                               *)
AwsRow == [pc : {"apply", "judge", "wait", "built", "failed"}, attempts : [Kinds -> Nat],
           account : Accounts, signs : SUBSET Kinds, met : [Kinds -> Nat], real : BOOLEAN]

(* What makes BudgetsAreApart inductive, for one run: of each kind it has   *)
(* met what it has waited for, and the one failure being judged.            *)
Judged(w, k) == w.signs # {} /\ RetryKind(w.signs) = k
Accounted(w) ==
  /\ \A k \in Kinds : w.attempts[k] <= Delays[k]
  /\ w.pc = "apply" => w.signs = {}
  /\ w.pc \in {"apply", "wait", "built"} => \A k \in Kinds : w.met[k] = w.attempts[k]
  /\ w.pc = "judge" =>
       /\ w.signs = {} => w.real
       /\ \A k \in Kinds : w.met[k] = IF Judged(w, k) THEN w.attempts[k] + 1 ELSE w.attempts[k]
  /\ w.pc = "failed" => w.real \/ \E k \in Kinds : w.met[k] > Delays[k]

AwsSafe == aws \in [AwsRuns -> AwsRow] /\ throttled \in BOOLEAN /\ \A r \in AwsRuns : Accounted(aws[r])

LEMMA RetryKindTyped == \A signs \in SUBSET Kinds : RetryKind(signs) \in Kinds
  BY DEF RetryKind, Kinds

LEMMA SignsTyped == \A r \in AwsRuns : Signs(r) \in SUBSET Kinds
  BY DEF Signs, Kinds

(* One more of a kind, for a run within its budget.                         *)
LEMMA CountAddsOne ==
  ASSUME NEW met \in [Kinds -> Nat], NEW k \in Kinds, met[k] <= Delays[k]
  PROVE  Count(met, k) \in [Kinds -> Nat] /\ \A j \in Kinds : Count(met, k)[j] = IF j = k THEN met[j] + 1 ELSE met[j]
<1>1. ~(met[k] > Delays[k]) /\ met[k] \in Nat
  BY AwsConstants
<1>2. Count(met, k) = [met EXCEPT ![k] = met[k] + 1]
  BY <1>1 DEF Count
<1> QED
  BY <1>1, <1>2

LEMMA AwsStep ==
  ASSUME AwsSafe, AwsNext
  PROVE  AwsSafe'
<1> USE DEF AwsSafe
<1>1. CASE Traffic
  BY <1>1 DEF Traffic, Accounted
<1>2. ASSUME NEW r \in AwsRuns, ApplyStep(r) \/ AccountSwitchedOn(r)
      PROVE  /\ throttled' = throttled
             /\ aws'[r] \in AwsRow /\ Accounted(aws'[r])
             /\ \E w \in AwsRow : aws' = [aws EXCEPT ![r] = w]
  <2>1. aws[r] \in AwsRow /\ Accounted(aws[r])
    BY <1>2
  <2>2. /\ aws[r].attempts \in [Kinds -> Nat] /\ aws[r].met \in [Kinds -> Nat] /\ aws[r].signs \in SUBSET Kinds
        /\ \A k \in Kinds : Delays[k] \in Nat
    BY <2>1, AwsConstants DEF AwsRow
  <2>3. CASE CreateAccount(r) \/ AccountActive(r) \/ AccountSwitchedOn(r)
    <3>1. \E a \in Accounts : aws' = [aws EXCEPT ![r] = [aws[r] EXCEPT !.account = a]] /\ UNCHANGED throttled
      BY <2>3 DEF CreateAccount, AccountActive, AccountSwitchedOn, Accounts
    <3>2. PICK a \in Accounts : aws' = [aws EXCEPT ![r] = [aws[r] EXCEPT !.account = a]]
      BY <3>1
    <3> DEFINE w == [aws[r] EXCEPT !.account = a]
    <3>3. w \in AwsRow
      BY <2>1 DEF AwsRow
    <3>4. Accounted(w)
      BY <2>1 DEF Accounted, AwsRow, Judged
    <3> QED
      BY <3>1, <3>2, <3>3, <3>4
  <2>4. CASE Built(r)
    <3> DEFINE w == [aws[r] EXCEPT !.pc = "built"]
    <3>1. aws' = [aws EXCEPT ![r] = w] /\ UNCHANGED throttled /\ aws[r].pc = "apply"
      BY <2>4 DEF Built, AwsAt
    <3>2. w \in AwsRow
      BY <2>1 DEF AwsRow
    <3>3. Accounted(w)
      BY <2>1, <3>1 DEF Accounted, AwsRow, Judged
    <3> QED
      BY <3>1, <3>2, <3>3
  <2>5. CASE ApplyStops(r)
    <3>1. PICK signs \in {Signs(r), {}} :
            aws' = [aws EXCEPT ![r].pc = "judge", ![r].signs = signs, ![r].real = (@ \/ signs = {}),
                          ![r].met = IF signs = {} THEN @ ELSE Count(@, RetryKind(signs))]
      BY <2>5 DEF ApplyStops
    <3>2. aws[r].pc = "apply" /\ UNCHANGED throttled
      BY <2>5 DEF ApplyStops, AwsAt
    <3> DEFINE met == IF signs = {} THEN aws[r].met ELSE Count(aws[r].met, RetryKind(signs))
               w == [aws[r] EXCEPT !.pc = "judge", !.signs = signs, !.real = (aws[r].real \/ signs = {}), !.met = met]
    <3>3. aws' = [aws EXCEPT ![r] = w]
      BY <3>1
    <3>4. signs \in SUBSET Kinds
      BY SignsTyped
    <3>5. \A k \in Kinds : aws[r].met[k] = aws[r].attempts[k] /\ aws[r].met[k] <= Delays[k]
      BY <2>1, <3>2 DEF Accounted
    <3>6. /\ met \in [Kinds -> Nat]
          /\ \A k \in Kinds : met[k] = IF signs # {} /\ RetryKind(signs) = k THEN aws[r].met[k] + 1 ELSE aws[r].met[k]
      BY <2>2, <3>4, <3>5, CountAddsOne, RetryKindTyped
    <3>7. /\ w.pc = "judge" /\ w.signs = signs /\ w.met = met /\ w.attempts = aws[r].attempts
          /\ w.real = (aws[r].real \/ signs = {})
      BY <2>1 DEF AwsRow
    <3>8. w \in AwsRow
      BY <2>1, <3>4, <3>6 DEF AwsRow
    <3>9. Accounted(w)
      <4>1. \A k \in Kinds : w.attempts[k] <= Delays[k]
        BY <2>1, <3>7 DEF Accounted
      <4>2. w.signs = {} => w.real
        BY <3>7, Zenon
      <4>3. \A k \in Kinds : w.met[k] = IF Judged(w, k) THEN w.attempts[k] + 1 ELSE w.attempts[k]
        BY <3>5, <3>6, <3>7 DEF Judged
      <4> HIDE DEF w
      <4> QED
        BY <3>7, <4>1, <4>2, <4>3 DEF Accounted
    <3> QED
      BY <3>2, <3>3, <3>8, <3>9
  <2>6. CASE Retry(r)
    <3> DEFINE k == RetryKind(aws[r].signs)
               attempts == [aws[r].attempts EXCEPT ![k] = @ + 1]
               w == [aws[r] EXCEPT !.attempts = attempts, !.pc = "wait"]
    <3>1. /\ aws[r].pc = "judge" /\ aws[r].signs # {} /\ aws[r].attempts[k] < Delays[k]
          /\ aws' = [aws EXCEPT ![r] = w] /\ UNCHANGED throttled
      BY <2>6 DEF Retry, AwsAt, WorthAnother
    <3>2. k \in Kinds
      BY <2>2, RetryKindTyped
    <3>3. attempts \in [Kinds -> Nat] /\ \A j \in Kinds : attempts[j] = IF j = k THEN aws[r].attempts[j] + 1 ELSE aws[r].attempts[j]
      BY <2>2, <3>2
    <3>4. w.pc = "wait" /\ w.attempts = attempts /\ w.met = aws[r].met /\ w.signs = aws[r].signs /\ w.real = aws[r].real
      BY <2>1 DEF AwsRow
    <3>5. w \in AwsRow
      BY <2>1, <3>3 DEF AwsRow
    <3>6. \A j \in Kinds : aws[r].met[j] = attempts[j]
      BY <2>1, <3>1, <3>3 DEF Accounted, Judged
    <3>7. \A j \in Kinds : attempts[j] <= Delays[j]
      BY <2>1, <2>2, <3>1, <3>3 DEF Accounted
    <3>8. Accounted(w)
      BY <3>4, <3>6, <3>7 DEF Accounted
    <3> QED
      BY <3>1, <3>5, <3>8
  <2>7. CASE GiveUp(r)
    <3> DEFINE k == RetryKind(aws[r].signs)
               w == [aws[r] EXCEPT !.pc = "failed"]
    <3>1. /\ aws[r].pc = "judge" /\ (aws[r].signs = {} \/ ~(aws[r].attempts[k] < Delays[k]))
          /\ aws' = [aws EXCEPT ![r] = w] /\ UNCHANGED throttled
      BY <2>7 DEF GiveUp, AwsAt, WorthAnother
    <3>2. k \in Kinds
      BY <2>2, RetryKindTyped
    <3>3. w.pc = "failed" /\ w.attempts = aws[r].attempts /\ w.met = aws[r].met /\ w.signs = aws[r].signs /\ w.real = aws[r].real
      BY <2>1 DEF AwsRow
    <3>4. w \in AwsRow
      BY <2>1 DEF AwsRow
    <3>5. aws[r].signs # {} => aws[r].met[k] > Delays[k]
      BY <2>1, <2>2, <3>1, <3>2 DEF Accounted, Judged
    <3>6. aws[r].signs = {} => aws[r].real
      BY <2>1, <3>1 DEF Accounted
    <3>7. Accounted(w)
      BY <2>1, <3>2, <3>3, <3>5, <3>6 DEF Accounted
    <3> QED
      BY <3>1, <3>4, <3>7
  <2>8. CASE Waited(r)
    <3> DEFINE w == [aws[r] EXCEPT !.pc = "apply", !.signs = {}]
    <3>1. aws' = [aws EXCEPT ![r] = w] /\ UNCHANGED throttled /\ aws[r].pc = "wait"
      BY <2>8 DEF Waited, AwsAt
    <3>2. w.pc = "apply" /\ w.attempts = aws[r].attempts /\ w.met = aws[r].met /\ w.signs = {} /\ w.real = aws[r].real
      BY <2>1 DEF AwsRow
    <3>3. w \in AwsRow
      BY <2>1 DEF AwsRow
    <3>4. Accounted(w)
      BY <2>1, <3>1, <3>2 DEF Accounted
    <3> QED
      BY <3>1, <3>3, <3>4
  <2> QED
    BY <1>2, <2>3, <2>4, <2>5, <2>6, <2>7, <2>8 DEF ApplyStep
<1>3. ASSUME NEW r \in AwsRuns, ApplyStep(r) \/ AccountSwitchedOn(r)
      PROVE  AwsSafe'
  <2>1. PICK w \in AwsRow : aws' = [aws EXCEPT ![r] = w]
    BY <1>2, <1>3
  <2>2. aws' \in [AwsRuns -> AwsRow] /\ \A q \in AwsRuns \ {r} : aws'[q] = aws[q]
    BY <2>1
  <2> QED
    BY <1>2, <1>3, <2>2
<1> QED
  BY <1>1, <1>3 DEF AwsNext

(* "A run that hits both still gets a full budget for each", whatever the   *)
(* budgets, for runs that share one organization.                           *)
THEOREM FullBudgets == AwsSpec => [](AwsTypeOK /\ BudgetsAreApart)
<1>1. AwsInit => AwsSafe
  <2> SUFFICES ASSUME AwsInit PROVE AwsSafe
    OBVIOUS
  <2>1. PICK pc \in {"apply", "built"} : aws = [r \in AwsRuns |-> Fresh(pc)]
    BY DEF AwsInit
  <2>2. Zero \in [Kinds -> Nat] /\ \A k \in Kinds : Zero[k] = 0 /\ Delays[k] \in Nat
    BY AwsConstants DEF Zero
  <2>3. Fresh(pc) \in AwsRow
    BY <2>2 DEF Fresh, AwsRow, Accounts
  <2>4. Accounted(Fresh(pc))
    BY <2>2 DEF Fresh, Accounted
  <2> QED
    BY <2>1, <2>3, <2>4 DEF AwsSafe, AwsInit
<1>2. AwsSafe /\ [AwsNext]_awsVars => AwsSafe'
  <2>1. CASE AwsNext
    BY <2>1, AwsStep
  <2>2. CASE UNCHANGED awsVars
    BY <2>2 DEF awsVars, AwsSafe
  <2> QED
    BY <2>1, <2>2
<1>3. AwsSafe => AwsTypeOK /\ BudgetsAreApart
  BY DEF AwsSafe, AwsTypeOK, AwsRow, BudgetsAreApart, AwsAt, Accounted
<1> QED
  BY <1>1, <1>2, <1>3, PTL DEF AwsSpec

-----------------------------------------------------------------------------
(* ChallengeLayers.                                                        *)
ProvisionPcs == {"rest", "cluster", "zone", "full", "diff", "off", "on", "finish"}

Provision == [pc : ProvisionPcs, sel : SUBSET Ids, out : LayersOutputs, zones : Seq(Places), i : Nat,
              off : SUBSET Ids, on : SUBSET Ids, new : LayersOutputs]

LayersTyped ==
  /\ selected \subseteq Ids
  /\ outputs \in LayersOutputs
  /\ cluster \in Places \cup {Nowhere}
  /\ build \in [region : Regions, shipped : SUBSET Ids]
  /\ prov \in Provision

(* The cluster is where the last success recorded it; a provision works     *)
(* from those very outputs, has no zone but that one to try, and has in its *)
(* own outputs no place but the one it applied.                             *)
ClusterIsRecorded == outputs.location # Nowhere => cluster = outputs.location
WorksFromOutputs == prov.pc # "rest" => prov.out = outputs
TriesRecorded ==
  prov.pc = "zone" => /\ prov.i \in DOMAIN prov.zones
                      /\ outputs.location # Nowhere => prov.zones = <<outputs.location>>
AppliedIsNew ==
  prov.new.location # Nowhere =>
    prov.pc \notin {"rest", "cluster", "zone", "full"} /\ cluster = prov.new.location

LayersInv == LayersTyped /\ ClusterIsRecorded /\ WorksFromOutputs /\ TriesRecorded /\ AppliedIsNew

-----------------------------------------------------------------------------
LEMMA NoOutputsTyped == NoOutputs \in LayersOutputs
  BY DEF NoOutputs, LayersOutputs

LEMMA ProvisionRestTyped == Rest \in Provision
  BY NoOutputsTyped DEF Rest, Provision, ProvisionPcs

LEMMA PlaceTyped ==
  ASSUME NEW r \in Regions, NEW k \in DOMAIN ZonesOf[r]
  PROVE  <<r, ZonesOf[r][k]>> \in Places
  BY DEF Places, Range

(* Which zones a provision tries: places, at least one, and only the one    *)
(* recorded when there is one.                                              *)
LEMMA ZonesAreTried ==
  ASSUME NEW out \in LayersOutputs, build \in [region : Regions, shipped : SUBSET Ids]
  PROVE  /\ ZonesToTry(out) \in Seq(Places)
         /\ 1 \in DOMAIN ZonesToTry(out)
         /\ out.location # Nowhere => ZonesToTry(out) = <<out.location>>
<1>1. CASE out.location # Nowhere
  <2>1. out.location \in Places
    BY <1>1 DEF LayersOutputs
  <2> QED
    BY <1>1, <2>1 DEF ZonesToTry
<1>2. CASE out.location = Nowhere
  <2> DEFINE letters == ZonesOf[build.region]
             zones == [k \in DOMAIN letters |-> <<build.region, letters[k]>>]
  <2>1. build.region \in Regions
    OBVIOUS
  <2>2. letters \in Seq(Range(letters)) /\ letters # <<>>
    BY <2>1, LayersConstants
  <2>3. PICK n \in Nat : DOMAIN letters = 1 .. n
    BY <2>2
  <2>4. n # 0
    BY <2>2, <2>3
  <2>5. zones \in [1 .. n -> Places]
    BY <2>1, <2>3, PlaceTyped
  <2>6. zones \in Seq(Places) /\ DOMAIN zones = 1 .. n
    BY <2>5
  <2>7. ZonesToTry(out) = zones
    BY <1>2 DEF ZonesToTry
  <2> QED
    BY <1>2, <2>4, <2>6, <2>7
<1> QED
  BY <1>1, <1>2

(* An apply touches the clusters in one place, and when their place is      *)
(* recorded it is that one.                                                 *)
LEMMA AppliesHere ==
  ASSUME LayersInv, ProvAt("zone")
  PROVE  /\ prov.zones[prov.i] \in Places
         /\ outputs.location # Nowhere => prov.zones[prov.i] = cluster
<1>1. prov.i \in DOMAIN prov.zones /\ prov.zones \in Seq(Places)
  BY DEF LayersInv, TriesRecorded, ProvAt, LayersTyped, Provision
<1>2. prov.zones[prov.i] \in Places
  BY <1>1
<1>3. ASSUME outputs.location # Nowhere
      PROVE  prov.zones[prov.i] = cluster
  <2>1. prov.zones = <<outputs.location>> /\ cluster = outputs.location
    BY <1>3 DEF LayersInv, TriesRecorded, ProvAt, ClusterIsRecorded
  <2>2. prov.i = 1
    BY <1>1, <2>1
  <2> QED
    BY <2>1, <2>2
<1> QED
  BY <1>2, <1>3

LEMMA LayersInitInv == LayersInit => LayersInv
<1> SUFFICES ASSUME LayersInit PROVE LayersInv
  OBVIOUS
<1>1. LayersTyped
  BY ProvisionRestTyped, NoOutputsTyped DEF LayersInit, LayersTyped
<1>2. outputs.location = Nowhere /\ prov.pc = "rest" /\ prov.new.location = Nowhere
  BY DEF LayersInit, Rest, NoOutputs
<1> QED
  BY <1>1, <1>2 DEF LayersInv, ClusterIsRecorded, WorksFromOutputs, TriesRecorded, AppliedIsNew

(* What a step that leaves the clusters and the recorded outputs alone has  *)
(* to keep of the provision.                                                *)
LEMMA ProvisionMoves ==
  ASSUME LayersInv, UNCHANGED <<selected, outputs, cluster, build>>, prov' \in Provision,
         prov.pc \in {"diff", "off", "on"}, prov'.pc \in {"diff", "off", "on", "finish"},
         prov'.out = prov.out, prov'.new.location = prov.new.location
  PROVE  LayersInv'
  BY DEF LayersInv, LayersTyped, ClusterIsRecorded, WorksFromOutputs, TriesRecorded, AppliedIsNew

LEMMA ProvisionRests ==
  ASSUME LayersInv, UNCHANGED <<selected, outputs, cluster, build>>, prov' = Rest
  PROVE  LayersInv'
<1>1. prov'.pc = "rest" /\ prov'.new.location = Nowhere /\ prov' \in Provision
  BY ProvisionRestTyped DEF Rest, NoOutputs
<1> QED
  BY <1>1 DEF LayersInv, LayersTyped, ClusterIsRecorded, WorksFromOutputs, TriesRecorded, AppliedIsNew

LEMMA LayersStep ==
  ASSUME LayersInv, LayersNext
  PROVE  LayersInv'
<1> USE DEF ProvAt
<1>0. /\ prov \in Provision /\ outputs \in LayersOutputs /\ cluster \in Places \cup {Nowhere}
      /\ build \in [region : Regions, shipped : SUBSET Ids]
  BY DEF LayersInv, LayersTyped
<1>1. CASE SelectionRead \/ ZoneTurns
  BY <1>1 DEF SelectionRead, ZoneTurns, LayersInv, LayersTyped, ClusterIsRecorded, WorksFromOutputs,
              TriesRecorded, AppliedIsNew
<1>2. CASE SelectionWritten
  <2>1. selected' \subseteq Ids
    BY <1>2 DEF SelectionWritten, WithCluster, Ids
  <2> QED
    BY <1>2, <2>1 DEF SelectionWritten, LayersInv, LayersTyped, ClusterIsRecorded, WorksFromOutputs,
              TriesRecorded, AppliedIsNew
<1>3. CASE Rollout
  <2>1. build' \in [region : Regions, shipped : SUBSET Ids]
    <3>1. CASE \E r \in Regions : build' = [build EXCEPT !.region = r]
      BY <1>0, <3>1
    <3>2. CASE \E s \in Issues : build' = [build EXCEPT !.shipped = IF s \in @ THEN @ \ {s} ELSE @ \cup {s}]
      <4>1. PICK s \in Issues :
              build' = [build EXCEPT !.shipped = IF s \in @ THEN @ \ {s} ELSE @ \cup {s}]
        BY <3>2
      <4>2. s \in Ids
        BY DEF Ids
      <4> QED
        BY <1>0, <4>1, <4>2
    <3> QED
      BY <1>3, <3>1, <3>2 DEF Rollout
  <2> QED
    BY <1>3, <2>1 DEF Rollout, LayersInv, LayersTyped, ClusterIsRecorded, WorksFromOutputs,
              TriesRecorded, AppliedIsNew
<1>4. CASE ProvisionStart
  <2>1. prov' = [Rest EXCEPT !.pc = "cluster", !.sel = selected, !.out = outputs]
    BY <1>4 DEF ProvisionStart
  <2>2. prov' \in Provision
    BY <2>1, ProvisionRestTyped DEF LayersInv, LayersTyped, Provision, ProvisionPcs
  <2>3. prov'.pc = "cluster" /\ prov'.out = outputs /\ prov'.new.location = Nowhere
    BY <2>1 DEF Rest, NoOutputs
  <2> QED
    BY <1>4, <2>2, <2>3 DEF ProvisionStart, LayersInv, LayersTyped, ClusterIsRecorded, WorksFromOutputs,
              TriesRecorded, AppliedIsNew
<1>5. CASE ClusterWanted
  <2>0. /\ prov.pc = "cluster" /\ prov.out = outputs /\ prov.new.location = Nowhere
        /\ UNCHANGED <<selected, outputs, cluster, build>>
    BY <1>5 DEF ClusterWanted, LayersInv, WorksFromOutputs, AppliedIsNew
  <2>1. CASE prov' = [prov EXCEPT !.pc = "diff"]
    <3>1. /\ prov' \in Provision
          /\ prov'.pc = "diff" /\ prov'.out = prov.out /\ prov'.new = prov.new
      BY <1>0, <2>1 DEF Provision, ProvisionPcs
    <3> QED
      BY <2>0, <3>1 DEF LayersInv, LayersTyped, ClusterIsRecorded, WorksFromOutputs, TriesRecorded, AppliedIsNew
  <2>2. CASE prov' = [prov EXCEPT !.pc = "zone", !.zones = ZonesToTry(prov.out), !.i = 1]
    <3>1. /\ ZonesToTry(prov.out) \in Seq(Places)
          /\ 1 \in DOMAIN ZonesToTry(prov.out)
          /\ outputs.location # Nowhere => ZonesToTry(prov.out) = <<outputs.location>>
      BY <1>0, <2>0, ZonesAreTried
    <3>2. /\ prov' \in Provision
          /\ prov'.pc = "zone" /\ prov'.out = prov.out /\ prov'.new = prov.new
          /\ prov'.zones = ZonesToTry(prov.out) /\ prov'.i = 1
      BY <1>0, <2>2, <3>1 DEF Provision, ProvisionPcs
    <3> QED
      BY <2>0, <3>1, <3>2 DEF LayersInv, LayersTyped, ClusterIsRecorded, WorksFromOutputs, TriesRecorded, AppliedIsNew
  <2> QED
    BY <1>5, <2>1, <2>2 DEF ClusterWanted
<1>6. CASE ZoneApplied
  <2> DEFINE here == prov.zones[prov.i]
  <2>1. here \in Places /\ (outputs.location # Nowhere => here = cluster)
    BY <1>6, AppliesHere DEF ZoneApplied
  <2>2. /\ cluster' = here /\ UNCHANGED <<selected, outputs, build>>
        /\ prov' = [prov EXCEPT !.pc = "diff", !.new.location = here]
        /\ prov.out = outputs
    BY <1>6 DEF ZoneApplied, LayersInv, WorksFromOutputs
  <2> HIDE DEF here
  <2>3. prov.new \in LayersOutputs
    BY <1>0 DEF Provision
  <2>4. [prov.new EXCEPT !.location = here] \in LayersOutputs
    BY <2>1, <2>3 DEF LayersOutputs
  <2>5. prov' = [prov EXCEPT !.pc = "diff", !.new = [prov.new EXCEPT !.location = here]]
    BY <1>0, <2>2 DEF Provision
  <2>6. /\ prov' \in Provision
        /\ prov'.pc = "diff" /\ prov'.out = prov.out
        /\ prov'.new = [prov.new EXCEPT !.location = here]
    BY <1>0, <2>4, <2>5 DEF Provision, ProvisionPcs
  <2>7. prov'.new.location = here
    BY <2>3, <2>6 DEF LayersOutputs
  <2> QED
    BY <2>1, <2>2, <2>6, <2>7
       DEF LayersInv, LayersTyped, ClusterIsRecorded, WorksFromOutputs, TriesRecorded, AppliedIsNew
<1>7. CASE ZoneFull
  <2>1. /\ prov.pc = "zone" /\ UNCHANGED <<selected, outputs, build>>
        /\ cluster # prov.zones[prov.i] /\ cluster' = Nowhere
        /\ prov' = IF LastZone(prov) THEN [prov EXCEPT !.pc = "full"] ELSE [prov EXCEPT !.i = @ + 1]
    BY <1>7 DEF ZoneFull
  <2>2. outputs.location = Nowhere
    BY <2>1, AppliesHere
  <2>3. /\ prov.zones \in Seq(Places) /\ prov.i \in DOMAIN prov.zones /\ prov.i \in Nat
        /\ prov.out = outputs /\ prov.new.location = Nowhere
    BY <1>0, <2>1 DEF Provision, LayersInv, TriesRecorded, WorksFromOutputs, AppliedIsNew
  <2>4. /\ prov' \in Provision /\ prov'.out = prov.out /\ prov'.new = prov.new
        /\ prov'.pc \in {"zone", "full"}
        /\ prov'.pc = "zone" => prov'.i \in DOMAIN prov'.zones
    <3>1. CASE LastZone(prov)
      BY <1>0, <2>1, <3>1 DEF Provision, ProvisionPcs
    <3>2. CASE ~LastZone(prov)
      <4>1. prov.i + 1 \in DOMAIN prov.zones
        BY <2>3, <3>2 DEF LastZone
      <4> QED
        BY <1>0, <2>1, <2>3, <3>2, <4>1 DEF Provision, ProvisionPcs
    <3> QED
      BY <3>1, <3>2
  <2> QED
    BY <2>1, <2>2, <2>3, <2>4
       DEF LayersInv, LayersTyped, ClusterIsRecorded, WorksFromOutputs, TriesRecorded, AppliedIsNew
<1>8. CASE DiffScenarios
  <2> DEFINE want == Known(prov.sel)
             previous == prov.out.applied
             removed == Removed(want, previous)
             next == NextApplied(want, previous)
  <2>1. UNCHANGED <<selected, outputs, cluster, build>> /\ prov.pc = "diff"
    BY <1>8 DEF DiffScenarios
  <2>2. /\ want \subseteq Ids /\ previous \subseteq Ids /\ removed \subseteq Ids /\ next \subseteq Ids
    BY <1>0 DEF Known, Removed, NextApplied, Provision, LayersOutputs
  <2>3. \/ prov' = [prov EXCEPT !.pc = "finish"]
        \/ prov' = [prov EXCEPT !.pc = "off", !.off = removed, !.on = want, !.new.applied = next]
    BY <1>8 DEF DiffScenarios
  <2> HIDE DEF want, previous, removed, next
  <2>4. CASE prov' = [prov EXCEPT !.pc = "finish"]
    <3>1. /\ prov' \in Provision /\ prov'.pc = "finish" /\ prov'.out = prov.out /\ prov'.new = prov.new
      BY <1>0, <2>4 DEF Provision, ProvisionPcs
    <3> QED
      BY <2>1, <3>1, ProvisionMoves
  <2>5. CASE prov' = [prov EXCEPT !.pc = "off", !.off = removed, !.on = want, !.new.applied = next]
    <3>1. prov.new \in LayersOutputs
      BY <1>0 DEF Provision
    <3>2. /\ [prov.new EXCEPT !.applied = next] \in LayersOutputs
          /\ [prov.new EXCEPT !.applied = next].location = prov.new.location
      BY <2>2, <3>1 DEF LayersOutputs
    <3>3. prov' = [prov EXCEPT !.pc = "off", !.off = removed, !.on = want,
                               !.new = [prov.new EXCEPT !.applied = next]]
      BY <1>0, <2>5 DEF Provision
    <3>4. /\ prov' \in Provision /\ prov'.pc = "off" /\ prov'.out = prov.out
          /\ prov'.new = [prov.new EXCEPT !.applied = next]
      BY <1>0, <2>2, <3>2, <3>3 DEF Provision, ProvisionPcs
    <3> QED
      BY <2>1, <3>2, <3>4, ProvisionMoves
  <2> QED
    BY <2>3, <2>4, <2>5
<1>9. CASE RemoveScenario
  <2>1. PICK s \in prov.off : prov' = [prov EXCEPT !.off = @ \ {s}]
    BY <1>9 DEF RemoveScenario
  <2>2. /\ prov' \in Provision /\ prov'.pc = prov.pc /\ prov'.out = prov.out /\ prov'.new = prov.new
    BY <1>0, <2>1 DEF Provision
  <2> QED
    BY <1>9, <2>2, ProvisionMoves DEF RemoveScenario
<1>10. CASE ApplyScenario
  <2>1. PICK s \in prov.on : prov' = [prov EXCEPT !.on = @ \ {s}]
    BY <1>10 DEF ApplyScenario
  <2>2. /\ prov' \in Provision /\ prov'.pc = prov.pc /\ prov'.out = prov.out /\ prov'.new = prov.new
    BY <1>0, <2>1 DEF Provision
  <2> QED
    BY <1>10, <2>2, ProvisionMoves DEF ApplyScenario
<1>11. CASE ScenariosOff \/ ScenariosOn
  <2>1. /\ prov.pc \in {"off", "on"} /\ UNCHANGED <<selected, outputs, cluster, build>>
        /\ \/ prov' = [prov EXCEPT !.pc = "on"]
           \/ prov' = [prov EXCEPT !.pc = "finish"]
    BY <1>11 DEF ScenariosOff, AllOff, ScenariosOn
  <2>2. /\ prov' \in Provision /\ prov'.pc \in {"on", "finish"}
        /\ prov'.out = prov.out /\ prov'.new = prov.new
    BY <1>0, <2>1 DEF Provision, ProvisionPcs
  <2> QED
    BY <2>1, <2>2, ProvisionMoves
<1>12. CASE ProvisionDone
  <2>1. /\ outputs' = prov.new /\ prov' = Rest /\ UNCHANGED <<selected, cluster, build>>
    BY <1>12 DEF ProvisionDone
  <2>2. prov'.pc = "rest" /\ prov'.new.location = Nowhere /\ prov' \in Provision
    BY <2>1, ProvisionRestTyped DEF Rest, NoOutputs
  <2>3. outputs' \in LayersOutputs
    BY <1>0, <2>1 DEF Provision
  <2> QED
    BY <2>1, <2>2, <2>3
       DEF LayersInv, LayersTyped, ClusterIsRecorded, WorksFromOutputs, TriesRecorded, AppliedIsNew
<1>13. CASE ProvisionFull \/ ProvisionFails
  BY <1>13, ProvisionRests DEF ProvisionFull, ProvisionFails, ProvisionStops
<1> QED
  BY <1>1, <1>2, <1>3, <1>4, <1>5, <1>6, <1>7, <1>8, <1>9, <1>10, <1>11, <1>12, <1>13 DEF LayersNext

LEMMA LayersInvariant == LayersSpec => []LayersInv
<1>1. LayersInv /\ [LayersNext]_layersVars => LayersInv'
  <2> SUFFICES ASSUME LayersInv, [LayersNext]_layersVars PROVE LayersInv'
    OBVIOUS
  <2>1. CASE LayersNext
    BY <2>1, LayersStep
  <2>2. CASE UNCHANGED layersVars
    BY <2>2 DEF layersVars, LayersInv, LayersTyped, ClusterIsRecorded, WorksFromOutputs, TriesRecorded, AppliedIsNew
  <2> QED
    BY <2>1, <2>2
<1> QED
  BY <1>1, LayersInitInv, PTL DEF LayersSpec

-----------------------------------------------------------------------------
(* Clusters whose location is recorded are not moved: only an apply touches *)
(* them, and it is made where they stand.                                   *)
THEOREM ClustersAreNotMoved == LayersSpec => RecordedClusterStays
<1>1. LayersInv /\ [LayersNext]_layersVars => [outputs.location # Nowhere => cluster' = cluster]_layersVars
  <2> SUFFICES ASSUME LayersInv, LayersNext, outputs.location # Nowhere
               PROVE  cluster' = cluster
    OBVIOUS
  <2>1. CASE ZoneApplied
    BY <2>1, AppliesHere DEF ZoneApplied
  <2>2. CASE ZoneFull
    BY <2>2, AppliesHere DEF ZoneFull
  <2>3. CASE ~ZoneApplied /\ ~ZoneFull
    BY <2>3 DEF LayersNext, SelectionRead, SelectionWritten, Rollout, ZoneTurns, ProvisionStart, ClusterWanted,
      DiffScenarios, RemoveScenario, ScenariosOff, ApplyScenario, ScenariosOn, ProvisionDone,
      ProvisionFull, ProvisionFails, ProvisionStops
  <2> QED
    BY <2>1, <2>2, <2>3
<1> QED
  BY <1>1, LayersInvariant, PTL DEF LayersSpec, RecordedClusterStays

(* And they stand where the run's outputs say.                              *)
THEOREM LocationIsTrue == LayersSpec => []ClusterIsRecorded
<1>1. LayersInv => ClusterIsRecorded
  BY DEF LayersInv
<1> QED
  BY <1>1, LayersInvariant, PTL

-----------------------------------------------------------------------------
(* What makes StandingIsKnown and ReadyIsSelected inductive: what a         *)
(* provision found, what it has still to take off and to put on.            *)
NotDiffed ==
  /\ standing \subseteq outputs.applied \cup stranded
  /\ prov.off = {} /\ prov.on = {} /\ prov.new.applied = {}
Diffed ==
  /\ standing \subseteq prov.new.applied \cup prov.off \cup stranded
  /\ prov.off \subseteq outputs.applied \ Known(prov.sel) /\ (prov.pc # "off" => prov.off = {})
  /\ prov.new.applied \subseteq Known(prov.sel) \cup (outputs.applied \ build.shipped)
  /\ prov.on \subseteq prov.new.applied \cap Known(prov.sel) /\ (prov.pc = "finish" => prov.on = {})
  /\ Applied(Known(prov.sel)) \subseteq standing \cup prov.on

ReconcileInv ==
  /\ standing \subseteq Issues
  /\ prov.pc \in {"rest", "cluster", "zone", "full", "diff"} => NotDiffed
  /\ prov.pc \in {"off", "on", "finish"} => Diffed

LEMMA ReconcileInit == LayersInit => ReconcileInv
  BY DEF LayersInit, ReconcileInv, NotDiffed, Rest, NoOutputs

(* A provision that stops leaves what no success recorded among the         *)
(* stranded.                                                                *)
LEMMA StopsKnown ==
  ASSUME ProvisionStops, standing' \subseteq Issues
  PROVE  ReconcileInv'
<1>1. prov'.pc = "rest" /\ prov'.off = {} /\ prov'.on = {} /\ prov'.new.applied = {}
  BY DEF ProvisionStops, Rest, NoOutputs
<1>2. standing' \subseteq outputs'.applied \cup stranded'
  BY DEF ProvisionStops
<1> QED
  BY <1>1, <1>2 DEF ReconcileInv, NotDiffed

LEMMA ReconcileStep ==
  ASSUME LayersInv, ReconcileInv, LayersNext
  PROVE  ReconcileInv'
<1>0. prov \in Provision /\ prov.new \in LayersOutputs /\ prov.out \in LayersOutputs /\ standing \subseteq Issues
      /\ prov.sel \subseteq Ids
  BY DEF LayersInv, LayersTyped, Provision, ReconcileInv
<1>1. CASE SelectionRead \/ SelectionWritten \/ Rollout \/ ZoneTurns
  <2>1. UNCHANGED <<outputs, standing, prov, stranded>>
    BY <1>1 DEF SelectionRead, SelectionWritten, Rollout, ZoneTurns
  <2>2. UNCHANGED build \/ prov.pc = "rest"
    BY <1>1 DEF SelectionRead, SelectionWritten, Rollout, ZoneTurns, ProvAt
  <2> QED
    BY <2>1, <2>2 DEF ReconcileInv, NotDiffed, Diffed, Known
<1>2. CASE ProvisionStart
  <2>1. /\ UNCHANGED <<outputs, standing, stranded>> /\ prov.pc = "rest"
        /\ prov'.pc = "cluster" /\ prov'.off = {} /\ prov'.on = {} /\ prov'.new = NoOutputs
    BY <1>2 DEF ProvisionStart, ProvAt, Rest
  <2> QED
    BY <2>1 DEF ReconcileInv, NotDiffed, NoOutputs
<1>3. CASE ClusterWanted \/ ZoneApplied \/ ZoneFull
  <2>1. /\ UNCHANGED <<outputs, standing, stranded>> /\ prov.pc \in {"cluster", "zone"}
        /\ prov'.pc \in {"diff", "zone", "full"} /\ prov'.off = prov.off /\ prov'.on = prov.on
        /\ prov'.new.applied = prov.new.applied
    <3>1. CASE ClusterWanted
      BY <1>0, <3>1 DEF ClusterWanted, ProvAt, Provision
    <3>2. CASE ZoneApplied
      BY <1>0, <3>2 DEF ZoneApplied, ProvAt, Provision, LayersOutputs
    <3>3. CASE ZoneFull
      BY <1>0, <3>3 DEF ZoneFull, ProvAt, Provision
    <3> QED
      BY <1>3, <3>1, <3>2, <3>3
  <2> QED
    BY <2>1 DEF ReconcileInv, NotDiffed
<1>4. CASE DiffScenarios
  <2> DEFINE want == Known(prov.sel)
             previous == prov.out.applied
             removed == Removed(want, previous)
  <2>1. previous = outputs.applied /\ prov.pc = "diff" /\ NotDiffed /\ UNCHANGED <<outputs, standing, build>>
    BY <1>4 DEF DiffScenarios, ProvAt, LayersInv, WorksFromOutputs, ReconcileInv
  <2>2. CASE want = {} /\ removed = {}
    <3>1. prov' = [prov EXCEPT !.pc = "finish"] /\ stranded' = stranded \cup (previous \ build.shipped)
      BY <1>4, <2>2 DEF DiffScenarios
    <3>2. /\ prov'.pc = "finish" /\ prov'.off = {} /\ prov'.on = {} /\ prov'.new.applied = {}
          /\ prov'.sel = prov.sel
      BY <1>0, <2>1, <3>1 DEF NotDiffed, Provision
    <3>3. previous \subseteq stranded'
      BY <2>2, <3>1 DEF Removed, Known
    <3>4. standing \subseteq stranded'
      BY <2>1, <3>1, <3>3 DEF NotDiffed
    <3> QED
      BY <1>0, <2>1, <2>2, <3>2, <3>4 DEF ReconcileInv, Diffed, Known, Applied
  <2>3. CASE ~(want = {} /\ removed = {})
    <3>1. /\ prov' = [prov EXCEPT !.pc = "off", !.off = removed, !.on = want,
                                  !.new.applied = NextApplied(want, previous)]
          /\ UNCHANGED stranded
      BY <1>4, <2>3 DEF DiffScenarios
    <3>2. /\ prov'.pc = "off" /\ prov'.off = removed /\ prov'.on = want /\ prov'.sel = prov.sel
          /\ prov'.new.applied = want \cup (previous \ build.shipped)
      BY <1>0, <3>1 DEF Provision, LayersOutputs, NextApplied
    <3>3. previous \subseteq want \cup (previous \ build.shipped) \cup removed
      BY DEF Removed, Known
    <3>4. Known(prov.sel)' = want
      BY <2>1, <3>2 DEF Known
    <3>5. standing' \subseteq prov'.new.applied \cup prov'.off \cup stranded'
      BY <2>1, <3>1, <3>2, <3>3 DEF NotDiffed
    <3>6. prov'.off \subseteq outputs'.applied \ want
      BY <2>1, <3>2 DEF Removed, Known
    <3> HIDE DEF want, removed, previous
    <3>7. Diffed'
      BY <2>1, <3>1, <3>2, <3>4, <3>5, <3>6 DEF Diffed, Applied
    <3> QED
      BY <1>0, <2>1, <3>2, <3>7 DEF ReconcileInv
  <2> QED
    BY <2>2, <2>3
<1>5. CASE RemoveScenario
  <2>1. PICK s \in prov.off : standing' = standing \ {s} /\ prov' = [prov EXCEPT !.off = @ \ {s}]
    BY <1>5 DEF RemoveScenario
  <2>2. UNCHANGED <<outputs, build, stranded>> /\ prov.pc = "off" /\ Diffed
    BY <1>5 DEF RemoveScenario, ProvAt, ReconcileInv
  <2>3. /\ prov'.off = prov.off \ {s} /\ prov'.pc = "off" /\ prov'.on = prov.on
        /\ prov'.new = prov.new /\ prov'.sel = prov.sel
    BY <1>0, <2>1, <2>2 DEF Provision
  <2> QED
    BY <1>0, <2>1, <2>2, <2>3 DEF ReconcileInv, Diffed, Known, Applied
<1>6. CASE ScenariosOff \/ ScenariosOn
  <2>1. /\ UNCHANGED <<outputs, standing, build, stranded>> /\ prov.pc \in {"off", "on"} /\ Diffed
        /\ prov.pc = "off" => prov.off = {}
        /\ prov'.pc = "finish" => prov.on = {}
        /\ prov'.pc \in {"on", "finish"} /\ prov'.off = prov.off /\ prov'.on = prov.on
        /\ prov'.new = prov.new /\ prov'.sel = prov.sel
    BY <1>0, <1>6 DEF ScenariosOff, AllOff, ScenariosOn, ProvAt, ReconcileInv, Provision
  <2> QED
    BY <1>0, <2>1 DEF ReconcileInv, Diffed, Known, Applied
<1>7. CASE ApplyScenario
  <2>1. PICK s \in prov.on : standing' = standing \cup Applied({s}) /\ prov' = [prov EXCEPT !.on = @ \ {s}]
    BY <1>7 DEF ApplyScenario
  <2>2. UNCHANGED <<outputs, build, stranded>> /\ prov.pc = "on" /\ Diffed
    BY <1>7 DEF ApplyScenario, ProvAt, ReconcileInv
  <2>3. /\ prov'.on = prov.on \ {s} /\ prov'.pc = "on" /\ prov'.off = prov.off
        /\ prov'.new = prov.new /\ prov'.sel = prov.sel
    BY <1>0, <2>1, <2>2 DEF Provision
  <2>4. s \in prov.new.applied /\ s \in Ids
    BY <1>0, <2>2 DEF Diffed, Known
  <2> QED
    BY <1>0, <2>1, <2>2, <2>3, <2>4 DEF ReconcileInv, Diffed, Known, Applied, Ids
<1>8. CASE ProvisionDone
  <2>1. /\ outputs' = prov.new /\ UNCHANGED <<standing, stranded>> /\ Diffed /\ prov.off = {}
        /\ prov'.pc = "rest" /\ prov'.off = {} /\ prov'.on = {} /\ prov'.new.applied = {}
    BY <1>8 DEF ProvisionDone, ProvAt, ReconcileInv, Diffed, Rest, NoOutputs
  <2> QED
    BY <1>0, <2>1 DEF ReconcileInv, NotDiffed, Diffed
<1>9. CASE ProvisionFull
  BY <1>0, <1>9, StopsKnown DEF ProvisionFull
<1>10. CASE ProvisionFails
  <2>1. standing' \subseteq Issues
    <3>1. ASSUME NEW s \in prov.on, ProvAt("on") PROVE Applied({s}) \subseteq Issues
      BY <1>0, <3>1 DEF Applied, Ids, Provision
    <3> QED
      BY <1>0, <1>10, <3>1 DEF ProvisionFails
  <2> QED
    BY <1>10, <2>1, StopsKnown DEF ProvisionFails
<1> QED
  BY <1>1, <1>2, <1>3, <1>4, <1>5, <1>6, <1>7, <1>8, <1>9, <1>10 DEF LayersNext

LEMMA ReconcileInvariant == LayersSpec => []ReconcileInv
<1>1. LayersInv /\ ReconcileInv /\ [LayersNext]_layersVars => ReconcileInv'
  <2> SUFFICES ASSUME LayersInv, ReconcileInv, [LayersNext]_layersVars PROVE ReconcileInv'
    OBVIOUS
  <2>1. CASE LayersNext
    BY <2>1, ReconcileStep
  <2>2. CASE UNCHANGED layersVars
    BY <2>2 DEF layersVars, ReconcileInv, NotDiffed, Diffed, Known, Applied
  <2> QED
    BY <2>1, <2>2
<1> QED
  BY <1>1, ReconcileInit, LayersInvariant, PTL DEF LayersSpec

(* What stands is what the next provision will take away, what is selected, *)
(* or what a provision that failed or returned early overlooked.            *)
THEOREM LayersAreKnown == LayersSpec => []StandingIsKnown
<1>1. LayersInv /\ ReconcileInv => StandingIsKnown
  <2> SUFFICES ASSUME LayersInv, ReconcileInv PROVE StandingIsKnown
    OBVIOUS
  <2>1. prov.pc \in ProvisionPcs
    BY DEF LayersInv, LayersTyped, Provision
  <2> QED
    BY <2>1 DEF ReconcileInv, NotDiffed, Diffed, Known, StandingIsKnown, ProvisionPcs
<1> QED
  BY <1>1, LayersInvariant, ReconcileInvariant, PTL

(* A provision that succeeds leaves what it was asked for, and of what it   *)
(* could take away nothing else.                                            *)
THEOREM SuccessIsSelected == LayersSpec => []ReadyIsSelected
<1>1. ReconcileInv => ReadyIsSelected
  BY DEF ReconcileInv, Diffed, Known, ReadyIsSelected, ProvAt
<1> QED
  BY <1>1, ReconcileInvariant, PTL

-----------------------------------------------------------------------------
(* The zones a provision has tried are some of those it has to try.         *)
LayersRest ==
  /\ editing \in BOOLEAN /\ full \subseteq Places /\ stranded \subseteq Ids
  /\ prov.i \in 0 .. Len(prov.zones)
  /\ layersLeft \in [provisions : 0 .. MaxProvisions, selections : 0 .. MaxSelections,
                     rollouts : 0 .. MaxRollouts, faults : 0 .. MaxLayerFaults]

LEMMA SpendTyped ==
  ASSUME LayersRest, NEW what \in {"provisions", "selections", "rollouts", "faults"}, Spend(what)
  PROVE  layersLeft' \in [provisions : 0 .. MaxProvisions, selections : 0 .. MaxSelections,
                          rollouts : 0 .. MaxRollouts, faults : 0 .. MaxLayerFaults]
  BY LayersConstants DEF LayersRest, Spend

LEMMA LayersRestStep ==
  ASSUME LayersInv, ReconcileInv, LayersRest, LayersNext
  PROVE  LayersRest'
<1>0. /\ prov \in Provision /\ prov.zones \in Seq(Places) /\ Len(prov.zones) \in Nat
      /\ prov.i \in 0 .. Len(prov.zones) /\ standing \subseteq Ids /\ outputs \in LayersOutputs
  BY DEF LayersInv, LayersTyped, Provision, LayersRest, ReconcileInv, Ids
<1>1. CASE SelectionRead \/ SelectionWritten \/ Rollout \/ ZoneTurns
  <2>1. prov' = prov /\ stranded' = stranded /\ editing' \in BOOLEAN
    BY <1>1 DEF SelectionRead, SelectionWritten, Rollout, ZoneTurns, LayersRest
  <2>2. full' \subseteq Places
    BY <1>1 DEF SelectionRead, SelectionWritten, Rollout, ZoneTurns, LayersRest
  <2>3. layersLeft' = layersLeft \/ \E what \in {"selections", "rollouts", "faults"} : Spend(what)
    BY <1>1 DEF SelectionRead, SelectionWritten, Rollout, ZoneTurns
  <2> QED
    BY <2>1, <2>2, <2>3, SpendTyped DEF LayersRest
<1>2. CASE ProvisionStart
  <2>1. prov'.i = 0 /\ prov'.zones = <<>> /\ UNCHANGED <<editing, full, stranded>> /\ Spend("provisions")
    BY <1>2 DEF ProvisionStart, Rest
  <2> QED
    BY <2>1, SpendTyped DEF LayersRest
<1>3. CASE ClusterWanted
  <2>1. UNCHANGED <<editing, full, stranded, layersLeft>> /\ prov.out \in LayersOutputs
    BY <1>0, <1>3 DEF ClusterWanted, Provision
  <2>2. \/ prov'.i = prov.i /\ prov'.zones = prov.zones
        \/ prov'.i = 1 /\ prov'.zones = ZonesToTry(prov.out)
    <3>1. CASE Known(prov.sel) = {}
      BY <1>0, <1>3, <3>1 DEF ClusterWanted, Provision
    <3>2. CASE Known(prov.sel) # {}
      BY <1>0, <1>3, <3>2 DEF ClusterWanted, Provision
    <3> QED
      BY <3>1, <3>2
  <2>3. ZonesToTry(prov.out) \in Seq(Places) /\ 1 \in DOMAIN ZonesToTry(prov.out)
    BY <2>1, ZonesAreTried DEF LayersInv, LayersTyped
  <2>4. prov'.i \in 0 .. Len(prov'.zones)
    BY <1>0, <2>2, <2>3
  <2> QED
    BY <2>1, <2>4 DEF LayersRest
<1>4. CASE ZoneApplied
  BY <1>0, <1>4 DEF ZoneApplied, Provision, LayersRest
<1>5. CASE ZoneFull
  <2>1. UNCHANGED <<editing, full, stranded, layersLeft>> /\ prov.i \in DOMAIN prov.zones
    BY <1>5 DEF ZoneFull, LayersInv, TriesRecorded, ProvAt
  <2>2. prov'.zones = prov.zones /\ (prov'.i = prov.i \/ (prov'.i = prov.i + 1 /\ prov.i # Len(prov.zones)))
    BY <1>0, <1>5 DEF ZoneFull, Provision, LastZone
  <2>3. prov'.i \in 0 .. Len(prov'.zones)
    BY <1>0, <2>1, <2>2
  <2> QED
    BY <2>1, <2>3 DEF LayersRest
<1>6. CASE DiffScenarios
  <2>1. prov'.i = prov.i /\ prov'.zones = prov.zones
    BY <1>0, <1>6 DEF DiffScenarios, Provision
  <2>2. stranded' \subseteq Ids
    BY <1>0, <1>6 DEF DiffScenarios, Provision, LayersOutputs, LayersRest
  <2> QED
    BY <1>0, <1>6, <2>1, <2>2 DEF DiffScenarios, LayersRest
<1>7. CASE RemoveScenario \/ ScenariosOff \/ ApplyScenario \/ ScenariosOn
  <2>1. prov'.i = prov.i /\ prov'.zones = prov.zones
    BY <1>0, <1>7 DEF RemoveScenario, ScenariosOff, ApplyScenario, ScenariosOn, Provision
  <2> QED
    BY <1>0, <1>7, <2>1 DEF RemoveScenario, ScenariosOff, ApplyScenario, ScenariosOn, LayersRest
<1>8. CASE ProvisionDone
  <2>1. prov'.i = 0 /\ prov'.zones = <<>>
    BY <1>8 DEF ProvisionDone, Rest
  <2> QED
    BY <1>8, <2>1 DEF ProvisionDone, LayersRest
<1>9. CASE ProvisionFull \/ ProvisionFails
  <2>1. prov'.i = 0 /\ prov'.zones = <<>> /\ UNCHANGED <<editing, full>>
    BY <1>9 DEF ProvisionFull, ProvisionFails, ProvisionStops, Rest
  <2>2. stranded' \subseteq Ids
    <3>1. standing' \subseteq Ids
      <4>1. ReconcileInv'
        BY <1>9, ReconcileStep
      <4> QED
        BY <4>1 DEF ReconcileInv, Ids
    <3> QED
      BY <1>9, <3>1 DEF ProvisionFull, ProvisionFails, ProvisionStops, LayersRest
  <2>3. layersLeft' = layersLeft \/ Spend("faults")
    BY <1>9 DEF ProvisionFull, ProvisionFails
  <2> QED
    BY <2>1, <2>2, <2>3, SpendTyped DEF LayersRest
<1> QED
  BY <1>1, <1>2, <1>3, <1>4, <1>5, <1>6, <1>7, <1>8, <1>9 DEF LayersNext

(* The types of the run's selection and outputs, of what stands and of the  *)
(* provision under way.                                                     *)
THEOREM LayersTypeCorrect == LayersSpec => []LayersTypeOK
<1>1. LayersInit => LayersRest
  <2> SUFFICES ASSUME LayersInit PROVE LayersRest
    OBVIOUS
  <2>1. prov.i = 0 /\ prov.zones = <<>>
    BY DEF LayersInit, Rest
  <2>2. layersLeft \in [provisions : 0 .. MaxProvisions, selections : 0 .. MaxSelections,
                        rollouts : 0 .. MaxRollouts, faults : 0 .. MaxLayerFaults]
    BY LayersConstants DEF LayersInit
  <2>3. editing = FALSE /\ full = {} /\ stranded = {}
    BY DEF LayersInit
  <2>4. prov.i \in 0 .. Len(prov.zones)
    BY <2>1
  <2> QED
    BY <2>2, <2>3, <2>4, Zenon DEF LayersRest
<1>2. LayersInv /\ ReconcileInv /\ LayersRest /\ [LayersNext]_layersVars => LayersRest'
  <2>1. UNCHANGED layersVars /\ LayersRest => LayersRest'
    BY DEF layersVars, LayersRest
  <2> QED
    BY <2>1, LayersRestStep
<1>3. LayersInv /\ ReconcileInv /\ LayersRest => LayersTypeOK
  <2> SUFFICES ASSUME LayersInv, ReconcileInv, LayersRest PROVE LayersTypeOK
    OBVIOUS
  <2>1. Range(prov.zones) \subseteq Places
    BY DEF LayersInv, LayersTyped, Provision, Range
  <2>2. /\ prov.pc \in ProvisionPcs /\ prov.sel \subseteq Ids /\ prov.off \subseteq Ids /\ prov.on \subseteq Ids
        /\ prov.out \in LayersOutputs /\ prov.new \in LayersOutputs
    BY DEF LayersInv, LayersTyped, Provision
  <2> QED
    BY <2>1, <2>2 DEF LayersInv, LayersTyped, ReconcileInv, LayersRest, LayersTypeOK, ProvisionPcs
<1> QED
  BY <1>1, <1>2, <1>3, LayersInvariant, ReconcileInvariant, PTL DEF LayersSpec

-----------------------------------------------------------------------------
(* ComponentCatalog.                                                       *)
PassPcs == {"rest", "apply", "done", "broken", "failed", "cycle", "remove", "empty", "gone"}
CatalogTyped ==
  /\ made \subseteq Components
  /\ pass \in [pc : PassPcs, left : SUBSET Components, applied : SUBSET Components,
               pending : SUBSET Components]

(* What makes PartsComeFirst inductive: what a pass counts as applied is in *)
(* the org, for as long as it builds on it.                                 *)
AppliedIsMade == PassAt("apply") => pass.applied \subseteq made
CatalogInv == CatalogTyped /\ AppliedIsMade /\ PartsComeFirst

LEMMA CatalogStep ==
  ASSUME CatalogInv, CatalogNext
  PROVE  CatalogInv'
<1>0. CatalogTyped /\ AppliedIsMade /\ PartsComeFirst
  BY DEF CatalogInv
<1>1. catalog' = catalog
  BY DEF CatalogNext, CatalogPass, ApplyComponent, ApplyFails, PassDone, OutputsArrive, ProvisionAgain,
         TeardownStart, RemoveComponent, OrgDeleted
<1>2. CASE CatalogPass \/ PassDone \/ OutputsArrive \/ ProvisionAgain \/ TeardownStart
  <2>1. PICK pc \in PassPcs, left \in SUBSET Components :
          pass' \in {Quiet, [Quiet EXCEPT !.pc = pc, !.left = left], [pass EXCEPT !.pc = "done"]}
    <3>1. CASE PassDone
      BY <3>1 DEF PassDone, PassPcs
    <3>2. CASE OutputsArrive \/ ProvisionAgain
      BY <3>2 DEF OutputsArrive, ProvisionAgain, PassPcs
    <3>3. CASE CatalogPass \/ TeardownStart
      <4>1. \/ \E pc \in {"cycle", "empty"} : pass' = [Quiet EXCEPT !.pc = pc, !.left = {}]
            \/ \E pc \in {"apply", "remove"} : pass' = [Quiet EXCEPT !.pc = pc, !.left = Components]
        BY <3>3 DEF CatalogPass, TeardownStart, Quiet
      <4> QED
        BY <4>1 DEF PassPcs
    <3> QED
      BY <1>2, <3>1, <3>2, <3>3
  <2>2. /\ made' = made
        /\ pass'.pc = "apply" => pass'.applied = {}
        /\ CatalogTyped'
    <3>1. made' = made
      BY <1>2 DEF CatalogPass, PassDone, OutputsArrive, ProvisionAgain, TeardownStart
    <3>2. CASE pass' = [Quiet EXCEPT !.pc = pc, !.left = left]
      BY <1>0, <3>1, <3>2 DEF Quiet, CatalogTyped
    <3>4. CASE pass' = Quiet
      BY <1>0, <3>1, <3>4 DEF Quiet, CatalogTyped, PassPcs
    <3>3. CASE pass' = [pass EXCEPT !.pc = "done"]
      BY <1>0, <3>1, <3>3 DEF CatalogTyped, PassPcs
    <3> QED
      BY <2>1, <3>1, <3>2, <3>3, <3>4
  <2> QED
    BY <1>0, <1>1, <2>2 DEF CatalogInv, AppliedIsMade, PassAt, PartsComeFirst
<1>3. CASE ApplyComponent
  <2>1. PICK c \in Ready(pass.left) :
       \/ /\ CanApply(c)
          /\ made' = made \cup {c}
          /\ pass' = [pass EXCEPT !.left = @ \ {c}, !.applied = @ \cup {c}]
       \/ /\ pass' = [pass EXCEPT !.pc = "broken"]
          /\ UNCHANGED made
       \/ /\ pass' = [pass EXCEPT !.left = @ \ {c}, !.pending = @ \cup {c}]
          /\ UNCHANGED made
    BY <1>3 DEF ApplyComponent
  <2>2. c \in Components /\ pass.applied \subseteq made /\ PassAt("apply")
    BY <1>0, <1>3, <2>1 DEF CatalogTyped, AppliedIsMade, ApplyComponent, Ready
  <2>3. CatalogTyped' /\ AppliedIsMade'
    BY <1>0, <2>1, <2>2 DEF CatalogTyped, PassPcs, AppliedIsMade, PassAt
  <2>4. made' = made \/ (made' = made \cup {c} /\ catalog.deps[c] \subseteq made)
    BY <2>1, <2>2 DEF CanApply, DepsApplied
  <2>5. PartsComeFirst'
    BY <1>0, <1>1, <2>4 DEF PartsComeFirst
  <2> QED
    BY <2>3, <2>5 DEF CatalogInv
<1>4. CASE ApplyFails
  <2>1. PICK c \in Ready(pass.left) : CanApply(c) /\ made' \in {made, made \cup {c}}
    BY <1>4 DEF ApplyFails
  <2>2. pass' = [pass EXCEPT !.pc = "failed"] /\ PassAt("apply")
    BY <1>4 DEF ApplyFails
  <2>3. c \in Components /\ catalog.deps[c] \subseteq made
    BY <1>0, <2>1, <2>2 DEF CatalogTyped, AppliedIsMade, Ready, CanApply, DepsApplied
  <2>4. CatalogTyped' /\ AppliedIsMade'
    BY <1>0, <2>1, <2>2, <2>3 DEF CatalogTyped, PassPcs, AppliedIsMade, PassAt
  <2>5. PartsComeFirst'
    BY <1>0, <1>1, <2>1, <2>3 DEF PartsComeFirst
  <2> QED
    BY <2>4, <2>5 DEF CatalogInv
<1>5. CASE RemoveComponent
  <2>1. PICK c \in LastOf(pass.left) :
          /\ made' = IF c \in Templates \/ Referenced(c) THEN made ELSE made \ {c}
          /\ pass' = [pass EXCEPT !.left = @ \ {c}, !.pc = IF pass.left = {c} THEN "empty" ELSE @]
    BY <1>5 DEF RemoveComponent
  <2>2. PassAt("remove")
    BY <1>5 DEF RemoveComponent
  <2>3. CatalogTyped' /\ AppliedIsMade'
    BY <1>0, <2>1, <2>2 DEF CatalogTyped, PassPcs, AppliedIsMade, PassAt
  <2>4. PartsComeFirst'
    BY <1>0, <1>1, <2>1 DEF PartsComeFirst, Referenced
  <2> QED
    BY <2>3, <2>4 DEF CatalogInv
<1>6. CASE OrgDeleted
  BY <1>6 DEF OrgDeleted, CatalogInv, CatalogTyped, AppliedIsMade, PartsComeFirst, PassAt, PassPcs, Quiet
<1> QED
  BY <1>2, <1>3, <1>4, <1>5, <1>6 DEF CatalogNext

-----------------------------------------------------------------------------
(* Induction.  The library's induction theorems take a predicate; with a    *)
(* set in its place the well-foundedness of < is enough.                    *)
LEMMA Least ==
  ASSUME NEW T, T \subseteq Nat, T # {}
  PROVE  \E n \in T : \A m \in T : n <= m
<1> DEFINE less == {p \in Nat \X Nat : p[1] < p[2]}
<1>1. IsWellFoundedOn(less, Nat)
  BY NatLessThanWellFounded DEF OpToRel
<1> HIDE DEF less
<1>2. PICK n \in T : \A m \in T : <<m, n>> \notin less
  BY <1>1, WFMin
<1>3. ASSUME NEW m \in T PROVE n <= m
  <2>1. m \in Nat /\ n \in Nat /\ <<m, n>> \notin less
    BY <1>2
  <2> QED
    BY <2>1 DEF less
<1> QED
  BY <1>3

LEMMA Counting ==
  ASSUME NEW k \in Nat, NEW P, 0 \in P, \A n \in 1 .. k : n - 1 \in P => n \in P
  PROVE  \A n \in 0 .. k : n \in P
<1> DEFINE others == {n \in 0 .. k : n \notin P}
<1>1. SUFFICES ASSUME others # {} PROVE FALSE
  OBVIOUS
<1>2. PICK n \in others : \A m \in others : n <= m
  <2>1. others \subseteq Nat
    OBVIOUS
  <2> HIDE DEF others
  <2> QED
    BY <1>1, <2>1, Least
<1>3. n \in 1 .. k /\ n - 1 \notin others
  BY <1>2
<1> QED
  BY <1>2, <1>3

(* A function on the subsets of a set can be applied over and over.         *)
IsStep(step, C) == step \in [SUBSET C -> SUBSET C]
IsChain(g, C, step, S, k) ==
  g \in [0 .. k -> SUBSET C] /\ g[0] = S /\ \A n \in 1 .. k : g[n] = step[g[n - 1]]
LEMMA Iterates ==
  ASSUME NEW C, NEW step, IsStep(step, C), NEW S \in SUBSET C, NEW k \in Nat
  PROVE  \E g : IsChain(g, C, step, S, k)
<1> DEFINE Upto(m, g) == g[0] = S /\ \A n \in 1 .. m : g[n] = step[g[n - 1]]
           P == {m \in Nat : \E g \in [0 .. m -> SUBSET C] : Upto(m, g)}
<1> USE DEF IsStep
<1>1. 0 \in P
  <2>1. [n \in 0 .. 0 |-> S] \in [0 .. 0 -> SUBSET C] /\ Upto(0, [n \in 0 .. 0 |-> S])
    OBVIOUS
  <2> QED
    BY <2>1
<1>2. ASSUME NEW m \in 1 .. k, m - 1 \in P PROVE m \in P
  <2>1. PICK g \in [0 .. m - 1 -> SUBSET C] : Upto(m - 1, g)
    BY <1>2
  <2> DEFINE h == [n \in 0 .. m |-> IF n = m THEN step[g[m - 1]] ELSE g[n]]
  <2>2. h \in [0 .. m -> SUBSET C]
    <3>1. ASSUME NEW n \in 0 .. m, n # m PROVE n \in 0 .. m - 1
      BY <3>1
    <3>2. m - 1 \in 0 .. m - 1
      OBVIOUS
    <3> QED
      BY <3>1, <3>2
  <2>3. h[0] = S
    BY <2>1
  <2>4. ASSUME NEW n \in 1 .. m PROVE h[n] = step[h[n - 1]]
    <3>1. n - 1 \in 0 .. m /\ n \in 0 .. m /\ h[n - 1] = g[n - 1]
      OBVIOUS
    <3>2. CASE n = m
      BY <3>1, <3>2
    <3>3. CASE n # m
      <4>1. n \in 1 .. m - 1
        BY <3>3
      <4> QED
        BY <2>1, <3>1, <3>3, <4>1
    <3> QED
      BY <3>2, <3>3
  <2>5. m \in Nat
    OBVIOUS
  <2> QED
    BY <2>2, <2>3, <2>4, <2>5
<1> HIDE DEF P
<1>3. k \in P
  BY <1>1, <1>2, Counting
<1> QED
  BY <1>3 DEF P, IsChain

(* A set that only grows in a finite one, and stops for good when it stops, *)
(* has filled it or stopped after as many steps as there are members.       *)
LEMMA Saturates ==
  ASSUME NEW C, IsFiniteSet(C), NEW k, k = Cardinality(C), NEW h \in [0 .. k -> SUBSET C],
         \A n \in 1 .. k : h[n - 1] \subseteq h[n],
         \A n \in 1 .. k : n + 1 \in 1 .. k /\ h[n] = h[n - 1] => h[n + 1] = h[n]
  PROVE  h[k] = C \/ (k > 0 /\ h[k] = h[k - 1])
<1> DEFINE P == {n \in 0 .. k : Cardinality(h[n]) >= n \/ (n > 0 /\ h[n] = h[n - 1])}
<1>0. k \in Nat
  BY FS_CardinalityType
<1>1. ASSUME NEW n \in 0 .. k
      PROVE  h[n] \subseteq C /\ IsFiniteSet(h[n]) /\ Cardinality(h[n]) \in Nat
             /\ (Cardinality(h[n]) = Cardinality(C) => h[n] = C) /\ Cardinality(h[n]) <= k
  BY FS_Subset, FS_CardinalityType
<1>2. 0 \in P
  BY <1>0, <1>1
<1>3. ASSUME NEW n \in 1 .. k, n - 1 \in P PROVE n \in P
  <2>1. n \in 0 .. k /\ n - 1 \in 0 .. k /\ n \in Nat /\ n > 0
    BY <1>0
  <2>2. CASE h[n] = h[n - 1]
    BY <2>1, <2>2
  <2>3. CASE h[n] # h[n - 1]
    <3>1. Cardinality(h[n - 1]) < Cardinality(h[n])
      <4>1. h[n - 1] \subseteq h[n] /\ IsFiniteSet(h[n])
        BY <1>1, <2>1
      <4> QED
        BY <1>1, <2>1, <2>3, <4>1, FS_Subset
    <3>2. Cardinality(h[n - 1]) >= n - 1
      <4>1. CASE n - 1 > 0 /\ h[n - 1] = h[n - 1 - 1]
        <5>1. n - 1 \in 1 .. k /\ (n - 1) + 1 = n
          BY <2>1, <4>1
        <5>2. h[(n - 1) + 1] = h[n - 1]
          BY <4>1, <5>1
        <5> QED
          BY <2>3, <5>1, <5>2
      <4> QED
        BY <1>3, <4>1
    <3>3. Cardinality(h[n]) >= n
      BY <1>1, <2>1, <3>1, <3>2
    <3> QED
      BY <2>1, <3>3
  <2> QED
    BY <2>2, <2>3
<1> HIDE DEF P
<1>4. k \in P
  <2>1. \A n \in 1 .. k : n - 1 \in P => n \in P
    BY <1>3
  <2>2. \A n \in 0 .. k : n \in P
    BY <1>0, <1>2, <2>1, Counting
  <2> QED
    BY <1>0, <2>2
<1>5. Cardinality(h[k]) >= k \/ (k > 0 /\ h[k] = h[k - 1])
  BY <1>4 DEF P
<1> QED
  BY <1>0, <1>1, <1>5

-----------------------------------------------------------------------------
(* ComponentCatalog's recursive functions.                                  *)
GraphTyped == catalog.deps \in [Components -> SUBSET Components]
DownClosed(Z) == \A c \in Z : catalog.deps[c] \subseteq Z
Held(B) == \A c \in B : catalog.deps[c] \cap B # {}

(* What no round of buildGraph takes: nothing of it is ready, and whatever  *)
(* waits for a part of itself is in it.                                     *)
LEMMA LeftWaiting ==
  ASSUME GraphTyped
  PROVE  /\ LeftAfter \subseteq Components /\ Held(LeftAfter)
         /\ \A B \in SUBSET Components : Held(B) => B \subseteq LeftAfter
<1> DEFINE k == Cardinality(Components)
           Remaining(T) == T \ Ready(T)
           step == [T \in SUBSET Components |-> Remaining(T)]
           IsLeft(g) == g = [n \in Rounds |-> IF n = 0 THEN Components ELSE Remaining(g[n - 1])]
           L == CHOOSE left : left = [n \in Rounds |-> IF n = 0 THEN Components ELSE Remaining(left[n - 1])]
<1>0. k \in Nat /\ IsFiniteSet(Components)
  BY CatalogConstants, FS_CardinalityType
<1>1. \E g : IsLeft(g)
  <2>1. PICK g : IsChain(g, Components, step, Components, k)
    <3>1. IsStep(step, Components)
      BY DEF IsStep
    <3>2. Components \in SUBSET Components
      OBVIOUS
    <3> HIDE DEF step, k
    <3> QED
      BY <1>0, <3>1, <3>2, Iterates
  <2>2. ASSUME NEW n \in Rounds, n # 0 PROVE g[n] = Remaining(g[n - 1])
    <3>1. n \in 1 .. k /\ n - 1 \in 0 .. k
      BY <1>0, <2>2 DEF Rounds
    <3> QED
      BY <2>1, <3>1 DEF IsChain
  <2> HIDE DEF Remaining
  <2> QED
    BY <2>1, <2>2 DEF Rounds, IsChain
<1>2. IsLeft(L)
  BY <1>1
<1>3. LeftAfter = L[k]
  BY DEF LeftAfter
<1> HIDE DEF L, step
<1>4. L[0] = Components
  BY <1>0, <1>2 DEF Rounds
<1>5. ASSUME NEW n \in 1 .. k PROVE L[n] = Remaining(L[n - 1])
  <2> HIDE DEF Remaining
  <2> QED
    BY <1>0, <1>2 DEF Rounds
<1>6. \A n \in 0 .. k : L[n] \subseteq Components
  <2> DEFINE P == {n \in 0 .. k : L[n] \subseteq Components}
  <2>1. 0 \in P /\ \A n \in 1 .. k : n - 1 \in P => n \in P
    BY <1>0, <1>4, <1>5
  <2>2. \A n \in 0 .. k : n \in P
    <3> HIDE DEF P, k
    <3> QED
      BY <1>0, <2>1, Counting
  <2> QED
    BY <2>2
<1>7. ASSUME NEW B \in SUBSET Components, Held(B) PROVE B \subseteq LeftAfter
  <2> DEFINE P == {n \in 0 .. k : B \subseteq L[n]}
  <2>1. 0 \in P /\ \A n \in 1 .. k : n - 1 \in P => n \in P
    BY <1>0, <1>4, <1>5, <1>7 DEF Held, Ready
  <2>2. \A n \in 0 .. k : n \in P
    <3> HIDE DEF P, k
    <3> QED
      BY <1>0, <2>1, Counting
  <2> QED
    BY <1>0, <1>3, <2>2
<1>8. Ready(L[k]) = {}
  <2> DEFINE h == [n \in 0 .. k |-> Components \ L[n]]
  <2>1. h \in [0 .. k -> SUBSET Components]
    OBVIOUS
  <2>2. ASSUME NEW n \in 1 .. k PROVE h[n - 1] \subseteq h[n]
    BY <1>0, <1>5
  <2>3. ASSUME NEW n \in 1 .. k, n + 1 \in 1 .. k, h[n] = h[n - 1] PROVE h[n + 1] = h[n]
    <3>1. L[n] = L[n - 1]
      <4>1. n \in 0 .. k /\ n - 1 \in 0 .. k
        BY <1>0
      <4>2. Components \ L[n] = Components \ L[n - 1]
        BY <2>3, <4>1
      <4>3. L[n] \subseteq Components /\ L[n - 1] \subseteq Components
        BY <1>6, <4>1
      <4> QED
        BY <4>2, <4>3
    <3>2. L[n + 1] = L[n]
      <4>1. (n + 1) - 1 = n
        OBVIOUS
      <4> QED
        BY <1>5, <2>3, <3>1, <4>1
    <3>3. n \in 0 .. k /\ n + 1 \in 0 .. k
      BY <1>0, <2>3
    <3> QED
      BY <3>2, <3>3
  <2>4. h[k] = Components \/ (k > 0 /\ h[k] = h[k - 1])
    <3> HIDE DEF h, k
    <3> QED
      BY <1>0, <2>1, <2>2, <2>3, Saturates DEF k
  <2>5. CASE h[k] = Components
    BY <1>0, <1>6, <2>5 DEF Ready
  <2>6. CASE k > 0 /\ h[k] = h[k - 1]
    <3>1. L[k] = L[k - 1] /\ L[k] = Remaining(L[k - 1])
      <4>1. k \in 1 .. k /\ k \in 0 .. k /\ k - 1 \in 0 .. k
        BY <1>0, <2>6
      <4>2. Components \ L[k] = Components \ L[k - 1]
        BY <2>6, <4>1
      <4>3. L[k] \subseteq Components /\ L[k - 1] \subseteq Components
        BY <1>6, <4>1
      <4> QED
        BY <1>5, <4>1, <4>2, <4>3
    <3> QED
      BY <3>1 DEF Ready
  <2> QED
    BY <2>4, <2>5, <2>6
<1> QED
  BY <1>0, <1>3, <1>6, <1>7, <1>8 DEF Held, Ready

(* Beneath is the least closed set.                                         *)
LEMMA BeneathIs ==
  ASSUME GraphTyped, NEW S \in SUBSET Components
  PROVE  /\ S \subseteq Beneath(S) /\ Beneath(S) \subseteq Components /\ DownClosed(Beneath(S))
         /\ \A Z : S \subseteq Z /\ DownClosed(Z) => Beneath(S) \subseteq Z
<1> DEFINE k == Cardinality(Components)
           Below(T) == T \cup UNION {catalog.deps[c] : c \in T}
           step == [T \in SUBSET Components |-> Below(T)]
           IsGrown(g) == g = [n \in Rounds |-> IF n = 0 THEN S ELSE Below(g[n - 1])]
           G == CHOOSE grow : grow = [n \in Rounds |-> IF n = 0 THEN S ELSE Below(grow[n - 1])]
<1>0. k \in Nat /\ IsFiniteSet(Components)
  BY CatalogConstants, FS_CardinalityType
<1>1. \E g : IsGrown(g)
  <2>1. PICK g : IsChain(g, Components, step, S, k)
    <3>1. IsStep(step, Components)
      BY DEF GraphTyped, IsStep
    <3> HIDE DEF step, k
    <3> QED
      BY <1>0, <3>1, Iterates
  <2>2. ASSUME NEW n \in Rounds, n # 0 PROVE g[n] = Below(g[n - 1])
    <3>1. n \in 1 .. k /\ n - 1 \in 0 .. k
      BY <1>0, <2>2 DEF Rounds
    <3> QED
      BY <2>1, <3>1 DEF IsChain
  <2> HIDE DEF Below
  <2> QED
    BY <2>1, <2>2 DEF Rounds, IsChain
<1>2. IsGrown(G)
  BY <1>1
<1>3. Beneath(S) = G[k]
  BY DEF Beneath
<1> HIDE DEF G, step
<1>4. G[0] = S
  BY <1>0, <1>2 DEF Rounds
<1>5. ASSUME NEW n \in 1 .. k PROVE G[n] = Below(G[n - 1])
  <2> HIDE DEF Below
  <2> QED
    BY <1>0, <1>2 DEF Rounds
<1>6. ASSUME NEW Z, S \subseteq Z, DownClosed(Z) PROVE \A n \in 0 .. k : G[n] \subseteq Z
  <2> DEFINE P == {n \in 0 .. k : G[n] \subseteq Z}
  <2>1. 0 \in P /\ \A n \in 1 .. k : n - 1 \in P => n \in P
    BY <1>0, <1>4, <1>5, <1>6 DEF DownClosed
  <2>2. \A n \in 0 .. k : n \in P
    <3> HIDE DEF P, k
    <3> QED
      BY <1>0, <2>1, Counting
  <2> QED
    BY <2>2
<1>7. \A n \in 0 .. k : G[n] \subseteq Components
  BY <1>6 DEF GraphTyped, DownClosed
<1>8. \A n \in 0 .. k : S \subseteq G[n]
  <2> DEFINE P == {n \in 0 .. k : S \subseteq G[n]}
  <2>1. 0 \in P /\ \A n \in 1 .. k : n - 1 \in P => n \in P
    BY <1>0, <1>4, <1>5
  <2>2. \A n \in 0 .. k : n \in P
    <3> HIDE DEF P, k
    <3> QED
      BY <1>0, <2>1, Counting
  <2> QED
    BY <2>2
<1>9. Below(G[k]) = G[k]
  <2>1. G \in [0 .. k -> SUBSET Components]
    BY <1>2, <1>7 DEF Rounds
  <2>2. ASSUME NEW n \in 1 .. k PROVE G[n - 1] \subseteq G[n]
    BY <1>5
  <2>3. ASSUME NEW n \in 1 .. k, n + 1 \in 1 .. k, G[n] = G[n - 1] PROVE G[n + 1] = G[n]
    <3>1. (n + 1) - 1 = n
      OBVIOUS
    <3> HIDE DEF Below
    <3> QED
      BY <1>5, <2>3, <3>1
  <2>4. G[k] = Components \/ (k > 0 /\ G[k] = G[k - 1])
    <3> HIDE DEF k
    <3> QED
      BY <1>0, <2>1, <2>2, <2>3, Saturates DEF k
  <2>5. CASE G[k] = Components
    BY <2>5 DEF GraphTyped
  <2>6. CASE k > 0 /\ G[k] = G[k - 1]
    BY <1>0, <1>5, <2>6
  <2> QED
    BY <2>4, <2>5, <2>6
<1> QED
  BY <1>0, <1>3, <1>6, <1>7, <1>8, <1>9 DEF DownClosed

-----------------------------------------------------------------------------
(* The same of a graph given as a parameter: neither changes while the      *)
(* catalog does not.                                                        *)
LeftIn(deps) ==
  LET left[n \in Rounds] ==
        IF n = 0 THEN Components ELSE left[n - 1] \ {c \in left[n - 1] : deps[c] \cap left[n - 1] = {}}
  IN left[Cardinality(Components)]
BeneathIn(deps, S) ==
  LET grow[n \in Rounds] ==
        IF n = 0 THEN S ELSE grow[n - 1] \cup UNION {deps[c] : c \in grow[n - 1]}
  IN grow[Cardinality(Components)]

LEMMA SameGraph ==
  ASSUME catalog' = catalog
  PROVE  LeftAfter' = LeftAfter /\ Beneath(Templates)' = Beneath(Templates)
<1>1. LeftAfter = LeftIn(catalog.deps)
  BY DEF LeftAfter, LeftIn, Ready
<1>2. LeftAfter' = LeftIn(catalog'.deps)
  BY DEF LeftAfter, LeftIn, Ready
<1>3. Beneath(Templates) = BeneathIn(catalog.deps, Templates)
  BY DEF Beneath, BeneathIn
<1>4. Beneath(Templates)' = BeneathIn(catalog'.deps, Templates)
  BY DEF Beneath, BeneathIn
<1> QED
  BY <1>1, <1>2, <1>3, <1>4

-----------------------------------------------------------------------------
(* A pass knows that there is an order; what it applied has what it needs,  *)
(* what it let pending has not and will not have it in this pass; and what  *)
(* a teardown came by and left is under a template.                         *)
OrderIsKnown ==
  /\ pass.pc = "cycle" => IsCyclic
  /\ pass.pc \in {"apply", "done", "broken", "failed", "remove"} => ~IsCyclic
Decided ==
  /\ pass.pc \in {"apply", "done", "broken"} => \A c \in pass.applied : Unmet(c) = {} /\ DepsApplied(c)
  /\ pass.pc \in {"apply", "done"} =>
       /\ Components = pass.left \cup pass.applied \cup pass.pending
       /\ \A c \in pass.pending : catalog.deps[c] \cap pass.left = {} /\ ~CanApply(c) /\ c \notin pass.left
       /\ pass.applied \cap pass.left = {}
  /\ pass.pc = "done" => pass.left = {}
  /\ pass.pc = "broken" => \E c \in Components : IsBroken(c)
Spared ==
  /\ pass.pc = "remove" => made \ pass.left \subseteq Beneath(Templates)
  /\ pass.pc = "empty" /\ ~IsCyclic => made \subseteq Beneath(Templates)
PassInv == GraphTyped /\ OrderIsKnown /\ Decided /\ Spared

LEMMA PassInvStep ==
  ASSUME CatalogTyped, PassInv, CatalogNext
  PROVE  PassInv'
<1>0. /\ GraphTyped /\ OrderIsKnown /\ Decided /\ Spared /\ pass.pc \in PassPcs /\ made \subseteq Components
      /\ pass \in [pc : PassPcs, left : SUBSET Components, applied : SUBSET Components,
                   pending : SUBSET Components]
  BY DEF PassInv, CatalogTyped
<1>1. catalog' = catalog
  BY DEF CatalogNext, CatalogPass, ApplyComponent, ApplyFails, PassDone, OutputsArrive, ProvisionAgain,
         TeardownStart, RemoveComponent, OrgDeleted
<1>2. IsCyclic' = IsCyclic /\ Beneath(Templates)' = Beneath(Templates) /\ GraphTyped'
  BY <1>0, <1>1, SameGraph DEF IsCyclic, GraphTyped
<1>3. Templates \subseteq Beneath(Templates) /\ DownClosed(Beneath(Templates))
  BY <1>0, BeneathIs, CatalogConstants
<1>4. CASE CatalogPass \/ OutputsArrive \/ ProvisionAgain \/ TeardownStart \/ OrgDeleted
  <2>1. \/ pass'.pc = "rest" \/ pass'.pc = "gone"
        \/ pass'.pc = "cycle" /\ IsCyclic
        \/ pass'.pc = "empty" /\ IsCyclic
        \/ pass'.pc = "apply" /\ ~IsCyclic /\ pass'.left = Components /\ pass'.applied = {} /\ pass'.pending = {}
        \/ pass'.pc = "remove" /\ ~IsCyclic /\ pass'.left = Components /\ made' = made
    <3>1. CASE OutputsArrive \/ ProvisionAgain \/ OrgDeleted
      BY <3>1 DEF OutputsArrive, ProvisionAgain, OrgDeleted, Quiet
    <3>2. CASE CatalogPass
      BY <3>2 DEF CatalogPass, Quiet
    <3>3. CASE TeardownStart
      BY <3>3 DEF TeardownStart, Quiet
    <3> QED
      BY <1>4, <3>1, <3>2, <3>3
  <2> QED
    BY <1>0, <1>2, <2>1 DEF PassInv, OrderIsKnown, Decided, Spared
<1>5. CASE ApplyComponent
  <2>1. PICK c \in Ready(pass.left) :
       \/ /\ CanApply(c)
          /\ pass' = [pass EXCEPT !.left = @ \ {c}, !.applied = @ \cup {c}]
       \/ /\ IsBroken(c)
          /\ pass' = [pass EXCEPT !.pc = "broken"]
       \/ /\ ~CanApply(c) /\ ~IsBroken(c)
          /\ pass' = [pass EXCEPT !.left = @ \ {c}, !.pending = @ \cup {c}]
    BY <1>5 DEF ApplyComponent
  <2>2. pass.pc = "apply" /\ have' = have /\ ~IsCyclic
    BY <1>0, <1>5 DEF ApplyComponent, PassAt, OrderIsKnown
  <2>3. c \in pass.left /\ catalog.deps[c] \cap pass.left = {} /\ c \in Components
    BY <1>0, <2>1 DEF Ready
  <2>4. \A d \in Components : Unmet(d)' = Unmet(d)
    BY <1>1, <2>2 DEF Unmet
  <2>5. /\ \A d \in pass.applied : Unmet(d) = {} /\ catalog.deps[d] \subseteq pass.applied
        /\ Components = pass.left \cup pass.applied \cup pass.pending
        /\ \A d \in pass.pending : /\ catalog.deps[d] \cap pass.left = {} /\ d \notin pass.left
                                   /\ ~(Unmet(d) = {} /\ catalog.deps[d] \subseteq pass.applied)
        /\ pass.applied \cap pass.left = {}
    BY <1>0, <2>2 DEF Decided, CanApply, DepsApplied
  <2>6. CASE CanApply(c) /\ pass' = [pass EXCEPT !.left = @ \ {c}, !.applied = @ \cup {c}]
    <3>1. pass'.pc = "apply" /\ pass'.left = pass.left \ {c} /\ pass'.applied = pass.applied \cup {c}
          /\ pass'.pending = pass.pending
      BY <1>0, <2>2, <2>6
    <3>2. Unmet(c) = {} /\ catalog.deps[c] \subseteq pass.applied
      BY <2>6 DEF CanApply, DepsApplied
    <3>3. Decided'
      BY <1>0, <1>1, <2>3, <2>4, <2>5, <3>1, <3>2 DEF Decided, CanApply, DepsApplied
    <3> QED
      BY <1>2, <2>2, <3>1, <3>3 DEF PassInv, OrderIsKnown, Spared
  <2>7. CASE IsBroken(c) /\ pass' = [pass EXCEPT !.pc = "broken"]
    <3>1. pass'.pc = "broken" /\ pass'.left = pass.left /\ pass'.applied = pass.applied
          /\ pass'.pending = pass.pending
      BY <1>0, <2>7
    <3>2. IsBroken(c)'
      BY <1>1, <2>3, <2>4, <2>7, <3>1 DEF IsBroken, DepsApplied
    <3>3. Decided'
      BY <1>0, <1>1, <2>3, <2>4, <2>5, <3>1, <3>2 DEF Decided, DepsApplied
    <3> QED
      BY <1>2, <2>2, <3>1, <3>3 DEF PassInv, OrderIsKnown, Spared
  <2>8. CASE ~CanApply(c) /\ pass' = [pass EXCEPT !.left = @ \ {c}, !.pending = @ \cup {c}]
    <3>1. pass'.pc = "apply" /\ pass'.left = pass.left \ {c} /\ pass'.applied = pass.applied
          /\ pass'.pending = pass.pending \cup {c}
      BY <1>0, <2>2, <2>8
    <3>2. ~(Unmet(c) = {} /\ catalog.deps[c] \subseteq pass.applied)
      BY <2>8 DEF CanApply, DepsApplied
    <3>3. Decided'
      BY <1>0, <1>1, <2>3, <2>4, <2>5, <3>1, <3>2 DEF Decided, CanApply, DepsApplied
    <3> QED
      BY <1>2, <2>2, <3>1, <3>3 DEF PassInv, OrderIsKnown, Spared
  <2> QED
    BY <2>1, <2>6, <2>7, <2>8
<1>6. CASE ApplyFails
  <2>1. pass'.pc = "failed" /\ ~IsCyclic
    BY <1>0, <1>6 DEF ApplyFails, PassAt, OrderIsKnown
  <2> QED
    BY <1>2, <2>1 DEF PassInv, OrderIsKnown, Decided, Spared
<1>7. CASE PassDone
  <2>1. /\ pass.pc = "apply" /\ pass.left = {} /\ have' = have /\ pass'.pc = "done"
        /\ pass'.left = pass.left /\ pass'.applied = pass.applied /\ pass'.pending = pass.pending
    BY <1>0, <1>7 DEF PassDone, PassAt
  <2> QED
    BY <1>0, <1>1, <1>2, <2>1 DEF PassInv, OrderIsKnown, Decided, Spared, CanApply, DepsApplied, Unmet
<1>8. CASE RemoveComponent
  <2>1. PICK c \in LastOf(pass.left) :
          /\ made' = IF c \in Templates \/ Referenced(c) THEN made ELSE made \ {c}
          /\ pass' = [pass EXCEPT !.left = @ \ {c}, !.pc = IF pass.left = {c} THEN "empty" ELSE @]
    BY <1>8 DEF RemoveComponent
  <2>2. pass.pc = "remove" /\ ~IsCyclic /\ made \ pass.left \subseteq Beneath(Templates)
    BY <1>0, <1>8 DEF RemoveComponent, PassAt, OrderIsKnown, Spared
  <2>3. /\ pass'.left = pass.left \ {c} /\ pass'.pc \in {"remove", "empty"}
        /\ pass'.pc = "empty" => pass'.left = {}
    BY <1>0, <2>1, <2>2
  <2>4. c \in pass.left /\ \A d \in pass.left : c \notin catalog.deps[d]
    BY <2>1 DEF LastOf
  <2>5. c \in made' => c \in Beneath(Templates)
    <3>1. CASE c \in Templates
      BY <1>3, <3>1
    <3>2. CASE Referenced(c)
      BY <1>3, <2>2, <2>4, <3>2 DEF Referenced, DownClosed
    <3> QED
      BY <2>1, <3>1, <3>2
  <2>6. made' \ pass'.left \subseteq Beneath(Templates)
    BY <2>1, <2>2, <2>3, <2>5
  <2> QED
    BY <1>2, <2>2, <2>3, <2>6 DEF PassInv, OrderIsKnown, Decided, Spared
<1> QED
  BY <1>4, <1>5, <1>6, <1>7, <1>8 DEF CatalogNext

-----------------------------------------------------------------------------
(* The reference.                                                           *)

(* What is beneath a component is what it depends on and what is beneath    *)
(* that.                                                                    *)
LEMMA BeneathUnfolds ==
  ASSUME GraphTyped, NEW S \in SUBSET Components, NEW x \in Beneath(S)
  PROVE  \E s \in S : x = s \/ x \in Beneath(catalog.deps[s])
<1> DEFINE Z == S \cup UNION {Beneath(catalog.deps[s]) : s \in S}
<1>1. ASSUME NEW s \in S
      PROVE  catalog.deps[s] \subseteq Beneath(catalog.deps[s]) /\ DownClosed(Beneath(catalog.deps[s]))
  <2>1. catalog.deps[s] \in SUBSET Components
    BY DEF GraphTyped
  <2> QED
    BY <2>1, BeneathIs
<1>2. DownClosed(Z)
  <2> SUFFICES ASSUME NEW c \in Z PROVE catalog.deps[c] \subseteq Z
    BY DEF DownClosed
  <2>1. CASE c \in S
    BY <1>1, <2>1
  <2>2. CASE \E s \in S : c \in Beneath(catalog.deps[s])
    BY <1>1, <2>2 DEF DownClosed
  <2> QED
    BY <2>1, <2>2
<1>3. S \subseteq Z
  OBVIOUS
<1>4. x \in Z
  <2> HIDE DEF Z
  <2> QED
    BY <1>2, <1>3, BeneathIs
<1> QED
  BY <1>4

LEMMA BeneathGoesOn ==
  ASSUME GraphTyped, NEW S \in SUBSET Components, NEW c \in Beneath(S)
  PROVE  /\ c \in Components /\ catalog.deps[c] \in SUBSET Components
         /\ Beneath({c}) \subseteq Beneath(S) /\ Beneath(catalog.deps[c]) \subseteq Beneath(S)
<1>1. c \in Components /\ catalog.deps[c] \subseteq Beneath(S) /\ DownClosed(Beneath(S))
  BY BeneathIs DEF DownClosed
<1>2. catalog.deps[c] \in SUBSET Components /\ {c} \in SUBSET Components
  BY <1>1 DEF GraphTyped
<1>3. Beneath({c}) \subseteq Beneath(S)
  <2>1. {c} \subseteq Beneath(S)
    OBVIOUS
  <2> QED
    BY <1>1, <1>2, <2>1, BeneathIs
<1>4. Beneath(catalog.deps[c]) \subseteq Beneath(S)
  BY <1>1, <1>2, BeneathIs
<1> QED
  BY <1>1, <1>2, <1>3, <1>4

(* The test of buildGraph is right: a round comes to nothing for good       *)
(* exactly when some component rests on itself.                             *)
LEMMA CyclicIs ==
  ASSUME GraphTyped
  PROVE  IsCyclic <=> \E c \in Components : OnACycle(c)
<1>1. ASSUME NEW c \in Components, OnACycle(c) PROVE IsCyclic
  <2> DEFINE B == {d \in Components : c \in Beneath(catalog.deps[d])}
  <2>1. c \in B
    BY <1>1 DEF OnACycle
  <2>2. Held(B)
    <3> SUFFICES ASSUME NEW d \in B PROVE catalog.deps[d] \cap B # {}
      BY DEF Held
    <3>1. catalog.deps[d] \in SUBSET Components
      BY DEF GraphTyped
    <3>2. PICK e \in catalog.deps[d] : c = e \/ c \in Beneath(catalog.deps[e])
      BY <3>1, BeneathUnfolds
    <3> QED
      BY <2>1, <3>1, <3>2
  <2>3. B \subseteq LeftAfter
    <3>1. B \in SUBSET Components
      OBVIOUS
    <3> HIDE DEF B
    <3> QED
      BY <2>2, <3>1, LeftWaiting
  <2> QED
    BY <2>1, <2>3 DEF IsCyclic
<1>2. ASSUME IsCyclic PROVE \E c \in Components : OnACycle(c)
  <2> DEFINE Size(c) == Cardinality(Beneath(catalog.deps[c]))
             sizes == {Size(c) : c \in LeftAfter}
  <2>1. LeftAfter # {} /\ LeftAfter \subseteq Components /\ Held(LeftAfter)
    BY <1>2, LeftWaiting DEF IsCyclic
  <2>2. ASSUME NEW c \in LeftAfter
        PROVE  /\ catalog.deps[c] \in SUBSET Components /\ IsFiniteSet(Beneath(catalog.deps[c]))
               /\ catalog.deps[c] \subseteq Beneath(catalog.deps[c]) /\ Size(c) \in Nat
    <3>1. catalog.deps[c] \in SUBSET Components
      BY <2>1 DEF GraphTyped
    <3>2. Beneath(catalog.deps[c]) \subseteq Components /\ catalog.deps[c] \subseteq Beneath(catalog.deps[c])
      BY <3>1, BeneathIs
    <3> QED
      BY <3>1, <3>2, CatalogConstants, FS_Subset, FS_CardinalityType
  <2>3. PICK c \in LeftAfter : \A d \in LeftAfter : Size(c) <= Size(d)
    <3>1. sizes \subseteq Nat /\ sizes # {}
      BY <2>1, <2>2
    <3>2. PICK n \in sizes : \A m \in sizes : n <= m
      <4> HIDE DEF sizes
      <4> QED
        BY <3>1, Least
    <3> QED
      BY <3>2
  <2>4. PICK d \in catalog.deps[c] : d \in LeftAfter
    BY <2>1 DEF Held
  <2>5. d \in Beneath(catalog.deps[c])
    BY <2>2
  <2>6. Beneath(catalog.deps[d]) \subseteq Beneath(catalog.deps[c])
    BY <2>2, <2>5, BeneathGoesOn
  <2>7. Size(d) = Size(c) => Beneath(catalog.deps[d]) = Beneath(catalog.deps[c])
    BY <2>2, <2>6, FS_Subset
  <2>8. Size(d) <= Size(c)
    BY <2>2, <2>6, FS_Subset
  <2>9. Size(d) = Size(c)
    BY <2>2, <2>3, <2>4, <2>8
  <2> QED
    BY <2>1, <2>4, <2>5, <2>7, <2>9 DEF OnACycle
<1> QED
  BY <1>1, <1>2

LEMMA AppliedSatisfied ==
  ASSUME GraphTyped, NEW A \in SUBSET Components, \A c \in A : Unmet(c) = {} /\ catalog.deps[c] \subseteq A,
         NEW c \in A
  PROVE  Satisfiable(c)
<1>1. {c} \in SUBSET Components /\ {c} \subseteq A /\ DownClosed(A)
  BY DEF DownClosed
<1>2. Beneath({c}) \subseteq A
  BY <1>1, BeneathIs
<1> QED
  BY <1>2 DEF Satisfiable

LEMMA CompleteIs == CatalogTyped /\ PassInv => PassIsComplete
<1> SUFFICES ASSUME CatalogTyped, PassInv, pass.pc = "done" PROVE pass.applied = {c \in Components : Satisfiable(c)}
  BY DEF PassIsComplete, PassAt
<1>1. GraphTyped /\ Decided /\ LeftAfter = {} /\ pass.left = {} /\ Components = pass.applied \cup pass.pending
  BY DEF PassInv, OrderIsKnown, Decided, IsCyclic
<1>2. \A c \in pass.applied : Unmet(c) = {} /\ catalog.deps[c] \subseteq pass.applied
  BY <1>1 DEF Decided, DepsApplied
<1>3. ASSUME NEW c \in pass.applied PROVE Satisfiable(c)
  <2>1. pass.applied \in SUBSET Components
    BY <1>1
  <2> QED
    BY <1>1, <1>2, <2>1, AppliedSatisfied
<1>4. ASSUME NEW c \in Components, Satisfiable(c) PROVE c \in pass.applied
  <2> DEFINE B == {d \in pass.pending : Satisfiable(d)}
  <2>1. Held(B)
    <3> SUFFICES ASSUME NEW d \in B PROVE catalog.deps[d] \cap B # {}
      BY DEF Held
    <3>1. d \in Components /\ {d} \in SUBSET Components /\ catalog.deps[d] \in SUBSET Components
      BY <1>1 DEF GraphTyped
    <3>2. d \in Beneath({d}) /\ catalog.deps[d] \subseteq Beneath({d})
      BY <1>1, <3>1, BeneathIs DEF DownClosed
    <3>3. Unmet(d) = {}
      BY <3>2 DEF Satisfiable
    <3>4. PICK e \in catalog.deps[d] : e \notin pass.applied
      BY <1>1, <3>3 DEF Decided, CanApply, DepsApplied
    <3>5. Satisfiable(e)
      <4>1. Beneath({e}) \subseteq Beneath({d})
        BY <1>1, <3>1, <3>2, BeneathGoesOn
      <4> QED
        BY <4>1 DEF Satisfiable
    <3> QED
      BY <1>1, <3>1, <3>4, <3>5
  <2>2. B \in SUBSET Components
    BY <1>1
  <2>3. B = {}
    <3> HIDE DEF B
    <3> QED
      BY <1>1, <2>1, <2>2, LeftWaiting
  <2> QED
    BY <1>1, <1>4, <2>3
<1> QED
  BY <1>1, <1>3, <1>4

LEMMA RefusalIs == CatalogTyped /\ PassInv => RefusalIsDeserved
<1> SUFFICES ASSUME CatalogTyped, PassInv PROVE RefusalIsDeserved
  OBVIOUS
<1>1. GraphTyped /\ OrderIsKnown /\ Decided /\ pass.pc \in PassPcs
  BY DEF PassInv, CatalogTyped
<1>2. IsCyclic <=> \E c \in Components : OnACycle(c)
  BY <1>1, CyclicIs
<1>3. PassAt("cycle") <=> (\E c \in Components : OnACycle(c)) /\ pass.pc \notin {"rest", "empty", "gone"}
  BY <1>1, <1>2 DEF OrderIsKnown, PassAt, PassPcs
<1>4. ASSUME PassAt("broken")
      PROVE  \E c \in Components : /\ Unmet(c) # {} /\ catalog.deps[c] # {}
                                   /\ \A d \in catalog.deps[c] : Satisfiable(d)
  <2>1. PICK c \in Components : Unmet(c) # {} /\ catalog.deps[c] # {} /\ catalog.deps[c] \subseteq pass.applied
    BY <1>1, <1>4 DEF Decided, PassAt, IsBroken, DepsApplied
  <2>2. /\ pass.applied \in SUBSET Components
        /\ \A d \in pass.applied : Unmet(d) = {} /\ catalog.deps[d] \subseteq pass.applied
    BY <1>1, <1>4 DEF Decided, PassAt, DepsApplied, CatalogTyped
  <2>3. ASSUME NEW d \in catalog.deps[c] PROVE Satisfiable(d)
    BY <1>1, <2>1, <2>2, AppliedSatisfied
  <2> QED
    BY <2>1, <2>3
<1> QED
  BY <1>3, <1>4 DEF RefusalIsDeserved

-----------------------------------------------------------------------------
LEMMA CatalogInvariant == CatalogSpec => []CatalogInv
<1>1. CatalogInit => CatalogInv
  BY DEF CatalogInit, Quiet, CatalogInv, CatalogTyped, PassPcs, AppliedIsMade, PassAt, PartsComeFirst
<1>2. CatalogInv /\ [CatalogNext]_catalogVars => CatalogInv'
  <2> SUFFICES ASSUME CatalogInv, [CatalogNext]_catalogVars PROVE CatalogInv'
    OBVIOUS
  <2>1. CASE CatalogNext
    BY <2>1, CatalogStep
  <2>2. CASE UNCHANGED catalogVars
    BY <2>2 DEF catalogVars, CatalogInv, CatalogTyped, AppliedIsMade, PassAt, PartsComeFirst
  <2> QED
    BY <2>1, <2>2
<1> QED
  BY <1>1, <1>2, PTL DEF CatalogSpec

LEMMA PassInvariant == CatalogSpec => []PassInv
<1>1. CatalogInit => PassInv
  <2> SUFFICES ASSUME CatalogInit PROVE PassInv
    OBVIOUS
  <2>1. GraphTyped /\ pass.pc \in {"rest", "gone"}
    BY DEF CatalogInit, GraphTyped, Quiet
  <2> QED
    BY <2>1 DEF PassInv, OrderIsKnown, Decided, Spared
<1>2. CatalogInv /\ PassInv /\ [CatalogNext]_catalogVars => PassInv'
  <2> SUFFICES ASSUME CatalogInv, PassInv, [CatalogNext]_catalogVars PROVE PassInv'
    OBVIOUS
  <2>1. CASE CatalogNext
    BY <2>1, PassInvStep DEF CatalogInv
  <2>2. CASE UNCHANGED catalogVars
    <3>1. UNCHANGED <<catalog, have, made, pass>> /\ LeftAfter' = LeftAfter /\ Beneath(Templates)' = Beneath(Templates)
      BY <2>2, SameGraph DEF catalogVars
    <3> QED
      BY <3>1 DEF PassInv, GraphTyped, OrderIsKnown, IsCyclic, Decided, Spared, Unmet, DepsApplied, CanApply, IsBroken
  <2> QED
    BY <2>1, <2>2
<1> QED
  BY <1>1, <1>2, CatalogInvariant, PTL DEF CatalogSpec

(* The types of the catalog and of the pass over it.                        *)
THEOREM CatalogTypeCorrect == CatalogSpec => []CatalogTypeOK
<1> DEFINE OthersFit == /\ catalog \in [deps : [Components -> SUBSET Components], requires : [Components -> SUBSET Inputs]]
                   /\ have \subseteq Inputs /\ catalogFaults \in 0 .. MaxCatalogFaults
<1>1. CatalogInit => OthersFit
  BY CatalogConstants DEF CatalogInit
<1>2. OthersFit /\ [CatalogNext]_catalogVars => OthersFit'
  <2> SUFFICES ASSUME OthersFit, [CatalogNext]_catalogVars PROVE OthersFit'
    OBVIOUS
  <2>1. catalog' = catalog /\ (have' = have \/ have' = {} \/ \E i \in Inputs : have' = have \cup {i})
    BY DEF CatalogNext, CatalogPass, ApplyComponent, ApplyFails, PassDone, OutputsArrive, ProvisionAgain,
           TeardownStart, RemoveComponent, OrgDeleted, catalogVars
  <2>2. catalogFaults' = catalogFaults \/ (catalogFaults > 0 /\ catalogFaults' = catalogFaults - 1)
    BY DEF CatalogNext, CatalogPass, ApplyComponent, ApplyFails, PassDone, OutputsArrive, ProvisionAgain,
           TeardownStart, RemoveComponent, OrgDeleted, catalogVars
  <2> QED
    BY <2>1, <2>2, CatalogConstants
<1>3. CatalogInv /\ OthersFit => CatalogTypeOK
  BY DEF CatalogInv, CatalogTyped, PassPcs, CatalogTypeOK
<1> QED
  BY <1>1, <1>2, <1>3, CatalogInvariant, PTL DEF CatalogSpec

(* For any catalog: in the org nothing stands without what it refers to,    *)
(* through passes that fail half-way, provisions that start again and       *)
(* teardowns.                                                               *)
THEOREM PartsStandFirst == CatalogSpec => []PartsComeFirst
<1>1. CatalogInv => PartsComeFirst
  BY DEF CatalogInv
<1> QED
  BY <1>1, CatalogInvariant, PTL

(* For any catalog: a pass that ends has made exactly what rests on nothing *)
(* that is missing, over any number of edges.                               *)
THEOREM PassesAreComplete == CatalogSpec => []PassIsComplete
<1>1. CatalogInv /\ PassInv => PassIsComplete
  BY CompleteIs DEF CatalogInv
<1> QED
  BY <1>1, CatalogInvariant, PassInvariant, PTL

(* For any catalog: it is refused for a cycle exactly when a component      *)
(* rests on itself, and a run is broken only when a component has all it    *)
(* rests on.                                                                *)
THEOREM RefusalsAreDeserved == CatalogSpec => []RefusalIsDeserved
<1>1. CatalogInv /\ PassInv => RefusalIsDeserved
  BY RefusalIs DEF CatalogInv
<1> QED
  BY <1>1, CatalogInvariant, PassInvariant, PTL

(* For any catalog: a teardown by the order leaves templates and what is    *)
(* beneath them.                                                            *)
THEOREM TeardownsEmptyOrgs == CatalogSpec => []OrgIsEmptied
<1>1. PassInv => OrgIsEmptied
  BY DEF PassInv, Spared, OrgIsEmptied, PassAt
<1> QED
  BY <1>1, PassInvariant, PTL
=============================================================================
