------------------------------ MODULE AwsApply ------------------------------
(***************************************************************************)
(* The apply of a run's AWS root, repeated for two failures that clear by  *)
(* themselves: the organization is busy with another run's account, and    *)
(* this run's own account is not switched on yet.  Each kind has a budget, *)
(* and one failed attempt may show signs of both.                          *)
(***************************************************************************)
EXTENDS Naturals

CONSTANTS
  AwsRuns,      \* runs that apply at the same time, in one organization
  Delays        \* how many waits each kind of failure is worth

Kinds == {"contention", "warmup"}

ASSUME AwsConstants == Delays \in [Kinds -> Nat]

VARIABLES
  aws,        \* each run: where it is, its attempts of each kind, its account;
              \* and, as history, the failures it met of each kind and of none
  throttled   \* calls to the organization are being turned away

awsVars == <<aws, throttled>>

(* A brand-new account, one being created (the organization makes one at a  *)
(* time), one that is ACTIVE but not switched on, and one in order.         *)
Accounts == {"none", "creating", "warming", "on"}
Zero == [k \in Kinds |-> 0]
Fresh(pc) == [pc |-> pc, attempts |-> Zero, account |-> "none", signs |-> {}, met |-> Zero, real |-> FALSE]

AwsInit ==
  /\ \E pc \in {"apply", "built"} : aws = [r \in AwsRuns |-> Fresh(pc)]
  /\ throttled = FALSE

AwsAt(r, pc) == aws[r].pc = pc
OrgBusy(r) == throttled \/ \E q \in AwsRuns \ {r} : aws[q].account = "creating"

-----------------------------------------------------------------------------
(* tofu apply: the account, then what is built in it.                       *)

CreateAccount(r) ==
  /\ AwsAt(r, "apply") /\ aws[r].account = "none" /\ ~OrgBusy(r)
  /\ aws' = [aws EXCEPT ![r].account = "creating"]
  /\ UNCHANGED throttled

AccountActive(r) ==
  /\ aws[r].account = "creating"
  /\ aws' = [aws EXCEPT ![r].account = "warming"]
  /\ UNCHANGED throttled

AccountSwitchedOn(r) ==
  /\ aws[r].account = "warming"
  /\ aws' = [aws EXCEPT ![r].account = "on"]
  /\ UNCHANGED throttled

Built(r) ==
  /\ AwsAt(r, "apply") /\ aws[r].account = "on"
  /\ aws' = [aws EXCEPT ![r].pc = "built"]
  /\ UNCHANGED throttled

(* awsRetryKind: the organization first.                                    *)
RetryKind(signs) == IF "contention" \in signs THEN "contention" ELSE "warmup"

(* What the attempt's stderr says of why it stopped; nothing that clears by *)
(* itself when the failure is another.                                      *)
Signs(r) ==
  (IF throttled \/ (aws[r].account = "none" /\ OrgBusy(r)) THEN {"contention"} ELSE {})
  \cup (IF aws[r].account = "warming" THEN {"warmup"} ELSE {})

Count(met, k) == [met EXCEPT ![k] = IF met[k] > Delays[k] THEN @ ELSE @ + 1]

ApplyStops(r) ==
  /\ AwsAt(r, "apply") /\ aws[r].account # "creating"
  /\ \E signs \in {Signs(r), {}} :
       aws' = [aws EXCEPT ![r].pc = "judge", ![r].signs = signs, ![r].real = (@ \/ signs = {}),
                          ![r].met = IF signs = {} THEN @ ELSE Count(@, RetryKind(signs))]
  /\ UNCHANGED throttled

(* awsAttemptOutcome: a wait is left for this kind.                         *)
WorthOneMore(w, k) == w.attempts[k] <= Delays[k]    \* mutant: off by one
SharedWorth(w, k) == w.attempts["contention"] + w.attempts["warmup"] < Delays[k]  \* mutant: one count for both
WorthAnother(w, k) == w.attempts[k] < Delays[k]

RetryUncounted(r) ==    \* mutant: contention is not counted
  /\ AwsAt(r, "judge") /\ aws[r].signs # {}
  /\ LET k == RetryKind(aws[r].signs) IN
       /\ WorthAnother(aws[r], k)
       /\ aws' = [aws EXCEPT ![r].attempts[k] = IF k = "contention" THEN @ ELSE @ + 1, ![r].pc = "wait"]
  /\ UNCHANGED throttled
Retry(r) ==
  /\ AwsAt(r, "judge") /\ aws[r].signs # {}
  /\ LET k == RetryKind(aws[r].signs) IN
       /\ WorthAnother(aws[r], k)
       /\ aws' = [aws EXCEPT ![r].attempts[k] = @ + 1, ![r].pc = "wait"]
  /\ UNCHANGED throttled

GiveUp(r) ==
  /\ AwsAt(r, "judge")
  /\ aws[r].signs = {} \/ ~WorthAnother(aws[r], RetryKind(aws[r].signs))
  /\ aws' = [aws EXCEPT ![r].pc = "failed"]
  /\ UNCHANGED throttled

Waited(r) ==
  /\ AwsAt(r, "wait")
  /\ aws' = [aws EXCEPT ![r].pc = "apply", ![r].signs = {}]
  /\ UNCHANGED throttled

Traffic == (\E r \in AwsRuns : ~AwsAt(r, "built")) /\ throttled' = ~throttled /\ UNCHANGED aws

ApplyStep(r) == CreateAccount(r) \/ AccountActive(r) \/ Built(r) \/ ApplyStops(r) \/ Retry(r) \/ GiveUp(r) \/ Waited(r)

AwsNext == Traffic \/ \E r \in AwsRuns : ApplyStep(r) \/ AccountSwitchedOn(r)

AwsSpec == AwsInit /\ [][AwsNext]_awsVars

(* tofu and the runner's timers go on; AWS need not switch the account on.  *)
AwsFairness == \A r \in AwsRuns : WF_awsVars(ApplyStep(r))

-----------------------------------------------------------------------------
AwsTypeOK ==
  /\ aws \in [AwsRuns -> [pc : {"apply", "judge", "wait", "built", "failed"}, attempts : [Kinds -> Nat],
                         account : Accounts, signs : SUBSET Kinds, met : [Kinds -> Nat], real : BOOLEAN]]
  /\ \A r \in AwsRuns : \A k \in Kinds : aws[r].attempts[k] <= Delays[k]
  /\ throttled \in BOOLEAN

(* "A run that hits both still gets a full budget for each": an apply is    *)
(* given up for a failure of its own, or for more of one kind than that     *)
(* kind is worth, however many of the other kind it has met.                *)
BudgetsAreApart ==
  \A r \in AwsRuns :
    AwsAt(r, "failed") => aws[r].real \/ \E k \in Kinds : aws[r].met[k] > Delays[k]

(* However long the organization stays busy and the account cold, the apply *)
(* comes to an end.                                                         *)
ApplyEnds == \A r \in AwsRuns : <>(aws[r].pc \in {"built", "failed"})
=============================================================================
