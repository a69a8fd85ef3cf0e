-------------------------- MODULE ComponentCatalog --------------------------
(***************************************************************************)
(* The Harness component catalog of a run: secrets, connectors, templates, *)
(* each made after what it depends on, in passes over the whole catalog as *)
(* the clouds' applies bring what the components require, and taken away   *)
(* in the opposite order.  The catalog is any graph at all.                *)
(***************************************************************************)
EXTENDS Naturals, FiniteSets

CONSTANTS
  Components,        \* identifiers
  Templates,         \* those that are templates, which a teardown leaves to the org
  Inputs,            \* outputs of the clouds' applies
  MaxCatalogFaults   \* calls to Harness that fail for good

ASSUME CatalogConstants ==
  Templates \subseteq Components /\ IsFiniteSet(Components) /\ MaxCatalogFaults \in Nat

VARIABLES
  catalog,       \* dependencies and requirements
  have,          \* outputs this provision has
  made,          \* components in the org
  pass,          \* the pass, or the teardown, under way
  catalogFaults

catalogVars == <<catalog, have, made, pass, catalogFaults>>

Quiet == [pc |-> "rest", left |-> {}, applied |-> {}, pending |-> {}]

CatalogInit ==
  /\ catalog \in [deps : {f \in [Components -> SUBSET Components] : \A c \in Components : c \notin f[c]},
                  requires : [Components -> {{}} \cup {{i} : i \in Inputs}]]
  /\ have = {} /\ made = {}
  /\ pass \in {Quiet, [Quiet EXCEPT !.pc = "gone"]}
  /\ pass.pc = "gone" => catalog.deps = [c \in Components |-> {}]
  /\ catalogFaults = MaxCatalogFaults

PassAt(pc) == pass.pc = pc
Unmet(c) == catalog.requires[c] \ have

-----------------------------------------------------------------------------
(* buildGraph: Kahn's algorithm, by rounds; within a round any order.       *)

ReadyAnyMet(left) ==     \* mutant: ready when one dependency is
  {c \in left : catalog.deps[c] = {} \/ catalog.deps[c] \ left # {}}
Ready(left) == {c \in left : catalog.deps[c] \cap left = {}}
Rounds == 0 .. Cardinality(Components)
LeftAfter ==
  LET left[n \in Rounds] == IF n = 0 THEN Components ELSE left[n - 1] \ Ready(left[n - 1])
  IN left[Cardinality(Components)]
IsCyclic == LeftAfter # {}

-----------------------------------------------------------------------------
(* applyCatalog.                                                            *)

CatalogPass ==
  /\ PassAt("rest")
  /\ pass' = IF IsCyclic THEN [Quiet EXCEPT !.pc = "cycle"]
             ELSE [Quiet EXCEPT !.pc = "apply", !.left = Components]
  /\ UNCHANGED <<catalog, have, made, catalogFaults>>

DepsApplied(c) == catalog.deps[c] \subseteq pass.applied

CanApplySome(c) ==        \* mutant: one of them applied will do
  Unmet(c) = {} /\ (catalog.deps[c] = {} \/ catalog.deps[c] \cap pass.applied # {})
CanApply(c) == Unmet(c) = {} /\ DepsApplied(c)
IsBrokenAlways(c) == Unmet(c) # {} /\ DepsApplied(c)   \* mutant: also without dependencies
IsBroken(c) == Unmet(c) # {} /\ catalog.deps[c] # {} /\ DepsApplied(c)

ApplyComponent ==
  /\ PassAt("apply")
  /\ \E c \in Ready(pass.left) :
       \/ /\ CanApply(c)
          /\ made' = made \cup {c}
          /\ pass' = [pass EXCEPT !.left = @ \ {c}, !.applied = @ \cup {c}]
       \/ /\ IsBroken(c)
          /\ pass' = [pass EXCEPT !.pc = "broken"]
          /\ UNCHANGED made
       \/ /\ ~CanApply(c) /\ ~IsBroken(c)
          /\ pass' = [pass EXCEPT !.left = @ \ {c}, !.pending = @ \cup {c}]
          /\ UNCHANGED made
  /\ UNCHANGED <<catalog, have, catalogFaults>>

(* Harness refuses for good, having made the component or not.              *)
ApplyFails ==
  /\ PassAt("apply") /\ catalogFaults > 0
  /\ catalogFaults' = catalogFaults - 1
  /\ \E c \in {d \in Ready(pass.left) : CanApply(d)} : made' \in {made, made \cup {c}}
  /\ pass' = [pass EXCEPT !.pc = "failed"]
  /\ UNCHANGED <<catalog, have>>

PassDone ==
  /\ PassAt("apply") /\ pass.left = {}
  /\ pass' = [pass EXCEPT !.pc = "done"]
  /\ UNCHANGED <<catalog, have, made, catalogFaults>>

(* Another apply of a cloud, and another pass.                              *)
OutputsArrive ==
  /\ PassAt("done")
  /\ \E i \in Inputs \ have : have' = have \cup {i}
  /\ pass' = Quiet
  /\ UNCHANGED <<catalog, made, catalogFaults>>

(* A run is provisioned again, after a failure or because it grew: it       *)
(* starts without any output, and what stands in the org stands.            *)
ProvisionAgain ==
  /\ pass.pc \in {"done", "broken", "failed", "cycle"}
  /\ have' = {}
  /\ pass' = Quiet
  /\ UNCHANGED <<catalog, made, catalogFaults>>

-----------------------------------------------------------------------------
(* destroyHarness: the reversed order; an order that cannot be made is      *)
(* skipped, and the org goes with whatever is left in it.                   *)

(* The last of the order among what is left: nothing left depends on it.    *)
LastOf(left) == {c \in left : \A d \in left : c \notin catalog.deps[d]}

TeardownStart ==
  /\ pass.pc \in {"done", "broken", "failed", "cycle"}
  /\ pass' = IF IsCyclic THEN [Quiet EXCEPT !.pc = "empty"] ELSE [Quiet EXCEPT !.pc = "remove", !.left = Components]
  /\ UNCHANGED <<catalog, have, made, catalogFaults>>

(* Harness keeps what something else still refers to.                       *)
Referenced(c) == \E d \in made : c \in catalog.deps[d]

RemoveForward ==         \* mutant: in the order of the apply
  /\ PassAt("remove")
  /\ \E c \in Ready(pass.left) :
       /\ made' = IF c \in Templates \/ Referenced(c) THEN made ELSE made \ {c}
       /\ pass' = [pass EXCEPT !.left = @ \ {c}, !.pc = IF pass.left = {c} THEN "empty" ELSE @]
  /\ UNCHANGED <<catalog, have, catalogFaults>>
RemoveComponent ==
  /\ PassAt("remove")
  /\ \E c \in LastOf(pass.left) :
       /\ made' = IF c \in Templates \/ Referenced(c) THEN made ELSE made \ {c}
       /\ pass' = [pass EXCEPT !.left = @ \ {c}, !.pc = IF pass.left = {c} THEN "empty" ELSE @]
  /\ UNCHANGED <<catalog, have, catalogFaults>>

OrgDeleted ==
  /\ PassAt("empty")
  /\ made' = {}
  /\ pass' = [Quiet EXCEPT !.pc = "gone"]
  /\ UNCHANGED <<catalog, have, catalogFaults>>

CatalogNext ==
  \/ CatalogPass \/ ApplyComponent \/ ApplyFails \/ PassDone \/ OutputsArrive \/ ProvisionAgain
  \/ TeardownStart \/ RemoveComponent \/ OrgDeleted

CatalogSpec == CatalogInit /\ [][CatalogNext]_catalogVars

-----------------------------------------------------------------------------
CatalogTypeOK ==
  /\ catalog \in [deps : [Components -> SUBSET Components], requires : [Components -> SUBSET Inputs]]
  /\ have \subseteq Inputs /\ made \subseteq Components
  /\ pass \in [pc : {"rest", "apply", "done", "broken", "failed", "cycle", "remove", "empty", "gone"},
               left : SUBSET Components, applied : SUBSET Components, pending : SUBSET Components]
  /\ catalogFaults \in 0 .. MaxCatalogFaults

(* The reference: what a component rests on, over any number of edges.      *)
Beneath(S) ==
  LET grow[n \in Rounds] ==
        IF n = 0 THEN S ELSE grow[n - 1] \cup UNION {catalog.deps[c] : c \in grow[n - 1]}
  IN grow[Cardinality(Components)]
Satisfiable(c) == \A d \in Beneath({c}) : Unmet(d) = {}
OnACycle(c) == c \in Beneath(catalog.deps[c])

(* In the org nothing stands without what it refers to, through passes that *)
(* fail half-way, provisions that start again and teardowns, which leave    *)
(* the templates behind and what they refer to.                             *)
PartsComeFirst == \A c \in made : catalog.deps[c] \subseteq made

(* A pass that ends has made exactly what rests on nothing that is missing. *)
PassIsComplete == PassAt("done") => pass.applied = {c \in Components : Satisfiable(c)}

(* A catalog is refused for a cycle when it has one, and a run is broken    *)
(* when some component has all it rests on and not what it requires itself. *)
RefusalIsDeserved ==
  /\ PassAt("cycle") <=> (\E c \in Components : OnACycle(c)) /\ pass.pc \notin {"rest", "empty", "gone"}
  /\ PassAt("broken") =>
       \E c \in Components : /\ Unmet(c) # {} /\ catalog.deps[c] # {}
                             /\ \A d \in catalog.deps[c] : Satisfiable(d)

(* The teardown leaves the org only templates and what they refer to.       *)
OrgIsEmptied ==
  PassAt("empty") /\ ~IsCyclic => made \subseteq Beneath(Templates)
=============================================================================
