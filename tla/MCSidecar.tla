------------------------------ MODULE MCSidecar ------------------------------
(* Model-checking instances of Sidecar. *)
EXTENDS Sidecar, TLC

CONSTANTS k1, k2,           \* keys: k1 of worker w1, k2 of w2
          w1, w2,
          o1, o2,           \* monitored objects
          ns, near, far,    \* the Namespace, a backend in it, one in another
          c1, c2            \* states of a resource

DerivedLists ==
    UNION {{<<o, seen>> : seen \in Readings(k, o)} :
              k \in Keys, o \in Objects \ {Unmonitored}}

OneKind == [k \in Keys |-> w1]
TwoKinds == [k \in Keys |-> IF k = k2 THEN w2 ELSE w1]
SweepOne == <<w1>>
SweepTwo == <<w1, w2>>

(* Only the Namespace is looked up; also a backend in another, but not for k2,
   a Service; both backends. *)
LooksUpNamespace == [k \in Keys |-> [o \in Objects |-> <<ns>>]]
LooksUpFar ==
    [k \in Keys |-> [o \in Objects |-> IF k = k2 THEN <<ns>> ELSE <<ns, far>>]]
LooksUpBoth == [k \in Keys |-> [o \in Objects |-> <<ns, near, far>>]]

FollowsNamespace == [k \in Keys |-> Resources \ {far}]

Steady == [r \in Resources |-> {c1}]
GroupChanges == [r \in Resources |-> {c1, c2}]
LabelsChange == [r \in Resources |-> {c1, Unselected}]
EveryChange ==
    [r \in Resources |-> CASE r = ns -> {c1, Unselected}
                           [] r = near -> {c1, Missing}
                           [] OTHER -> {c1, c2}]

(* What the registry holds does not depend on what the loop does after Prime,
   which only reads it, nor on the templates and the shutdown, which only make
   the loop render or return. *)
NothingRendered == pc \in {"sync", "prime", "drain"} /\ ~touchDue /\ ~cancelled

(* FirstFileComplete speaks of undisturbed runs only.  A disturbed run matters
   to it for the old file it leaves to the next one, so its states are explored
   only where it idles between two renders. *)
DisturbedOnlyAtRest ==
    disturbed => pc = "select" /\ queue = {} /\ ~touchDue /\ ~cancelled
                 /\ \A t \in Threads : Free(t)

(* What becomes of the file does not depend on why the loop renders: module
   RenderLoop's run has the templates' events and the status patches, and of a
   cancelled sidecar FileFollowsCluster says nothing. *)
OnlyTheRegistryWakes ==
    /\ SidecarInit
    /\ [][SidecarNext /\ ~touchDue' /\ ~cancelled']_allVars
    /\ SidecarFairness
=============================================================================
