------------------------------ MODULE Sidecar -------------------------------
(***************************************************************************)
(* The reconcilers of internal/controller and the Primer, composed with    *)
(* the render loop as cmd/gatus-sidecar/main.go wires them: the loop is    *)
(* started beside the controllers, so Prime runs the same Reconcile        *)
(* functions as the workers, at the same time.                             *)
(*                                                                         *)
(* What a source object is turned into depends on the object and on what   *)
(* Reconcile looks up one after the other, each a "resource" here: the     *)
(* object's Namespace, the Traefik Services, the backends.  Two different  *)
(* readings are taken for two different lists.                             *)
(***************************************************************************)
EXTENDS RenderLoop, Naturals, Sequences

CONSTANTS Objects,      \* states of an object Reconcile finds
          Absent,       \* no such object
          Unmonitored,  \* an object that yields no endpoints, or an error and none
          Unread,       \* an object Reconcile has yet to get
          Resources,    \* what reconciles look up beside the object
          Backends,     \* the resources that are backend Services
          States,       \* the states each resource can be in
          Unselected,   \* a Namespace outside --namespace-selector
          Missing,      \* a backend that does not exist
          Unreadable,   \* a backend that could not be read
          Lookups,      \* what is looked up for a key's object, in order
          Follows,      \* the resources whose events queue a key
          Owner,        \* the controller, a worker, of each key
          Sweep,        \* the kinds Prime lists, in order, each named by its worker
          Idle          \* no reconcile under way

AllStates == UNION {States[r] : r \in Resources}

ASSUME ObjectsAssumption == Absent \notin Objects /\ Unread \notin Objects \cup {Absent}
ASSUME BackendsAssumption == Backends \subseteq Resources
ASSUME StatesAssumption == Unreadable \notin AllStates
ASSUME LookupsAssumption == Lookups \in [Keys -> [Objects -> Seq(Resources)]]
ASSUME FollowsAssumption == Follows \in [Keys -> SUBSET Resources]
ASSUME OwnerAssumption == Owner \in [Keys -> Workers]
ASSUME SweepAssumption == Sweep \in Seq(Workers)

(* The readings an object of k can be derived from. *)
Readings(k, o) == [DOMAIN Lookups[k][o] -> AllStates \cup {Missing}]

ASSUME ListsHoldDerived ==
    \A k \in Keys, o \in Objects \ {Unmonitored} :
        \A seen \in Readings(k, o) : <<o, seen>> \in Lists

(* A reconcile: the object once it is read, and what each lookup found. *)
Jobs == [key : Keys, object : Objects \cup {Absent, Unread},
         seen : Seq(AllStates \cup {Unreadable})]

ASSUME IdleAssumption == Idle \notin Jobs

VARIABLES object,       \* each key's object, as Get finds it
          resource,     \* each resource, as a lookup finds it
          events,       \* keys with a watch event not yet delivered
          notices,      \* events on resources not yet mapped to keys, by controller
          queue,        \* the controllers' work queues
          job,          \* each thread's reconcile
          unlisted,     \* kinds Prime has yet to list
          listed,       \* keys Prime has listed and has yet to reconcile
          lost,         \* keys whose re-derivation was dropped (history)
          doubt,        \* why a key's entry was wrong when it was stored (history)
          disturbed     \* the cluster changed or Prime failed to read (history)

clusterVars == <<object, resource, events, notices>>
workVars == <<queue, job, unlisted, listed>>
historyVars == <<lost, doubt, disturbed>>
sidecarVars == <<clusterVars, workVars, historyVars>>
allVars == <<vars, sidecarVars>>

Present == {k \in Keys : object[k] # Absent}

(* The controllers whose map functions an event on r reaches, and the keys it
   makes controller w queue: all that it lists in r's Namespace, or everywhere
   for a Traefik Service.  A backend in another Namespace is not followed. *)
Watchers(r) == {Owner[k] : k \in {k \in Keys : r \in Follows[k]}}
MappedTo(w, r) == {k \in Present : Owner[k] = w /\ r \in Follows[k]}
AllNotices == UNION {Watchers(r) \X {r} : r \in Resources}

SidecarInit ==
    /\ Init
    /\ object \in [Keys -> Objects \cup {Absent}]
    /\ resource \in [Resources -> AllStates]
    /\ \A r \in Resources : resource[r] \in States[r]
    /\ events = Present
    /\ notices = AllNotices
    /\ queue = {}
    /\ job = [t \in Threads |-> Idle]
    /\ unlisted = Sweep
    /\ listed = {}
    /\ lost = {}
    /\ doubt = [k \in Keys |-> "none"]
    /\ disturbed = FALSE

-----------------------------------------------------------------------------
(* What a key derives to. *)

(* A backend that could not be read is taken for a missing one. *)
Taken(seen) == [i \in DOMAIN seen |-> IF seen[i] = Unreadable THEN Missing ELSE seen[i]]

(* None without the object, when the Namespace is not selected, or when the
   object is not monitored or malformed. *)
DerivedFrom(o, seen) ==
    IF o \in {Absent, Unmonitored} \/ \E i \in DOMAIN seen : seen[i] = Unselected
      THEN NoList
      ELSE <<o, Taken(seen)>>

(* What the lookups for object o of k find now. *)
Found(k, o) == [i \in DOMAIN Lookups[k][o] |-> resource[Lookups[k][o][i]]]

(* What k contributes in the cluster as it is now. *)
Current(k) ==
    IF object[k] = Absent THEN NoList ELSE DerivedFrom(object[k], Found(k, object[k]))

(* list is what k contributes now, as far as k follows what it depends on: it
   derives from the object as it is, with what the lookups find now wherever the
   controller follows the resource.  Of a backend in another Namespace it may
   have any earlier state. *)
Matches(k, list) ==
    IF object[k] = Absent
      THEN list = NoList
      ELSE \E seen \in Readings(k, object[k]) :
              /\ list = DerivedFrom(object[k], seen)
              /\ \A i \in DOMAIN seen :
                    LET r == Lookups[k][object[k]][i]
                    IN  r \in Follows[k] => seen[i] = resource[r]

-----------------------------------------------------------------------------
(* The cluster, the watches and the work queues. *)

EditObject(k, o) ==
    /\ o # object[k]
    /\ object' = [object EXCEPT ![k] = o]
    /\ events' = events \cup {k}
    /\ disturbed' = TRUE
    /\ UNCHANGED <<vars, resource, notices, workVars, lost, doubt>>

EditResource(r, s) ==
    /\ s # resource[r]
    /\ resource' = [resource EXCEPT ![r] = s]
    /\ notices' = notices \cup (Watchers(r) \X {r})
    /\ disturbed' = TRUE
    /\ UNCHANGED <<vars, object, events, workVars, lost, doubt>>

DeliverEvent(k) ==
    /\ k \in events
    /\ events' = events \ {k}
    /\ queue' = queue \cup {k}
    /\ UNCHANGED <<vars, object, resource, notices, job, unlisted, listed, historyVars>>

(* Mutant of MapNotice: the request names what changed, not the objects that
   depend on it. *)
MapNoticeToItself(w, r) ==
    /\ <<w, r>> \in notices
    /\ notices' = notices \ {<<w, r>>}
    /\ queue' = queue \cup {r}
    /\ UNCHANGED <<vars, object, resource, events, job, unlisted, listed, historyVars>>

(* servicesInNamespace, routesInNamespace and routesForService: an event on a
   resource queues every object listed for it. *)
MapNotice(w, r) ==
    /\ <<w, r>> \in notices
    /\ notices' = notices \ {<<w, r>>}
    /\ queue' = queue \cup MappedTo(w, r)
    /\ UNCHANGED <<vars, object, resource, events, job, unlisted, listed, historyVars>>

(* Their listing fails: the error is logged and the event is gone. *)
MapNoticeFails(w, r) ==
    /\ <<w, r>> \in notices
    /\ notices' = notices \ {<<w, r>>}
    /\ lost' = lost \cup MappedTo(w, r)
    /\ UNCHANGED <<vars, object, resource, events, workVars, doubt, disturbed>>

-----------------------------------------------------------------------------
(* Reconcile, by a worker or by Prime. *)

Free(t) == job[t] = Idle /\ t \notin owing

NewJob(k) == [key |-> k, object |-> Unread, seen |-> <<>>]

(* A job with its object still to get; with lookups still to do, none after a
   Namespace that is not selected; with nothing left to read. *)
Getting(j) == j.object = Unread
Looking(j) ==
    /\ j.object \in Objects
    /\ Len(j.seen) < Len(Lookups[j.key][j.object])
    /\ \A i \in DOMAIN j.seen : j.seen[i] # Unselected
Complete(j) == ~Getting(j) /\ ~Looking(j)

(* The resource a job looks up next. *)
NextLookup(j) == Lookups[j.key][j.object][Len(j.seen) + 1]

Derived(j) == DerivedFrom(j.object, j.seen)

Dequeue(w, k) ==
    /\ Free(w)
    /\ k \in queue
    /\ Owner[k] = w
    /\ queue' = queue \ {k}
    /\ job' = [job EXCEPT ![w] = NewJob(k)]
    /\ lost' = lost \ {k}
    /\ UNCHANGED <<vars, clusterVars, unlisted, listed, doubt, disturbed>>

(* Mutant of GetObject: a deleted object is skipped. *)
GetObjectOrSkip(t) ==
    /\ job[t] # Idle
    /\ Getting(job[t])
    /\ LET k == job[t].key IN
       job' = [job EXCEPT ![t] = IF object[k] = Absent
                                   THEN Idle
                                   ELSE [job[t] EXCEPT !.object = object[k]]]
    /\ UNCHANGED <<vars, clusterVars, queue, unlisted, listed, historyVars>>

(* Get the object: none means there is nothing to look up. *)
GetObject(t) ==
    /\ job[t] # Idle
    /\ Getting(job[t])
    /\ job' = [job EXCEPT ![t].object = object[job[t].key]]
    /\ UNCHANGED <<vars, clusterVars, queue, unlisted, listed, historyVars>>

LookUp(t) ==
    /\ job[t] # Idle
    /\ Looking(job[t])
    /\ job' = [job EXCEPT ![t].seen = Append(@, resource[NextLookup(job[t])])]
    /\ UNCHANGED <<vars, clusterVars, queue, unlisted, listed, historyVars>>

(* Reading the object, its Namespace or the Traefik Services can fail a
   reconcile. *)
ReadMayFail(j) == Getting(j) \/ (Looking(j) /\ NextLookup(j) \notin Backends)

(* Mutant of ReadFails: the request is not queued again. *)
ReadFailsForGood(t) ==
    /\ job[t] # Idle
    /\ ReadMayFail(job[t])
    /\ job' = [job EXCEPT ![t] = Idle]
    /\ disturbed' = (disturbed \/ t = Loop)
    /\ UNCHANGED <<vars, clusterVars, queue, unlisted, listed, lost, doubt>>

(* A read fails: a worker's request is queued again, Prime goes on with the
   next object. *)
ReadFails(t) ==
    /\ job[t] # Idle
    /\ ReadMayFail(job[t])
    /\ queue' = IF t = Loop THEN queue ELSE queue \cup {job[t].key}
    /\ job' = [job EXCEPT ![t] = Idle]
    /\ disturbed' = (disturbed \/ t = Loop)
    /\ UNCHANGED <<vars, clusterVars, unlisted, listed, lost, doubt>>

(* A backend Service cannot be read, for whatever reason: this is taken for the
   author's mistake, and the reconcile goes on without it and is not retried. *)
BackendUnread(t) ==
    /\ job[t] # Idle
    /\ Looking(job[t])
    /\ NextLookup(job[t]) \in Backends
    /\ job' = [job EXCEPT ![t].seen = Append(@, Unreadable)]
    /\ disturbed' = TRUE
    /\ UNCHANGED <<vars, clusterVars, queue, unlisted, listed, lost, doubt>>

(* What job j of thread t stores is not what its key contributes now, and a
   failing backend lookup is why, or Prime is: a worker whose reads were
   overtaken has another request coming, Prime has not. *)
Doubt(t, j) ==
    IF Matches(j.key, Derived(j)) THEN "none"
    ELSE IF \E i \in DOMAIN j.seen : j.seen[i] = Unreadable THEN "unread"
    ELSE IF t = Loop THEN "overtaken"
    ELSE "none"

(* Registry.Set or Delete with what was derived. *)
Store(t) ==
    /\ job[t] # Idle
    /\ Complete(job[t])
    /\ IF t = Loop THEN PrimeSet(job[t].key, Derived(job[t]))
                   ELSE WorkerSet(t, job[t].key, Derived(job[t]))
    /\ job' = [job EXCEPT ![t] = Idle]
    /\ doubt' = [doubt EXCEPT ![job[t].key] = Doubt(t, job[t])]
    /\ UNCHANGED <<clusterVars, queue, unlisted, listed, lost, disturbed>>

-----------------------------------------------------------------------------
(* Prime. *)

PrimeLists ==
    /\ pc = "prime"
    /\ Free(Loop)
    /\ listed = {}
    /\ unlisted # <<>>
    /\ listed' = {k \in Present : Owner[k] = Head(unlisted)}
    /\ unlisted' = Tail(unlisted)
    /\ UNCHANGED <<vars, clusterVars, queue, job, historyVars>>

PrimeReconciles(k) ==
    /\ pc = "prime"
    /\ Free(Loop)
    /\ k \in listed
    /\ listed' = listed \ {k}
    /\ job' = [job EXCEPT ![Loop] = NewJob(k)]
    /\ UNCHANGED <<vars, clusterVars, queue, unlisted, historyVars>>

(* Mutant of PrimeEnds: only the first kind is swept. *)
PrimeEndsEarly ==
    /\ Free(Loop)
    /\ listed = {}
    /\ unlisted # Sweep
    /\ PrimeReturns("ok")
    /\ UNCHANGED sidecarVars

PrimeEnds ==
    /\ Free(Loop)
    /\ listed = {}
    /\ unlisted = <<>>
    /\ PrimeReturns("ok")
    /\ UNCHANGED sidecarVars

(* A listing fails: the kinds after it are not primed. *)
PrimeListFails ==
    /\ Free(Loop)
    /\ listed = {}
    /\ unlisted # <<>>
    /\ PrimeReturns("failed")
    /\ disturbed' = TRUE
    /\ UNCHANGED <<clusterVars, workVars, lost, doubt>>

-----------------------------------------------------------------------------
(* The rest of the loop, untouched; a restart begins from a new listing. *)

Restart ==
    /\ Crash
    /\ events' = Present
    /\ notices' = AllNotices
    /\ queue' = {}
    /\ job' = [t \in Threads |-> Idle]
    /\ unlisted' = Sweep
    /\ listed' = {}
    /\ lost' = {}
    /\ doubt' = [k \in Keys |-> "none"]
    /\ disturbed' = FALSE
    /\ UNCHANGED <<object, resource>>

LoopAlone ==
    /\ \/ \E ts \in TemplateSets : TemplateEvent(ts)
       \/ \E b \in Bases : EditBase(b)
       \/ Cancel
       \/ TemplateReconcile
       \/ \E w \in Workers : WorkerNotify(w)
       \/ CachesSync \/ CachesDoNotSync
       \/ PrimeNotify
       \/ DrainSignal
       \/ LoadBase \/ ListTemplates \/ SnapshotRegistry \/ Write \/ RenderFails
       \/ UpdateStatus
       \/ ReceiveChange \/ Rearm \/ TimerFires \/ ReceiveTimer \/ Return
    /\ UNCHANGED sidecarVars

ClusterSteps ==
    \/ \E k \in Keys, o \in Objects \cup {Absent} : EditObject(k, o)
    \/ \E r \in Resources : \E s \in States[r] : EditResource(r, s)

Trouble ==
    \/ ClusterSteps
    \/ \E w \in Workers, r \in Resources : MapNoticeFails(w, r)
    \/ \E t \in Threads : ReadFails(t) \/ BackendUnread(t)
    \/ Restart
    \/ \E ts \in TemplateSets : TemplateEvent(ts)
    \/ Cancel

ReconcileSteps(t) == GetObject(t) \/ LookUp(t) \/ Store(t)

PrimerSteps ==
    \/ PrimeLists
    \/ \E k \in Keys : PrimeReconciles(k)
    \/ PrimeEnds
    \/ PrimeListFails

SidecarNext ==
    \/ ClusterSteps
    \/ \E k \in Keys : DeliverEvent(k)
    \/ \E w \in Workers, r \in Resources : MapNotice(w, r) \/ MapNoticeFails(w, r)
    \/ \E w \in Workers, k \in Keys : Dequeue(w, k)
    \/ \E t \in Threads : ReconcileSteps(t) \/ ReadFails(t) \/ BackendUnread(t)
    \/ PrimerSteps
    \/ Restart
    \/ LoopAlone

SidecarSpec == SidecarInit /\ [][SidecarNext]_allVars

(* What each goroutine does by itself, one step at a time.  The worker's choice
   of a key is left to Dequeue. *)
WorkerSteps(w) == ReconcileSteps(w) \/ (WorkerNotify(w) /\ UNCHANGED sidecarVars)

LoopSteps ==
    \/ ReconcileSteps(Loop)
    \/ PrimerSteps
    \/ /\ \/ CachesSync \/ PrimeNotify \/ DrainSignal
          \/ LoadBase \/ ListTemplates \/ SnapshotRegistry
          \/ Write \/ RenderFails \/ UpdateStatus \/ Rearm
       /\ UNCHANGED sidecarVars

(* Watches deliver, requests are retried, and every goroutine that can run
   does; an armed timer fires unless it is stopped first, and select passes none
   of its ready cases over for ever. *)
SidecarFairness ==
    /\ \A k \in Keys : WF_allVars(DeliverEvent(k))
    /\ \A w \in Workers, r \in Resources : WF_allVars(MapNotice(w, r))
    /\ \A k \in Keys : WF_allVars(\E w \in Workers : Dequeue(w, k))
    /\ \A w \in Workers : WF_allVars(WorkerSteps(w))
    /\ WF_allVars(LoopSteps)
    /\ WF_allVars(TemplateReconcile /\ UNCHANGED sidecarVars)
    /\ WF_allVars(TimerFires /\ UNCHANGED sidecarVars)
    /\ SF_allVars(ReceiveChange /\ UNCHANGED sidecarVars)
    /\ SF_allVars(ReceiveTimer /\ UNCHANGED sidecarVars)

FairSidecarSpec == SidecarSpec /\ SidecarFairness

-----------------------------------------------------------------------------
(* Properties. *)

(* Every variable of the controllers keeps its type. *)
SidecarTypeOK ==
    /\ object \in [Keys -> Objects \cup {Absent}]
    /\ resource \in [Resources -> AllStates]
    /\ events \subseteq Keys
    /\ notices \subseteq AllNotices
    /\ queue \subseteq Keys
    /\ job \in [Threads -> Jobs \cup {Idle}]
    /\ unlisted \in Seq(Workers)
    /\ listed \subseteq Keys
    /\ lost \subseteq Keys
    /\ doubt \in [Keys -> {"none", "unread", "overtaken"}]
    /\ disturbed \in BOOLEAN

(* No event, request or reconcile of k is under way. *)
Settled(k) ==
    /\ \A r \in Follows[k] : <<Owner[k], r>> \notin notices
    /\ k \notin events \cup queue
    /\ \A t \in Threads : job[t] # Idle => job[t].key # k

(* The first configuration is complete (README.md:344): if the cluster has
   held still since the start and every lookup of a backend, and every read of
   Prime's, succeeded, every file this process publishes shows every object,
   whatever the workers did meanwhile. *)
FirstFileComplete ==
    ready /\ ~disturbed => file.entries = [k \in Keys |-> Current(k)]

(* The registry follows the cluster, with Prime running beside the workers and
   every reconcile reading one thing after the other while it changes: once
   nothing about k is under way, its entry is what k derives to now, except for
   what it takes of backends in other Namespaces, which are not followed.  The
   other exceptions are an event whose listing failed, a failing lookup of a
   backend, and a Prime that stored what it had read before a change. *)
RegistryFollowsCluster ==
    \A k \in Keys \ lost :
        Settled(k) /\ doubt[k] = "none" => Matches(k, entries[k])

(* primer.go:25-26: "priming can never disagree with steady state", the same
   without the last exception. *)
PrimingAgreesWithSteadyState ==
    \A k \in Keys \ lost :
        Settled(k) /\ doubt[k] # "unread" => Matches(k, entries[k])

(* End to end: when the cluster, the failures and the operator hold still, the
   file comes to show of every key what the cluster is, and stays so, with the
   exceptions of RegistryFollowsCluster, unless the last render failed or the
   sidecar was told to stop. *)
FileFollowsCluster ==
    <>[][~Trouble]_allVars =>
        <>[](failed \/ cancelled
             \/ /\ file # None
                /\ \A k \in Keys \ lost :
                      doubt[k] = "none" => Matches(k, file.entries[k]))
=============================================================================
