--------------------------- MODULE SidecarProofs ----------------------------
(* Proofs about Sidecar: the controllers' types, and that the controllers, the
   primer and the loop together implement the render loop's specification, so
   that what is proved of the loop holds of the whole process; and what they put
   into the registry and the first file: once nothing is under way the registry
   follows the cluster, and the first file shows the whole cluster. *)
EXTENDS Sidecar, RenderLoopProofs

-----------------------------------------------------------------------------
(* What a job derives to. *)

(* A reconcile looks things up once it has the object, and no more than there
   is to look up. *)
WellFormed(j) ==
    /\ j.object \notin Objects => j.seen = <<>>
    /\ j.object \in Objects => Len(j.seen) <= Len(Lookups[j.key][j.object])

JobsWellFormed == \A t \in Threads : job[t] # Idle => WellFormed(job[t])

LEMMA LookupsAreSequences ==
    ASSUME NEW k \in Keys, NEW o \in Objects
    PROVE  /\ Lookups[k][o] \in Seq(Resources)
           /\ Len(Lookups[k][o]) \in Nat
           /\ DOMAIN Lookups[k][o] = 1..Len(Lookups[k][o])
BY LookupsAssumption

(* A completed reconcile that was not cut short has looked everything up. *)
LEMMA CompleteHasRead ==
    ASSUME NEW j \in Jobs, Complete(j), WellFormed(j), j.object \in Objects,
           \A i \in DOMAIN j.seen : j.seen[i] # Unselected
    PROVE  DOMAIN j.seen = DOMAIN Lookups[j.key][j.object]
<1>1. j.key \in Keys /\ j.seen \in Seq(AllStates \cup {Unreadable})
  BY DEF Jobs
<1>2. Len(j.seen) = Len(Lookups[j.key][j.object])
  BY <1>1, LookupsAreSequences DEF Complete, Looking, WellFormed
<1> QED
  BY <1>1, <1>2, LookupsAreSequences

(* What a reconcile stores is a list of the registry, or none. *)
LEMMA DerivedType ==
    ASSUME NEW j \in Jobs, Complete(j), WellFormed(j)
    PROVE  Derived(j) \in Lists \cup {NoList}
<1>1. /\ j.key \in Keys /\ j.object \in Objects \cup {Absent, Unread}
      /\ j.seen \in Seq(AllStates \cup {Unreadable})
  BY DEF Jobs
<1>2. CASE j.object \in {Absent, Unmonitored}
           \/ \E i \in DOMAIN j.seen : j.seen[i] = Unselected
  BY <1>2 DEF Derived, DerivedFrom
<1>3. CASE /\ j.object \notin {Absent, Unmonitored}
           /\ \A i \in DOMAIN j.seen : j.seen[i] # Unselected
  <2>1. j.object \in Objects \ {Unmonitored}
    BY <1>1, <1>3 DEF Complete, Getting
  <2>2. DOMAIN j.seen = DOMAIN Lookups[j.key][j.object]
    BY <1>3, <2>1, CompleteHasRead
  <2>3. \A i \in DOMAIN j.seen : j.seen[i] \in AllStates \cup {Unreadable}
    BY <1>1
  <2>4. Taken(j.seen) \in Readings(j.key, j.object)
    BY <2>2, <2>3 DEF Taken, Readings
  <2>5. Derived(j) = <<j.object, Taken(j.seen)>>
    BY <1>3 DEF Derived, DerivedFrom
  <2> QED
    BY <1>1, <2>1, <2>4, <2>5, ListsHoldDerived
<1> QED
  BY <1>2, <1>3

-----------------------------------------------------------------------------
(* The controllers' types. *)

LEMMA SidecarTypeInit == SidecarInit => SidecarTypeOK /\ JobsWellFormed
<1> SUFFICES ASSUME SidecarInit PROVE SidecarTypeOK /\ JobsWellFormed
  OBVIOUS
<1> QED
  BY SweepAssumption DEF SidecarInit, SidecarTypeOK, Present, JobsWellFormed

LEMMA JobType ==
    ASSUME NEW k \in Keys, NEW o \in Objects \cup {Absent, Unread},
           NEW s \in Seq(AllStates \cup {Unreadable})
    PROVE  /\ [key |-> k, object |-> o, seen |-> s] \in Jobs
           /\ [key |-> k, object |-> o, seen |-> s] # Idle
<1>1. [key |-> k, object |-> o, seen |-> s] \in Jobs
  BY DEF Jobs
<1> QED
  BY <1>1, IdleAssumption

LEMMA JobExcept ==
    ASSUME NEW j \in Jobs, NEW x
    PROVE  /\ [j EXCEPT !.object = x] = [key |-> j.key, object |-> x, seen |-> j.seen]
           /\ [j EXCEPT !.seen = x] = [key |-> j.key, object |-> j.object, seen |-> x]
BY DEF Jobs

LEMMA NewJobType ==
    ASSUME NEW k \in Keys
    PROVE  /\ NewJob(k) \in Jobs /\ NewJob(k) # Idle
           /\ WellFormed(NewJob(k)) /\ Getting(NewJob(k)) /\ NewJob(k).key = k
<1>1. <<>> \in Seq(AllStates \cup {Unreadable})
  OBVIOUS
<1>2. NewJob(k) \in Jobs /\ NewJob(k) # Idle
  BY <1>1, JobType DEF NewJob
<1> QED
  BY <1>2, ObjectsAssumption DEF NewJob, WellFormed, Getting

(* One more thing read: the object, or the next lookup, well or not. *)
LEMMA ReadStep ==
    ASSUME SidecarTypeOK, JobsWellFormed, NEW t \in Threads,
           GetObject(t) \/ LookUp(t) \/ BackendUnread(t)
    PROVE  /\ UNCHANGED <<vars, clusterVars, queue, unlisted, listed, lost, doubt>>
           /\ ~BackendUnread(t) => disturbed' = disturbed
           /\ BackendUnread(t) => disturbed' = TRUE
           /\ job' = [job EXCEPT ![t] = job'[t]]
           /\ job[t] # Idle /\ job[t] \in Jobs
           /\ job'[t] # Idle /\ job'[t] \in Jobs /\ WellFormed(job'[t])
           /\ job'[t].key = job[t].key
           /\ \/ /\ Getting(job[t])
                 /\ job'[t].object = object[job[t].key]
                 /\ job'[t].seen = <<>>
              \/ /\ Looking(job[t])
                 /\ job'[t].object = job[t].object
                 /\ \/ BackendUnread(t) /\ job'[t].seen = Append(job[t].seen, Unreadable)
                    \/ job'[t].seen = Append(job[t].seen, resource[NextLookup(job[t])])
<1> DEFINE j == job[t]
<1> USE DEF SidecarTypeOK
<1>1. j # Idle /\ j \in Jobs /\ WellFormed(j)
  BY DEF GetObject, LookUp, BackendUnread, JobsWellFormed
<1>2. /\ j.key \in Keys /\ j.object \in Objects \cup {Absent, Unread}
      /\ j.seen \in Seq(AllStates \cup {Unreadable})
  BY <1>1 DEF Jobs
<1>3. /\ UNCHANGED <<vars, clusterVars, queue, unlisted, listed, lost, doubt>>
      /\ ~BackendUnread(t) => disturbed' = disturbed
      /\ BackendUnread(t) => disturbed' = TRUE
  BY DEF GetObject, LookUp, BackendUnread, historyVars
<1>4. CASE GetObject(t)
  <2> DEFINE n == [key |-> j.key, object |-> object[j.key], seen |-> j.seen]
  <2>1. Getting(j) /\ j.seen = <<>>
    BY <1>1, <1>4, ObjectsAssumption DEF GetObject, Getting, WellFormed
  <2>2. job' = [job EXCEPT ![t] = n]
    BY <1>1, <1>4, JobExcept DEF GetObject
  <2>3. object[j.key] \in Objects \cup {Absent, Unread}
    <3>1. object[j.key] \in Objects \cup {Absent}
      BY <1>2
    <3> QED
      BY ONLY <3>1
  <2>4. n \in Jobs /\ n # Idle
    BY ONLY <1>2, <2>3, JobType
  <2>5. WellFormed(n)
    BY <1>2, <2>1, LookupsAreSequences DEF WellFormed
  <2>6. job'[t] = n /\ job' = [job EXCEPT ![t] = job'[t]]
    BY <2>2
  <2> QED
    BY <1>1, <1>3, <2>1, <2>4, <2>5, <2>6
<1>5. ASSUME Looking(j), NEW x \in AllStates \cup {Unreadable},
             job' = [job EXCEPT ![t].seen = Append(@, x)]
      PROVE  /\ job' = [job EXCEPT ![t] = job'[t]]
             /\ job'[t] # Idle /\ job'[t] \in Jobs /\ WellFormed(job'[t])
             /\ job'[t].key = j.key /\ job'[t].object = j.object
             /\ job'[t].seen = Append(j.seen, x)
  <2> DEFINE n == [key |-> j.key, object |-> j.object, seen |-> Append(j.seen, x)]
  <2>0. [j EXCEPT !.seen = Append(j.seen, x)] = n
    BY <1>1, JobExcept
  <2>1. job' = [job EXCEPT ![t] = n]
    BY <1>5, <2>0
  <2>2. Append(j.seen, x) \in Seq(AllStates \cup {Unreadable})
        /\ Len(Append(j.seen, x)) = Len(j.seen) + 1 /\ Len(j.seen) \in Nat
    BY <1>2
  <2>3. n \in Jobs /\ n # Idle
    BY ONLY <1>2, <2>2, JobType
  <2>4. WellFormed(n)
    <3>1. j.object \in Objects /\ Len(j.seen) < Len(Lookups[j.key][j.object])
      BY <1>5 DEF Looking
    <3>2. Len(Lookups[j.key][j.object]) \in Nat
      BY <1>2, <3>1, LookupsAreSequences
    <3> QED
      BY ONLY <2>2, <3>1, <3>2 DEF WellFormed
  <2>5. job'[t] = n /\ job' = [job EXCEPT ![t] = job'[t]]
    BY <2>1
  <2> QED
    BY <2>3, <2>4, <2>5
<1>6. ASSUME Looking(j) PROVE resource[NextLookup(j)] \in AllStates
  <2>1. Len(j.seen) + 1 \in 1..Len(Lookups[j.key][j.object])
    BY <1>2, <1>6, LookupsAreSequences DEF Looking
  <2>2. NextLookup(j) \in Resources
    BY <1>2, <1>6, <2>1, LookupsAreSequences DEF NextLookup, Looking
  <2> QED
    BY <2>2
<1>7. CASE LookUp(t)
  <2>1. Looking(j)
        /\ job' = [job EXCEPT ![t].seen = Append(@, resource[NextLookup(j)])]
    BY <1>7 DEF LookUp
  <2> QED
    BY <1>1, <1>3, <1>5, <1>6, <2>1
<1>8. CASE BackendUnread(t)
  <2>1. Looking(j)
        /\ job' = [job EXCEPT ![t].seen = Append(@, Unreadable)]
    BY <1>8 DEF BackendUnread
  <2> QED
    BY <1>1, <1>3, <1>5, <1>8, <2>1
<1> QED
  BY <1>4, <1>7, <1>8

LEMMA StoreSets ==
    ASSUME SidecarTypeOK, JobsWellFormed, NEW t \in Threads, Store(t)
    PROVE  /\ job[t] # Idle /\ job[t] \in Jobs /\ WellFormed(job[t])
           /\ Complete(job[t])
           /\ job' = [job EXCEPT ![t] = Idle]
           /\ Derived(job[t]) \in Lists \cup {NoList}
           /\ doubt' = [doubt EXCEPT ![job[t].key] = Doubt(t, job[t])]
           /\ UNCHANGED <<object, resource, events, notices, queue, unlisted,
                          listed, lost, disturbed>>
<1>1. job[t] # Idle /\ job[t] \in Jobs /\ WellFormed(job[t]) /\ Complete(job[t])
  BY DEF Store, SidecarTypeOK, JobsWellFormed
<1> QED
  BY <1>1, DerivedType DEF Store, clusterVars

LEMMA SidecarTypeStep ==
    SidecarTypeOK /\ JobsWellFormed /\ [SidecarNext]_allVars
        => SidecarTypeOK' /\ JobsWellFormed'
<1> SUFFICES ASSUME SidecarTypeOK, JobsWellFormed, [SidecarNext]_allVars
             PROVE  SidecarTypeOK' /\ JobsWellFormed'
  OBVIOUS
<1> USE DEF SidecarTypeOK, Present
<1>0. ASSUME NEW t \in Threads, NEW n \in Jobs, WellFormed(n),
             job' = [job EXCEPT ![t] = n] \/ job' = [job EXCEPT ![t] = Idle]
      PROVE  job' \in [Threads -> Jobs \cup {Idle}] /\ JobsWellFormed'
  BY <1>0 DEF JobsWellFormed
<1>00. ASSUME NEW t \in Threads, job' = [job EXCEPT ![t] = Idle]
       PROVE  job' \in [Threads -> Jobs \cup {Idle}] /\ JobsWellFormed'
  BY <1>00 DEF JobsWellFormed
<1>000. ASSUME job' = job PROVE JobsWellFormed'
  BY <1>000 DEF JobsWellFormed
<1>1. CASE ClusterSteps
  <2>1. ASSUME NEW k \in Keys, NEW o \in Objects \cup {Absent}, EditObject(k, o)
        PROVE  SidecarTypeOK' /\ job' = job
    BY <2>1 DEF EditObject, workVars
  <2>2. ASSUME NEW r \in Resources, NEW s \in States[r], EditResource(r, s)
        PROVE  SidecarTypeOK' /\ job' = job
    <3>1. s \in AllStates
      BY DEF AllStates
    <3>2. Watchers(r) \X {r} \subseteq AllNotices
      BY DEF AllNotices
    <3> QED
      BY <2>2, <3>1, <3>2 DEF EditResource, workVars
  <2> QED
    BY <1>1, <1>000, <2>1, <2>2 DEF ClusterSteps
<1>2. ASSUME NEW k \in Keys, DeliverEvent(k) PROVE SidecarTypeOK' /\ JobsWellFormed'
  BY <1>000, <1>2 DEF DeliverEvent, historyVars
<1>3. ASSUME NEW w \in Workers, NEW r \in Resources,
             MapNotice(w, r) \/ MapNoticeFails(w, r)
      PROVE  SidecarTypeOK' /\ JobsWellFormed'
  <2>1. MappedTo(w, r) \subseteq Keys
    BY DEF MappedTo
  <2> QED
    BY <1>000, <1>3, <2>1 DEF MapNotice, MapNoticeFails, workVars, historyVars
<1>4. ASSUME NEW w \in Workers, NEW k \in Keys, Dequeue(w, k)
      PROVE  SidecarTypeOK' /\ JobsWellFormed'
  <2>1. job' \in [Threads -> Jobs \cup {Idle}] /\ JobsWellFormed'
    BY <1>0, <1>4, NewJobType, ThreadsAssumption DEF Dequeue
  <2> QED
    BY <1>4, <2>1 DEF Dequeue, clusterVars
<1>5. ASSUME NEW t \in Threads, GetObject(t) \/ LookUp(t) \/ BackendUnread(t)
      PROVE  SidecarTypeOK' /\ JobsWellFormed'
  <2>1. job' \in [Threads -> Jobs \cup {Idle}] /\ JobsWellFormed'
    BY <1>0, <1>5, ReadStep
  <2>2. disturbed' \in BOOLEAN
        /\ UNCHANGED <<clusterVars, queue, unlisted, listed, lost, doubt>>
    BY <1>5, ReadStep
  <2> QED
    BY <2>1, <2>2 DEF clusterVars
<1>6. ASSUME NEW t \in Threads, ReadFails(t) PROVE SidecarTypeOK' /\ JobsWellFormed'
  <2>1. job[t].key \in Keys
    BY <1>6 DEF ReadFails, Jobs
  <2>2. queue' \subseteq Keys
    BY <1>6, <2>1 DEF ReadFails
  <2>3. job' \in [Threads -> Jobs \cup {Idle}] /\ JobsWellFormed'
    BY <1>00, <1>6 DEF ReadFails
  <2>4. disturbed' \in BOOLEAN
    BY <1>6 DEF ReadFails
  <2> QED
    BY <1>6, <2>2, <2>3, <2>4 DEF ReadFails, clusterVars
<1>7. ASSUME NEW t \in Threads, Store(t) PROVE SidecarTypeOK' /\ JobsWellFormed'
  <2>1. Doubt(t, job[t]) \in {"none", "unread", "overtaken"}
    BY DEF Doubt
  <2>2. doubt' \in [Keys -> {"none", "unread", "overtaken"}]
    BY <1>7, <2>1, StoreSets
  <2>3. job' \in [Threads -> Jobs \cup {Idle}] /\ JobsWellFormed'
    BY <1>00, <1>7, StoreSets
  <2> QED
    BY <1>7, <2>2, <2>3, StoreSets
<1>8. CASE PrimeLists
  <2>1. unlisted' \in Seq(Workers)
    BY <1>8 DEF PrimeLists
  <2> QED
    BY <1>000, <1>8, <2>1 DEF PrimeLists, clusterVars, historyVars
<1>9. ASSUME NEW k \in Keys, PrimeReconciles(k) PROVE SidecarTypeOK' /\ JobsWellFormed'
  <2>1. job' \in [Threads -> Jobs \cup {Idle}] /\ JobsWellFormed'
    BY <1>0, <1>9, NewJobType, ThreadsAssumption DEF PrimeReconciles
  <2> QED
    BY <1>9, <2>1 DEF PrimeReconciles, clusterVars, historyVars
<1>10. CASE PrimeEnds \/ PrimeListFails
  BY <1>000, <1>10 DEF PrimeEnds, PrimeListFails, sidecarVars, clusterVars, workVars,
                       historyVars
<1>11. CASE Restart
  BY <1>11, SweepAssumption DEF Restart, JobsWellFormed
<1>12. CASE LoopAlone \/ UNCHANGED allVars
  BY <1>000, <1>12 DEF LoopAlone, allVars, sidecarVars, clusterVars, workVars,
                       historyVars
<1> QED
  BY <1>1, <1>2, <1>3, <1>4, <1>5, <1>6, <1>7, <1>8, <1>9, <1>10, <1>11, <1>12
     DEF SidecarNext, ReconcileSteps, PrimerSteps

LEMMA SidecarTypeAlways == SidecarSpec => [](SidecarTypeOK /\ JobsWellFormed)
BY SidecarTypeInit, SidecarTypeStep, PTL DEF SidecarSpec

(* The controllers keep their types. *)
THEOREM SidecarTypeCorrect == SidecarSpec => []SidecarTypeOK
BY SidecarTypeAlways, PTL

-----------------------------------------------------------------------------
(* Each step is a step of the render loop, or leaves its variables alone. *)

LEMMA StoreIsLoopStep ==
    ASSUME SidecarTypeOK, JobsWellFormed, NEW t \in Threads, Store(t)
    PROVE  Next
<1>1. job[t].key \in Keys /\ Derived(job[t]) \in Lists \cup {NoList}
  BY StoreSets DEF Jobs
<1>2. CASE t = Loop
  <2>1. PrimeSet(job[t].key, Derived(job[t]))
    BY <1>2 DEF Store
  <2> QED
    BY <1>1, <2>1 DEF Next, LoopStep
<1>3. CASE t # Loop
  <2>1. t \in Workers
    BY <1>3, ThreadsAssumption
  <2>2. WorkerSet(t, job[t].key, Derived(job[t]))
    BY <1>3 DEF Store
  <2> QED
    BY <1>1, <2>1, <2>2 DEF Next, Surroundings
<1> QED
  BY <1>2, <1>3

LEMMA LoopStepOrStutter ==
    SidecarTypeOK /\ JobsWellFormed /\ [SidecarNext]_allVars => [Next]_vars
<1> SUFFICES ASSUME SidecarTypeOK, JobsWellFormed, [SidecarNext]_allVars
             PROVE  [Next]_vars
  OBVIOUS
<1>1. CASE ClusterSteps
  BY <1>1 DEF ClusterSteps, EditObject, EditResource
<1>2. ASSUME NEW k \in Keys, DeliverEvent(k) PROVE [Next]_vars
  BY <1>2 DEF DeliverEvent
<1>3. ASSUME NEW w \in Workers, NEW r \in Resources,
             MapNotice(w, r) \/ MapNoticeFails(w, r)
      PROVE  [Next]_vars
  BY <1>3 DEF MapNotice, MapNoticeFails
<1>4. ASSUME NEW w \in Workers, NEW k \in Keys, Dequeue(w, k) PROVE [Next]_vars
  BY <1>4 DEF Dequeue
<1>5. ASSUME NEW t \in Threads,
             GetObject(t) \/ LookUp(t) \/ BackendUnread(t) \/ ReadFails(t)
      PROVE  [Next]_vars
  BY <1>5 DEF GetObject, LookUp, BackendUnread, ReadFails
<1>6. ASSUME NEW t \in Threads, Store(t) PROVE [Next]_vars
  BY <1>6, StoreIsLoopStep
<1>7. CASE PrimeLists \/ \E k \in Keys : PrimeReconciles(k)
  BY <1>7 DEF PrimeLists, PrimeReconciles
<1>8. CASE PrimeEnds \/ PrimeListFails
  BY <1>8 DEF PrimeEnds, PrimeListFails, Next, LoopStep
<1>9. CASE Restart
  BY <1>9 DEF Restart, Next, Surroundings
<1>10. CASE LoopAlone
  BY <1>10 DEF LoopAlone, Next, Surroundings, Wakers, LoopStep
<1>11. CASE UNCHANGED allVars
  BY <1>11 DEF allVars
<1> QED
  BY <1>1, <1>2, <1>3, <1>4, <1>5, <1>6, <1>7, <1>8, <1>9, <1>10, <1>11
     DEF SidecarNext, ReconcileSteps, PrimerSteps

(* However the controllers, the primer, the cluster and crashes interleave,
   the process behaves as the render loop's specification says, in which any
   thread may set anything at any time. *)
THEOREM SidecarImplementsLoop == SidecarSpec => Spec
<1>1. SidecarInit => Init
  BY DEF SidecarInit
<1> QED
  BY <1>1, SidecarTypeAlways, LoopStepOrStutter, PTL DEF SidecarSpec, Spec

(* So in the composed process no change of the registry or the templates is
   lost on its way to the file. *)
THEOREM SidecarLosesNoChange == SidecarSpec => []FileFollowsInputs
BY SidecarImplementsLoop, NoChangeIsLost, PTL

-----------------------------------------------------------------------------
(* What the registry holds.  The inductive invariant has two parts. *)

Works(t, k) == job[t] # Idle /\ job[t].key = k

(* Each key has one worker. *)
OwnersWork == \A w \in Workers : job[w] # Idle => Owner[job[w].key] = w

(* The ith lookup for k's object is followed, and no event on it is waiting; what
   it finds. *)
Clean(k, i) ==
    /\ Lookups[k][object[k]][i] \in Follows[k]
    /\ <<Owner[k], Lookups[k][object[k]][i]>> \notin notices

At(k, i) == resource[Lookups[k][object[k]][i]]

(* Reconcile j of k has read what it would read now, as far as that. *)
Reads(k, j) ==
    \/ Getting(j)
    \/ /\ j.object = object[k]
       /\ object[k] # Absent =>
             \A i \in DOMAIN j.seen : Clean(k, i) => j.seen[i] \in {At(k, i), Unreadable}

(* list is what k contributes now, as far as that. *)
Agrees(k, list) ==
    IF object[k] = Absent
      THEN list = NoList
      ELSE \E seen \in Readings(k, object[k]) :
              /\ list = DerivedFrom(object[k], seen)
              /\ \A i \in DOMAIN seen : Clean(k, i) => seen[i] = At(k, i)

(* k's worker has it in hand as it is, or is done with it. *)
KeyFollows(k) ==
    IF Works(Owner[k], k)
      THEN Reads(k, job[Owner[k]])
      ELSE doubt[k] = "none" => Agrees(k, entries[k])

KeysFollow == \A k \in Keys \ lost : k \notin events \cup queue => KeyFollows(k)

FollowInv == OwnersWork /\ KeysFollow

-----------------------------------------------------------------------------
(* Lemmas about the steps. *)

LEMMA StoreSetsEntry ==
    ASSUME SidecarTypeOK, RegistryTypeOK, NEW t \in Threads, Store(t)
    PROVE  entries' = [entries EXCEPT ![job[t].key] = Derived(job[t])]
<1>1. CASE t = Loop
  BY <1>1 DEF Store, PrimeSet, Set, RegistryTypeOK, registryVars
<1>2. CASE t # Loop
  BY <1>2 DEF Store, WorkerSet, Set, RegistryTypeOK, registryVars
<1> QED
  BY <1>1, <1>2

LEMMA LoopAloneKeeps ==
    ASSUME LoopAlone \/ UNCHANGED allVars
    PROVE  UNCHANGED <<sidecarVars, entries>>
<1>1. CASE UNCHANGED allVars
  BY <1>1 DEF allVars, vars, registryVars
<1>2. CASE LoopAlone
  BY <1>2 DEF LoopAlone, TemplateEvent, EditBase, Cancel, TemplateReconcile,
     Touch, WorkerNotify, Notify, CachesSync, CachesDoNotSync, PrimeNotify,
     DrainSignal, LoadBase, ListTemplates, SnapshotRegistry, Write, RenderFails,
     UpdateStatus, ReceiveChange, TakeSignal, Rearm, TimerFires, ReceiveTimer,
     Return, registryVars
<1> QED
  BY <1>1, <1>2

LEMMA OwnersStep ==
    SidecarTypeOK /\ JobsWellFormed /\ OwnersWork /\ [SidecarNext]_allVars
        => OwnersWork'
<1> SUFFICES ASSUME SidecarTypeOK, JobsWellFormed, OwnersWork,
                    [SidecarNext]_allVars
             PROVE  OwnersWork'
  OBVIOUS
<1> USE DEF OwnersWork
<1>1. ASSUME NEW t \in Threads,
             \/ job' = [job EXCEPT ![t] = Idle]
             \/ /\ job' = [job EXCEPT ![t] = job'[t]]
                /\ job[t] # Idle /\ job'[t].key = job[t].key
      PROVE  OwnersWork'
  BY <1>1, ThreadsAssumption DEF SidecarTypeOK
<1>2. CASE job' = job
  BY <1>2
<1>3. CASE ClusterSteps \/ \E k \in Keys : DeliverEvent(k)
  BY <1>2, <1>3 DEF ClusterSteps, EditObject, EditResource, DeliverEvent, workVars
<1>4. CASE \E w \in Workers, r \in Resources : MapNotice(w, r) \/ MapNoticeFails(w, r)
  BY <1>2, <1>4 DEF MapNotice, MapNoticeFails, workVars
<1>5. ASSUME NEW w \in Workers, NEW k \in Keys, Dequeue(w, k) PROVE OwnersWork'
  <2>1. job' = [job EXCEPT ![w] = NewJob(k)] /\ Owner[k] = w
    BY <1>5 DEF Dequeue
  <2> QED
    BY <2>1, NewJobType, ThreadsAssumption DEF SidecarTypeOK
<1>6. ASSUME NEW t \in Threads, GetObject(t) \/ LookUp(t) \/ BackendUnread(t)
      PROVE  OwnersWork'
  BY <1>1, <1>6, ReadStep
<1>7. ASSUME NEW t \in Threads, ReadFails(t) \/ Store(t) PROVE OwnersWork'
  BY <1>1, <1>7 DEF ReadFails, Store
<1>8. CASE PrimeLists \/ PrimeEnds \/ PrimeListFails
  BY <1>2, <1>8 DEF PrimeLists, PrimeEnds, PrimeListFails, sidecarVars, workVars
<1>9. ASSUME NEW k \in Keys, PrimeReconciles(k) PROVE OwnersWork'
  BY <1>9, ThreadsAssumption DEF PrimeReconciles, SidecarTypeOK
<1>10. CASE Restart
  BY <1>10, ThreadsAssumption DEF Restart
<1>11. CASE LoopAlone \/ UNCHANGED allVars
  BY <1>2, <1>11, LoopAloneKeeps DEF sidecarVars, workVars
<1> QED
  BY <1>3, <1>4, <1>5, <1>6, <1>7, <1>8, <1>9, <1>10, <1>11
     DEF SidecarNext, ReconcileSteps, PrimerSteps

(* An edit of what k follows leaves a notice behind, so what holds of k goes on
   holding as far as no notice is waiting. *)
LEMMA CleanKept ==
    ASSUME NEW k \in Keys, object'[k] = object[k],
           \A r \in Follows[k] : <<Owner[k], r>> \notin notices' =>
               <<Owner[k], r>> \notin notices /\ resource'[r] = resource[r],
           NEW i, Clean(k, i)'
    PROVE  Clean(k, i) /\ At(k, i)' = At(k, i)
BY DEF Clean, At

LEMMA KeyKept ==
    ASSUME NEW k \in Keys, KeyFollows(k),
           object'[k] = object[k], entries'[k] = entries[k], doubt'[k] = doubt[k],
           \/ job'[Owner[k]] = job[Owner[k]]
           \/ ~Works(Owner[k], k) /\ ~Works(Owner[k], k)',
           object[k] # Absent =>
               \A r \in Follows[k] : <<Owner[k], r>> \notin notices' =>
                   <<Owner[k], r>> \notin notices /\ resource'[r] = resource[r]
    PROVE  KeyFollows(k)'
<1>1. object[k] # Absent =>
          \A i : Clean(k, i)' => Clean(k, i) /\ At(k, i)' = At(k, i)
  BY CleanKept
<1>2. ASSUME NEW j, Reads(k, j) PROVE Reads(k, j)'
  BY <1>1, <1>2 DEF Reads, Getting
<1>3. ASSUME NEW list, Agrees(k, list) PROVE Agrees(k, list)'
  BY <1>1, <1>3 DEF Agrees, Readings, DerivedFrom, Taken
<1>4. CASE Works(Owner[k], k) /\ job'[Owner[k]] = job[Owner[k]]
  BY <1>2, <1>4 DEF KeyFollows, Works
<1>5. CASE ~Works(Owner[k], k) /\ ~Works(Owner[k], k)'
  BY <1>3, <1>5 DEF KeyFollows
<1> QED
  BY <1>4, <1>5 DEF Works

(* What matches now agrees with what is found wherever no notice is waiting. *)
LEMMA MatchAgrees ==
    ASSUME NEW k \in Keys, NEW list, Matches(k, list)
    PROVE  Agrees(k, list)
BY DEF Matches, Agrees, Clean, At

(* What a completed reconcile stores agrees with what it read, unless a lookup
   failed. *)
LEMMA CompleteAgrees ==
    ASSUME SidecarTypeOK, NEW k \in Keys, NEW j \in Jobs, j.key = k,
           Complete(j), WellFormed(j), Reads(k, j),
           \A i \in DOMAIN j.seen : j.seen[i] # Unreadable
    PROVE  Agrees(k, Derived(j))
<1> DEFINE o == object[k]
           L == Lookups[k][o]
           seen == [i \in DOMAIN L |-> IF i \in DOMAIN j.seen THEN j.seen[i] ELSE At(k, i)]
<1> USE DEF SidecarTypeOK
<1>1. j.object = o /\ j.seen \in Seq(AllStates \cup {Unreadable})
  BY DEF Reads, Complete, Jobs
<1>2. CASE o = Absent
  BY <1>1, <1>2 DEF Agrees, Derived, DerivedFrom
<1>3. CASE o # Absent
  <2>1. o \in Objects
    BY <1>3
  <2>2. /\ DOMAIN L = 1..Len(L) /\ Len(L) \in Nat
        /\ \A i \in DOMAIN L : L[i] \in Resources
    BY <2>1, LookupsAreSequences
  <2>3. DOMAIN j.seen \subseteq DOMAIN L
    BY <1>1, <2>1, <2>2 DEF WellFormed
  <2>4. \A i \in DOMAIN j.seen : j.seen[i] \in AllStates
    BY <1>1
  <2>5. \A i \in DOMAIN L : At(k, i) \in AllStates
    BY <2>2 DEF At
  <2>6. seen \in Readings(k, o)
    BY <2>4, <2>5 DEF Readings
  <2>7. \A i \in DOMAIN seen : Clean(k, i) => seen[i] = At(k, i)
    BY <1>1, <1>3 DEF Reads, Complete
  <2>8. Derived(j) = DerivedFrom(o, seen)
    <3>1. CASE \E i \in DOMAIN j.seen : j.seen[i] = Unselected
      <4>1. \E i \in DOMAIN seen : seen[i] = Unselected
        BY <2>3, <3>1
      <4> QED
        BY <1>1, <3>1, <4>1 DEF Derived, DerivedFrom
    <3>2. CASE \A i \in DOMAIN j.seen : j.seen[i] # Unselected
      <4>1. DOMAIN j.seen = DOMAIN L
        BY <1>1, <2>1, <3>2, CompleteHasRead
      <4>2. j.seen = seen
        BY <1>1, <4>1
      <4> QED
        BY <1>1, <4>2 DEF Derived
    <3> QED
      BY <3>1, <3>2
  <2> HIDE DEF seen
  <2> QED
    BY <1>3, <2>6, <2>7, <2>8 DEF Agrees
<1> QED
  BY <1>2, <1>3

LEMMA StoreFollows ==
    ASSUME SidecarTypeOK, JobsWellFormed, RegistryTypeOK, FollowInv,
           NEW t \in Threads, Store(t),
           NEW k \in Keys \ lost', k \notin (events \cup queue)'
    PROVE  KeyFollows(k)'
<1> DEFINE j == job[t]
<1> USE DEF SidecarTypeOK
<1>1. UNCHANGED <<object, resource, events, notices, queue, lost>>
  BY StoreSets
<1>2. KeyFollows(k)
  BY <1>1 DEF FollowInv, KeysFollow
<1>3. /\ j # Idle /\ j \in Jobs /\ WellFormed(j) /\ Complete(j)
      /\ job' = [job EXCEPT ![t] = Idle]
      /\ entries' = [entries EXCEPT ![j.key] = Derived(j)]
      /\ doubt' = [doubt EXCEPT ![j.key] = Doubt(t, j)]
  BY StoreSets, StoreSetsEntry
<1>4. j.key \in Keys /\ Owner[k] \in Workers
  BY <1>3, OwnerAssumption DEF Jobs
<1>5. CASE j.key # k
  <2>1. entries'[k] = entries[k] /\ doubt'[k] = doubt[k]
    BY <1>3, <1>5 DEF RegistryTypeOK
  <2>2. \/ job'[Owner[k]] = job[Owner[k]]
        \/ ~Works(Owner[k], k) /\ ~Works(Owner[k], k)'
    BY <1>3, <1>4, <1>5, ThreadsAssumption DEF Works
  <2> QED
    BY <1>1, <1>2, <2>1, <2>2, KeyKept
<1>6. CASE j.key = k
  <2>1. entries'[k] = Derived(j) /\ doubt'[k] = Doubt(t, j)
    BY <1>3, <1>6 DEF RegistryTypeOK
  <2>2. \A list : Agrees(k, list)' <=> Agrees(k, list)
    BY <1>1 DEF Agrees, Clean, At
  <2>3. CASE t = Owner[k]
    <3>1. Reads(k, j)
      BY <1>2, <1>3, <1>6, <2>3 DEF KeyFollows, Works
    <3>2. t # Loop
      BY <1>4, <2>3, ThreadsAssumption
    <3>3. ASSUME Doubt(t, j) = "none" PROVE Agrees(k, Derived(j))
      <4>1. CASE Matches(k, Derived(j))
        BY <4>1, MatchAgrees
      <4>2. CASE ~Matches(k, Derived(j))
        <5>1. \A i \in DOMAIN j.seen : j.seen[i] # Unreadable
          BY <1>6, <3>3, <4>2 DEF Doubt
        <5> QED
          BY <1>3, <1>6, <3>1, <5>1, CompleteAgrees
      <4> QED
        BY <4>1, <4>2
    <3>4. ~Works(Owner[k], k)'
      BY <1>3, <2>3 DEF Works
    <3> QED
      BY <2>1, <2>2, <3>3, <3>4 DEF KeyFollows
  <2>4. CASE t # Owner[k]
    <3>1. t = Loop
      BY <1>3, <1>6, <2>4, ThreadsAssumption DEF FollowInv, OwnersWork
    <3>2. job'[Owner[k]] = job[Owner[k]]
      BY <1>3, <1>4, <2>4, ThreadsAssumption
    <3>3. ASSUME Doubt(t, j) = "none" PROVE Agrees(k, Derived(j))
      BY <1>6, <3>1, <3>3, MatchAgrees DEF Doubt
    <3>4. CASE Works(Owner[k], k)
      <4>1. Reads(k, job[Owner[k]])
        BY <1>2, <3>4 DEF KeyFollows
      <4>2. Reads(k, job[Owner[k]])'
        BY <1>1, <3>2, <4>1 DEF Reads, Clean, At, Getting
      <4> QED
        BY <3>2, <3>4, <4>2 DEF KeyFollows, Works
    <3>5. CASE ~Works(Owner[k], k)
      BY <2>1, <2>2, <3>2, <3>3, <3>5 DEF KeyFollows, Works
    <3> QED
      BY <3>4, <3>5
  <2> QED
    BY <2>3, <2>4
<1> QED
  BY <1>5, <1>6

LEMMA ReadFollows ==
    ASSUME SidecarTypeOK, JobsWellFormed, RegistryTypeOK, FollowInv,
           NEW t \in Threads, GetObject(t) \/ LookUp(t) \/ BackendUnread(t),
           NEW k \in Keys \ lost', k \notin (events \cup queue)'
    PROVE  KeyFollows(k)'
<1> DEFINE j == job[t]
<1> USE DEF SidecarTypeOK
<1>1. UNCHANGED <<entries, object, resource, events, notices, queue, lost, doubt>>
  BY ReadStep DEF vars, registryVars, clusterVars
<1>2. KeyFollows(k)
  BY <1>1 DEF FollowInv, KeysFollow
<1>3. /\ job' = [job EXCEPT ![t] = job'[t]]
      /\ j # Idle /\ j \in Jobs /\ WellFormed(j)
      /\ job'[t] # Idle /\ job'[t].key = j.key
  BY ReadStep DEF JobsWellFormed
<1>4. Owner[k] \in Threads
  BY OwnerAssumption, ThreadsAssumption
<1>5. CASE ~(t = Owner[k] /\ j.key = k)
  <2>1. \/ job'[Owner[k]] = job[Owner[k]]
        \/ ~Works(Owner[k], k) /\ ~Works(Owner[k], k)'
    BY <1>3, <1>4, <1>5 DEF Works
  <2> QED
    BY <1>1, <1>2, <2>1, KeyKept
<1>6. CASE t = Owner[k] /\ j.key = k
  <2>1. Reads(k, j)
    BY <1>2, <1>3, <1>6 DEF KeyFollows, Works
  <2>2. \A n : Reads(k, n)' <=> Reads(k, n)
    BY <1>1 DEF Reads, Clean, At, Getting
  <2>3. Reads(k, job'[t])
    <3>1. CASE job'[t].object = object[k] /\ job'[t].seen = <<>>
      BY <3>1 DEF Reads
    <3>2. ASSUME Looking(j), job'[t].object = j.object,
                 NEW x \in {resource[NextLookup(j)], Unreadable},
                 job'[t].seen = Append(j.seen, x)
          PROVE  Reads(k, job'[t])
      <4>1. ~Getting(j)
        BY <3>2, ObjectsAssumption DEF Looking, Getting
      <4>2. j.object = object[k]
        BY <2>1, <4>1 DEF Reads
      <4>3. j.seen \in Seq(AllStates \cup {Unreadable})
        BY <1>3 DEF Jobs
      <4>4. x \in {At(k, Len(j.seen) + 1), Unreadable}
        BY <1>6, <3>2, <4>2 DEF NextLookup, At
      <4>5. ASSUME NEW i \in DOMAIN job'[t].seen, object[k] # Absent, Clean(k, i)
            PROVE  job'[t].seen[i] \in {At(k, i), Unreadable}
        <5>1. CASE i = Len(j.seen) + 1
          BY <3>2, <4>3, <4>4, <5>1
        <5>2. CASE i # Len(j.seen) + 1
          <6>1. i \in DOMAIN j.seen /\ job'[t].seen[i] = j.seen[i]
            BY <3>2, <4>3, <4>5, <5>2
          <6> QED
            BY <2>1, <4>1, <4>5, <6>1 DEF Reads
        <5> QED
          BY <5>1, <5>2
      <4> QED
        BY <3>2, <4>2, <4>5 DEF Reads
    <3> QED
      BY <1>6, <3>1, <3>2, ReadStep
  <2>4. Works(Owner[k], k)'
    BY <1>3, <1>6 DEF Works
  <2> QED
    BY <1>6, <2>2, <2>3, <2>4 DEF KeyFollows
<1> QED
  BY <1>5, <1>6

LEMMA FollowStep ==
    SidecarTypeOK /\ JobsWellFormed /\ RegistryTypeOK /\ FollowInv
        /\ [SidecarNext]_allVars => KeysFollow'
<1> SUFFICES ASSUME SidecarTypeOK, JobsWellFormed, RegistryTypeOK, FollowInv,
                    [SidecarNext]_allVars,
                    NEW k \in Keys \ lost', k \notin (events \cup queue)'
             PROVE  KeyFollows(k)'
  BY DEF KeysFollow
<1> USE DEF SidecarTypeOK
<1>1. ASSUME k \notin lost, k \notin events \cup queue PROVE KeyFollows(k)
  BY <1>1 DEF FollowInv, KeysFollow
<1>2. Owner[k] \in Threads /\ Owner[k] \in Workers /\ Owner[k] # Loop
  BY OwnerAssumption, ThreadsAssumption
<1>3. ASSUME NEW i \in Keys, NEW o \in Objects \cup {Absent}, EditObject(i, o)
      PROVE  KeyFollows(k)'
  <2>1. UNCHANGED <<entries, resource, notices, queue, job, lost, doubt>>
        /\ object' = [object EXCEPT ![i] = o]
        /\ events' = events \cup {i}
    BY <1>3 DEF EditObject, vars, registryVars, workVars
  <2> QED
    BY <1>1, <2>1, KeyKept
<1>4. ASSUME NEW r \in Resources, NEW s \in States[r], EditResource(r, s)
      PROVE  KeyFollows(k)'
  <2>1. UNCHANGED <<entries, object, events, queue, job, lost, doubt>>
        /\ resource' = [resource EXCEPT ![r] = s]
        /\ notices' = notices \cup (Watchers(r) \X {r})
    BY <1>4 DEF EditResource, vars, registryVars, workVars
  <2>2. \A q \in Follows[k] : <<Owner[k], q>> \notin notices' =>
            <<Owner[k], q>> \notin notices /\ resource'[q] = resource[q]
    <3> SUFFICES ASSUME NEW q \in Follows[k], <<Owner[k], q>> \notin notices'
                 PROVE  <<Owner[k], q>> \notin notices /\ resource'[q] = resource[q]
      OBVIOUS
    <3>1. q # r
      BY <2>1 DEF Watchers
    <3> QED
      BY <2>1, <3>1, FollowsAssumption
  <2> QED
    BY <1>1, <2>1, <2>2, KeyKept
<1>5. ASSUME NEW i \in Keys, DeliverEvent(i) PROVE KeyFollows(k)'
  <2>1. UNCHANGED <<entries, object, resource, notices, job, lost, doubt>>
        /\ events' = events \ {i} /\ queue' = queue \cup {i}
    BY <1>5 DEF DeliverEvent, vars, registryVars, historyVars
  <2> QED
    BY <1>1, <2>1, KeyKept
<1>6. ASSUME NEW w \in Workers, NEW r \in Resources,
             MapNotice(w, r) \/ MapNoticeFails(w, r)
      PROVE  KeyFollows(k)'
  <2>1. /\ UNCHANGED <<entries, object, resource, events, job, doubt>>
        /\ notices' = notices \ {<<w, r>>}
        /\ queue \subseteq queue' /\ lost \subseteq lost'
        /\ MappedTo(w, r) \subseteq queue' \cup lost'
    BY <1>6 DEF MapNotice, MapNoticeFails, vars, registryVars, workVars, historyVars
  <2>2. object[k] # Absent => \A q \in Follows[k] : <<Owner[k], q>> # <<w, r>>
    BY <2>1 DEF MappedTo, Present
  <2> QED
    BY <1>1, <2>1, <2>2, KeyKept
<1>7. ASSUME NEW w \in Workers, NEW i \in Keys, Dequeue(w, i) PROVE KeyFollows(k)'
  <2>1. UNCHANGED <<entries, object, resource, events, notices, doubt>>
        /\ queue' = queue \ {i} /\ lost' = lost \ {i}
        /\ job' = [job EXCEPT ![w] = NewJob(i)]
        /\ job[w] = Idle /\ Owner[i] = w
    BY <1>7 DEF Dequeue, Free, vars, registryVars, clusterVars
  <2>2. CASE i = k
    <3>1. job'[Owner[k]] = NewJob(k)
      BY <1>2, <2>1, <2>2
    <3> QED
      BY <3>1, NewJobType DEF KeyFollows, Works, Reads, Getting
  <2>3. CASE i # k
    <3>1. \/ job'[Owner[k]] = job[Owner[k]]
          \/ ~Works(Owner[k], k) /\ ~Works(Owner[k], k)'
      BY <1>2, <2>1, <2>3, NewJobType DEF Works
    <3> QED
      BY <1>1, <2>1, <2>3, <3>1, KeyKept
  <2> QED
    BY <2>2, <2>3
<1>8. ASSUME NEW t \in Threads, GetObject(t) \/ LookUp(t) \/ BackendUnread(t)
      PROVE  KeyFollows(k)'
  BY <1>8, ReadFollows
<1>9. ASSUME NEW t \in Threads, ReadFails(t) PROVE KeyFollows(k)'
  <2>1. /\ UNCHANGED <<entries, object, resource, events, notices, lost, doubt>>
        /\ job' = [job EXCEPT ![t] = Idle]
        /\ queue' = IF t = Loop THEN queue ELSE queue \cup {job[t].key}
    BY <1>9 DEF ReadFails, vars, registryVars, clusterVars
  <2>2. \/ job'[Owner[k]] = job[Owner[k]]
        \/ ~Works(Owner[k], k) /\ ~Works(Owner[k], k)'
    BY <1>2, <2>1 DEF Works
  <2> QED
    BY <1>1, <2>1, <2>2, KeyKept
<1>10. ASSUME NEW t \in Threads, Store(t) PROVE KeyFollows(k)'
  BY <1>10, StoreFollows
<1>11. CASE PrimeLists \/ PrimeEnds \/ PrimeListFails
  <2>1. UNCHANGED <<entries, object, resource, events, notices, queue, job, lost, doubt>>
    BY <1>11 DEF PrimeLists, PrimeEnds, PrimeListFails, PrimeReturns, vars,
       registryVars, sidecarVars, clusterVars, workVars, historyVars
  <2> QED
    BY <1>1, <2>1, KeyKept
<1>12. ASSUME NEW i \in Keys, PrimeReconciles(i) PROVE KeyFollows(k)'
  <2>1. UNCHANGED <<entries, object, resource, events, notices, queue, lost, doubt>>
        /\ job' = [job EXCEPT ![Loop] = NewJob(i)]
    BY <1>12 DEF PrimeReconciles, vars, registryVars, clusterVars, historyVars
  <2>2. job'[Owner[k]] = job[Owner[k]]
    BY <1>2, <2>1
  <2> QED
    BY <1>1, <2>1, <2>2, KeyKept
<1>13. CASE Restart
  <2>1. /\ UNCHANGED <<object, resource>>
        /\ entries' = [i \in Keys |-> NoList]
        /\ job' = [t \in Threads |-> Idle]
        /\ events' = Present
    BY <1>13 DEF Restart, Crash
  <2>2. object'[k] = Absent
    BY <2>1 DEF Present
  <2> QED
    BY <1>2, <2>1, <2>2 DEF KeyFollows, Works, Agrees
<1>14. CASE LoopAlone \/ UNCHANGED allVars
  <2>1. UNCHANGED <<entries, object, resource, events, notices, queue, job, lost, doubt>>
    BY <1>14, LoopAloneKeeps DEF sidecarVars, clusterVars, workVars, historyVars
  <2> QED
    BY <1>1, <2>1, KeyKept
<1> QED
  BY <1>3, <1>4, <1>5, <1>6, <1>7, <1>8, <1>9, <1>10, <1>11, <1>12, <1>13, <1>14
     DEF SidecarNext, ClusterSteps, ReconcileSteps, PrimerSteps

LEMMA FollowInit == SidecarInit => FollowInv
<1> SUFFICES ASSUME SidecarInit PROVE FollowInv
  OBVIOUS
<1>1. /\ entries = [k \in Keys |-> NoList]
      /\ job = [t \in Threads |-> Idle]
      /\ events = Present
  BY DEF SidecarInit, Init, RegistryInit
<1>2. OwnersWork
  BY <1>1, ThreadsAssumption DEF OwnersWork
<1>3. ASSUME NEW k \in Keys, k \notin events PROVE KeyFollows(k)
  <2>1. object[k] = Absent
    BY <1>1, <1>3 DEF Present
  <2> QED
    BY <1>1, <2>1, OwnerAssumption, ThreadsAssumption DEF KeyFollows, Works, Agrees
<1> QED
  BY <1>2, <1>3 DEF FollowInv, KeysFollow

LEMMA RegistryTyped == SidecarSpec => []RegistryTypeOK
<1>1. SidecarSpec => []SafeInv
  BY SidecarImplementsLoop, SafeAlways, PTL
<1>2. SafeInv => RegistryTypeOK
  BY DEF SafeInv, TypeInv, TypeOK
<1> QED
  BY <1>1, <1>2, PTL

LEMMA FollowAlways == SidecarSpec => []FollowInv
<1>1. SidecarTypeOK /\ JobsWellFormed /\ RegistryTypeOK /\ FollowInv
        /\ [SidecarNext]_allVars => FollowInv'
  BY OwnersStep, FollowStep DEF FollowInv
<1> QED
  BY <1>1, FollowInit, SidecarTypeAlways, RegistryTyped, PTL DEF SidecarSpec

(* The registry follows the cluster, for any objects, controllers and lookups,
   whichever kinds Prime sweeps beside the workers: once nothing about a key is
   under way, its entry is what the key derives to now as far as it is followed,
   unless the listing for an event failed, a backend could not be read, or Prime
   stored what it had read before a change. *)
THEOREM RegistryFollows == SidecarSpec => []RegistryFollowsCluster
<1>1. FollowInv => RegistryFollowsCluster
  <2> SUFFICES ASSUME FollowInv, NEW k \in Keys \ lost, Settled(k),
                      doubt[k] = "none"
               PROVE  Matches(k, entries[k])
    BY DEF RegistryFollowsCluster
  <2>1. k \notin events \cup queue
    BY DEF Settled
  <2>2. ~Works(Owner[k], k)
    BY OwnerAssumption, ThreadsAssumption DEF Settled, Works
  <2>3. Agrees(k, entries[k])
    BY <2>1, <2>2 DEF FollowInv, KeysFollow, KeyFollows
  <2>4. \A i : Lookups[k][object[k]][i] \in Follows[k] => Clean(k, i)
    BY DEF Settled, Clean
  <2> QED
    BY <2>3, <2>4 DEF Matches, Agrees, At
<1> QED
  BY <1>1, FollowAlways, PTL

-----------------------------------------------------------------------------
(* While the cluster holds still nobody can have read anything stale. *)

(* What j has read is what it would read now. *)
UpToDate(j) ==
    \/ Getting(j)
    \/ /\ j.object = object[j.key]
       /\ \A i \in DOMAIN j.seen : j.seen[i] = At(j.key, i)

HeldStill ==
    ~disturbed =>
        /\ \A t \in Threads : job[t] # Idle => UpToDate(job[t])
        /\ \A k \in Keys : entries[k] \in {NoList, Current(k)}

LEMMA CompleteIsCurrent ==
    ASSUME SidecarTypeOK, NEW j \in Jobs, Complete(j), WellFormed(j), UpToDate(j)
    PROVE  Derived(j) = Current(j.key)
<1> DEFINE k == j.key
           o == object[k]
<1>1. k \in Keys /\ j.object = o /\ j.seen \in Seq(AllStates \cup {Unreadable})
  BY DEF UpToDate, Complete, Jobs
<1>2. \A i \in DOMAIN j.seen : j.seen[i] = resource[Lookups[k][o][i]]
  BY <1>1 DEF UpToDate, Complete, At
<1>3. CASE o = Absent
  BY <1>1, <1>3 DEF Derived, DerivedFrom, Current
<1>4. CASE o # Absent
  <2>1. o \in Objects
    BY <1>1, <1>4 DEF SidecarTypeOK
  <2>2. DOMAIN Found(k, o) = DOMAIN Lookups[k][o]
        /\ \A i \in DOMAIN Lookups[k][o] : Found(k, o)[i] = resource[Lookups[k][o][i]]
    BY DEF Found
  <2>3. CASE \E i \in DOMAIN j.seen : j.seen[i] = Unselected
    <3>1. DOMAIN j.seen \subseteq DOMAIN Lookups[k][o]
      BY <1>1, <2>1, LookupsAreSequences DEF WellFormed
    <3>2. \E i \in DOMAIN Found(k, o) : Found(k, o)[i] = Unselected
      BY <1>2, <2>2, <2>3, <3>1
    <3> QED
      BY <1>1, <1>4, <2>3, <3>2 DEF Derived, DerivedFrom, Current
  <2>4. CASE \A i \in DOMAIN j.seen : j.seen[i] # Unselected
    <3>1. DOMAIN j.seen = DOMAIN Lookups[k][o]
      BY <1>1, <2>1, <2>4, CompleteHasRead
    <3>2. j.seen = Found(k, o)
      <4>1. j.seen = [i \in DOMAIN j.seen |-> j.seen[i]]
        BY ONLY <1>1
      <4>2. j.seen = [i \in DOMAIN Lookups[k][o] |-> resource[Lookups[k][o][i]]]
        BY ONLY <1>2, <3>1, <4>1
      <4> QED
        BY ONLY <4>2 DEF Found
    <3> QED
      BY <1>1, <1>4, <3>2 DEF Derived, Current
  <2> QED
    BY <2>3, <2>4
<1> QED
  BY <1>3, <1>4

LEMMA HeldStillStep ==
    SidecarTypeOK /\ JobsWellFormed /\ RegistryTypeOK /\ HeldStill
        /\ [SidecarNext]_allVars => HeldStill'
<1> SUFFICES ASSUME SidecarTypeOK, JobsWellFormed, RegistryTypeOK, HeldStill,
                    [SidecarNext]_allVars
             PROVE  HeldStill'
  OBVIOUS
<1>1. CASE disturbed'
  BY <1>1 DEF HeldStill
<1>2. ASSUME UNCHANGED <<object, resource, entries, disturbed>>,
             \A t \in Threads : job'[t] = job[t] \/ job'[t] = Idle
                                \/ (~disturbed => UpToDate(job'[t]))
      PROVE  HeldStill'
  <2>1. \A k \in Keys : Current(k)' = Current(k)
    BY <1>2 DEF Current, Found
  <2>2. \A j : UpToDate(j)' <=> UpToDate(j)
    BY <1>2 DEF UpToDate, At, Getting
  <2> QED
    BY <1>2, <2>1, <2>2 DEF HeldStill
<1>3. CASE \/ PrimeLists \/ PrimeEnds
           \/ \E k \in Keys : DeliverEvent(k)
           \/ \E w \in Workers, r \in Resources : MapNotice(w, r) \/ MapNoticeFails(w, r)
  BY <1>2, <1>3 DEF MapNotice, MapNoticeFails, PrimeLists, PrimeEnds,
     PrimeReturns, DeliverEvent, vars, registryVars, workVars, historyVars,
     clusterVars, sidecarVars
<1>4. ASSUME NEW t \in Threads, NEW k \in Keys, job' = [job EXCEPT ![t] = NewJob(k)]
      PROVE  \A u \in Threads : job'[u] = job[u] \/ UpToDate(job'[u])
  BY <1>4, NewJobType DEF UpToDate, SidecarTypeOK
<1>5. ASSUME NEW w \in Workers, NEW k \in Keys, Dequeue(w, k) PROVE HeldStill'
  BY <1>2, <1>4, <1>5, ThreadsAssumption
     DEF Dequeue, vars, registryVars, clusterVars, historyVars
<1>6. ASSUME NEW k \in Keys, PrimeReconciles(k) PROVE HeldStill'
  BY <1>2, <1>4, <1>6, ThreadsAssumption
     DEF PrimeReconciles, vars, registryVars, clusterVars, historyVars
<1>7. ASSUME NEW t \in Threads, GetObject(t) \/ LookUp(t), ~BackendUnread(t),
             ~disturbed
      PROVE  HeldStill'
  <2> DEFINE j == job[t]
  <2>1. UNCHANGED <<object, resource, entries, disturbed>>
    BY <1>7, ReadStep DEF vars, registryVars, clusterVars
  <2>2. /\ job' = [job EXCEPT ![t] = job'[t]]
        /\ job'[t].key = j.key /\ j # Idle /\ j \in Jobs
    BY <1>7, ReadStep
  <2>3. UpToDate(j)
    BY <1>7, <2>2 DEF HeldStill
  <2>4. UpToDate(job'[t])
    <3>1. CASE job'[t].object = object[j.key] /\ job'[t].seen = <<>>
      BY <2>2, <3>1 DEF UpToDate
    <3>2. CASE /\ Looking(j) /\ job'[t].object = j.object
               /\ job'[t].seen = Append(j.seen, resource[NextLookup(j)])
      <4>1. ~Getting(j)
        BY <3>2, ObjectsAssumption DEF Looking, Getting
      <4>2. j.object = object[j.key] /\ \A i \in DOMAIN j.seen : j.seen[i] = At(j.key, i)
        BY <2>3, <4>1 DEF UpToDate
      <4>3. j.seen \in Seq(AllStates \cup {Unreadable})
        BY <2>2 DEF Jobs
      <4>4. resource[NextLookup(j)] = At(j.key, Len(j.seen) + 1)
        BY <4>2 DEF NextLookup, At
      <4> HIDE DEF j
      <4>5. \A i \in DOMAIN job'[t].seen : job'[t].seen[i] = At(j.key, i)
        BY <3>2, <4>2, <4>3, <4>4
      <4> QED
        BY <2>2, <3>2, <4>2, <4>5 DEF UpToDate
    <3> QED
      BY <1>7, <3>1, <3>2, ReadStep
  <2>5. \A u \in Threads \ {t} : job'[u] = job[u]
    BY <2>2 DEF SidecarTypeOK
  <2> QED
    BY <1>2, <2>1, <2>4, <2>5
<1>8. ASSUME NEW t \in Threads, ReadFails(t), ~disturbed' PROVE HeldStill'
  BY <1>2, <1>8 DEF ReadFails, SidecarTypeOK, vars, registryVars, clusterVars
<1>9. ASSUME NEW t \in Threads, Store(t), ~disturbed' PROVE HeldStill'
  <2> DEFINE k == job[t].key
  <2>1. UNCHANGED <<object, resource, disturbed>>
    BY <1>9, StoreSets
  <2>2. /\ job[t] # Idle /\ job[t] \in Jobs /\ WellFormed(job[t])
        /\ Complete(job[t])
        /\ entries' = [entries EXCEPT ![k] = Derived(job[t])]
        /\ job' = [job EXCEPT ![t] = Idle]
    BY <1>9, StoreSets, StoreSetsEntry
  <2>3. Derived(job[t]) = Current(k)
    BY <1>9, <2>1, <2>2, CompleteIsCurrent DEF HeldStill
  <2>4. \A i \in Keys : Current(i)' = Current(i)
    BY <2>1 DEF Current, Found
  <2>5. \A j : UpToDate(j)' <=> UpToDate(j)
    BY <2>1 DEF UpToDate, At, Getting
  <2>6. \A i \in Keys : entries'[i] \in {NoList, Current(i)}
    BY <1>9, <2>1, <2>2, <2>3 DEF RegistryTypeOK, HeldStill
  <2>7. \A u \in Threads : job'[u] # Idle => job'[u] = job[u] /\ UpToDate(job[u])
    BY <1>9, <2>1, <2>2 DEF SidecarTypeOK, HeldStill
  <2> QED
    BY <2>4, <2>5, <2>6, <2>7 DEF HeldStill
<1>10. CASE ClusterSteps \/ PrimeListFails \/ \E t \in Threads : BackendUnread(t)
  BY <1>1, <1>10 DEF ClusterSteps, EditObject, EditResource, PrimeListFails,
                     BackendUnread
<1>11. CASE Restart
  <2>1. /\ entries' = [k \in Keys |-> NoList]
        /\ job' = [t \in Threads |-> Idle]
    BY <1>11 DEF Restart, Crash
  <2> QED
    BY <2>1 DEF HeldStill
<1>12. CASE LoopAlone \/ UNCHANGED allVars
  BY <1>2, <1>12, LoopAloneKeeps DEF sidecarVars, clusterVars, workVars, historyVars
<1>13. ASSUME NEW t \in Threads, GetObject(t) \/ LookUp(t) PROVE HeldStill'
  <2>1. disturbed' = disturbed \/ disturbed' = TRUE
    BY <1>13 DEF GetObject, LookUp, historyVars
  <2> QED
    BY <1>1, <1>7, <1>10, <1>13, <2>1 DEF SidecarTypeOK
<1> QED
  BY <1>1, <1>3, <1>5, <1>6, <1>8, <1>9, <1>10, <1>11, <1>12, <1>13
     DEF SidecarNext, ReconcileSteps, PrimerSteps

LEMMA HeldStillAlways == SidecarSpec => []HeldStill
<1>1. SidecarInit => HeldStill
  BY DEF SidecarInit, Init, RegistryInit, HeldStill
<1> QED
  BY <1>1, HeldStillStep, SidecarTypeAlways, RegistryTyped, PTL DEF SidecarSpec

-----------------------------------------------------------------------------
(* The first file. *)

(* Prime lists the objects of worker w. *)
Swept(w) == \E i \in DOMAIN Sweep : Sweep[i] = w

Cluster == [k \in Keys |-> Current(k)]

(* Prime has yet to see to k. *)
Unprimed(k) ==
    \/ \E i \in DOMAIN unlisted : unlisted[i] = Owner[k]
    \/ k \in listed
    \/ Works(Loop, k)

(* While the cluster holds still: until Prime is over, what is not in the
   registry yet is still to be primed; after that the registry, what a render
   read of it and what it published are complete. *)
PrimedInv ==
    ~disturbed =>
        /\ pc \in {"sync", "prime"} =>
              \A k \in Present : Unprimed(k) \/ entries[k] = Current(k)
        /\ pc \notin {"sync", "prime", "done"} => entries = Cluster
        /\ pc \in {"write", "status"} => read.entries = Cluster
        /\ ready => file.entries = Cluster

LEMMA PrimedKept ==
    ASSUME PrimedInv,
           UNCHANGED <<entries, object, resource, disturbed, pc, read, file, ready>>,
           \A k \in Keys : Unprimed(k) => Unprimed(k)'
    PROVE  PrimedInv'
<1>1. Cluster' = Cluster /\ \A k \in Keys : Current(k)' = Current(k)
  BY DEF Cluster, Current, Found
<1> QED
  BY <1>1 DEF PrimedInv, Present

LEMMA StorePrimes ==
    ASSUME SidecarTypeOK, JobsWellFormed, RegistryTypeOK, HeldStill, PrimedInv,
           NEW t \in Threads, Store(t)
    PROVE  PrimedInv'
<1> SUFFICES ASSUME ~disturbed' PROVE PrimedInv'
  BY DEF PrimedInv
<1> DEFINE j == job[t].key
<1> USE DEF SidecarTypeOK
<1>1. UNCHANGED <<object, resource, listed, unlisted, disturbed, pc, read, file, ready>>
  BY DEF Store, PrimeSet, WorkerSet, clusterVars, historyVars, loopVars, renderVars
<1>2. /\ job[t] # Idle /\ job[t] \in Jobs /\ WellFormed(job[t]) /\ Complete(job[t])
      /\ entries' = [entries EXCEPT ![j] = Derived(job[t])]
      /\ job' = [job EXCEPT ![t] = Idle]
  BY StoreSets, StoreSetsEntry
<1>3. Derived(job[t]) = Current(j)
  BY <1>1, <1>2, CompleteIsCurrent DEF HeldStill
<1>4. /\ Cluster' = Cluster
      /\ \A k \in Keys : Current(k)' = Current(k)
  BY <1>1 DEF Cluster, Current, Found
<1>5. \A k \in Keys : entries'[k] = entries[k] \/ entries'[k] = Current(k)
  BY <1>2, <1>3 DEF RegistryTypeOK
<1>6. entries = Cluster => entries' = Cluster
  BY <1>2, <1>3 DEF Cluster
<1>7. ASSUME NEW k \in Keys, Unprimed(k)
      PROVE  Unprimed(k)' \/ entries'[k] = Current(k)
  <2>1. CASE Works(Loop, k)
    <3>1. CASE t = Loop
      BY <1>2, <1>3, <2>1, <3>1 DEF Works, RegistryTypeOK
    <3>2. CASE t # Loop
      BY <1>2, <2>1, <3>2, ThreadsAssumption DEF Works, Unprimed
    <3> QED
      BY <3>1, <3>2
  <2>2. CASE ~Works(Loop, k)
    BY <1>1, <1>7, <2>2 DEF Unprimed
  <2> QED
    BY <2>1, <2>2
<1> QED
  BY <1>1, <1>4, <1>5, <1>6, <1>7 DEF PrimedInv, Present

LEMMA LoopPrimes ==
    ASSUME SafeInv, PrimedInv, LoopAlone
    PROVE  PrimedInv'
<1> SUFFICES ASSUME ~disturbed' PROVE PrimedInv'
  BY DEF PrimedInv
<1>1. UNCHANGED <<sidecarVars, entries>>
  BY LoopAloneKeeps
<1>2. UNCHANGED <<object, resource, listed, unlisted, job, disturbed>>
  BY <1>1 DEF sidecarVars, clusterVars, workVars, historyVars
<1>3. Cluster' = Cluster /\ \A k \in Keys : Current(k)' = Current(k)
  BY <1>2 DEF Cluster, Current, Found
<1>4. \A k \in Keys : Unprimed(k)' = Unprimed(k)
  BY <1>2 DEF Unprimed, Works
<1>5. CASE UNCHANGED <<pc, read, file, ready>>
  BY <1>1, <1>2, <1>4, <1>5, PrimedKept
<1>6. ASSUME UNCHANGED <<file, ready>>,
             \/ pc = "sync" /\ pc' \in {"prime", "done"}
             \/ /\ pc \notin {"sync", "prime", "done"}
                /\ pc' \notin {"sync", "prime", "write"}
                /\ pc' = "status" => pc = "write" /\ read' = read
      PROVE  PrimedInv'
  BY <1>1, <1>2, <1>3, <1>4, <1>6 DEF PrimedInv, Present
<1>7. CASE CachesSync \/ CachesDoNotSync
  BY <1>6, <1>7 DEF CachesSync, CachesDoNotSync, renderVars
<1>8. CASE DrainSignal \/ LoadBase \/ ListTemplates \/ RenderFails \/ UpdateStatus
           \/ ReceiveChange \/ Rearm \/ ReceiveTimer \/ Return
  BY <1>6, <1>8 DEF DrainSignal, LoadBase, ListTemplates, RenderFails,
     UpdateStatus, ReceiveChange, Rearm, ReceiveTimer, Return, AfterStop,
     renderVars
<1>9. CASE SnapshotRegistry
  <2>1. pc = "snapshot" /\ pc' = "write" /\ UNCHANGED <<file, ready>>
    BY <1>9 DEF SnapshotRegistry
  <2>2. read'.entries = entries
    BY <1>9 DEF SnapshotRegistry, Snapshot, SafeInv, TypeInv, TypeOK
  <2> QED
    BY <1>1, <1>2, <1>3, <2>1, <2>2 DEF PrimedInv
<1>10. CASE Write
  <2>1. /\ pc = "write" /\ pc' = "status" /\ read' = read
        /\ file' = IF AlreadyWritten THEN file ELSE read
    BY <1>10 DEF Write
  <2>2. AlreadyWritten => read = file
    BY DEF AlreadyWritten, SafeInv, MemoryMatchesDisk
  <2>3. file' = read
    BY <2>1, <2>2
  <2> QED
    BY <1>1, <1>2, <1>3, <2>1, <2>3 DEF PrimedInv
<1>11. CASE \/ \E ts \in TemplateSets : TemplateEvent(ts)
            \/ \E b \in Bases : EditBase(b)
            \/ Cancel \/ TemplateReconcile
            \/ \E w \in Workers : WorkerNotify(w)
            \/ PrimeNotify \/ TimerFires
  BY <1>5, <1>11 DEF TemplateEvent, EditBase, Cancel, TemplateReconcile,
     WorkerNotify, PrimeNotify, TimerFires, loopVars, renderVars
<1> QED
  BY <1>7, <1>8, <1>9, <1>10, <1>11 DEF LoopAlone

LEMMA PrimedStep ==
    ASSUME \A k \in Keys : Swept(Owner[k])
    PROVE  (SidecarTypeOK /\ JobsWellFormed /\ SafeInv /\ HeldStill /\ PrimedInv
            /\ [SidecarNext]_allVars) => PrimedInv'
<1> SUFFICES ASSUME SidecarTypeOK, JobsWellFormed, SafeInv, HeldStill,
                    PrimedInv, [SidecarNext]_allVars
             PROVE  PrimedInv'
  OBVIOUS
<1> USE DEF SidecarTypeOK
<1>1. CASE disturbed'
  BY <1>1 DEF PrimedInv
<1>2. CASE ClusterSteps \/ PrimeListFails \/ \E t \in Threads : BackendUnread(t)
  BY <1>1, <1>2 DEF ClusterSteps, EditObject, EditResource, PrimeListFails,
                    BackendUnread
<1>3. ASSUME UNCHANGED <<vars, object, resource, disturbed, unlisted, listed>>,
             \A k \in Keys : Works(Loop, k) => Works(Loop, k)'
      PROVE  PrimedInv'
  <2>1. UNCHANGED <<entries, pc, read, file, ready>>
    BY <1>3 DEF vars, registryVars, loopVars, renderVars
  <2> QED
    BY <1>3, <2>1, PrimedKept DEF Unprimed
<1>4. CASE \/ \E k \in Keys : DeliverEvent(k)
           \/ \E w \in Workers, r \in Resources : MapNotice(w, r) \/ MapNoticeFails(w, r)
  BY <1>3, <1>4 DEF MapNotice, MapNoticeFails, DeliverEvent, workVars, historyVars,
                    Works
<1>5. ASSUME NEW w \in Workers, NEW k \in Keys, Dequeue(w, k) PROVE PrimedInv'
  BY <1>3, <1>5, ThreadsAssumption DEF Dequeue, clusterVars, historyVars, Works
<1>6. ASSUME NEW t \in Threads, GetObject(t) \/ LookUp(t) PROVE PrimedInv'
  <2>1. UNCHANGED <<vars, object, resource, disturbed, unlisted, listed>>
    BY <1>6 DEF GetObject, LookUp, clusterVars, historyVars
  <2>2. /\ job' = [job EXCEPT ![t] = job'[t]]
        /\ job'[t] # Idle /\ job'[t].key = job[t].key
    BY <1>6, ReadStep
  <2> QED
    BY <1>3, <2>1, <2>2, ThreadsAssumption DEF Works
<1>7. ASSUME NEW t \in Threads, ReadFails(t), ~disturbed' PROVE PrimedInv'
  BY <1>3, <1>7, ThreadsAssumption DEF ReadFails, clusterVars, Works
<1>8. ASSUME NEW t \in Threads, Store(t) PROVE PrimedInv'
  BY <1>8, StorePrimes DEF SafeInv, TypeInv, TypeOK
<1>9. CASE PrimeLists
  <2>1. /\ unlisted # <<>> /\ listed = {} /\ job[Loop] = Idle
        /\ listed' = {k \in Present : Owner[k] = Head(unlisted)}
        /\ unlisted' = Tail(unlisted)
        /\ UNCHANGED <<vars, object, resource, disturbed, job>>
    BY <1>9 DEF PrimeLists, Free, clusterVars, historyVars
  <2>2. ASSUME NEW k \in Present, Unprimed(k) PROVE Unprimed(k)'
    <3>1. PICK i \in DOMAIN unlisted : unlisted[i] = Owner[k]
      BY <2>1, <2>2 DEF Unprimed, Works
    <3>2. CASE i = 1
      BY <2>1, <3>1, <3>2 DEF Unprimed
    <3>3. CASE i # 1
      <4>1. i - 1 \in DOMAIN Tail(unlisted)
            /\ Tail(unlisted)[i - 1] = unlisted[i]
        BY <2>1, <3>1, <3>3
      <4> QED
        BY <2>1, <3>1, <4>1 DEF Unprimed
    <3> QED
      BY <3>2, <3>3
  <2>3. UNCHANGED <<entries, pc, read, file, ready>>
    BY <2>1 DEF vars, registryVars, loopVars, renderVars
  <2>4. Cluster' = Cluster /\ \A k \in Keys : Current(k)' = Current(k)
    BY <2>1 DEF Cluster, Current, Found
  <2> QED
    BY <2>1, <2>2, <2>3, <2>4 DEF PrimedInv, Present
<1>10. ASSUME NEW k \in Keys, PrimeReconciles(k) PROVE PrimedInv'
  <2>1. /\ job[Loop] = Idle
        /\ listed' = listed \ {k}
        /\ job' = [job EXCEPT ![Loop] = NewJob(k)]
        /\ UNCHANGED <<vars, object, resource, disturbed, unlisted>>
    BY <1>10 DEF PrimeReconciles, Free, clusterVars, historyVars
  <2>3. Works(Loop, k)'
    BY <2>1, NewJobType, ThreadsAssumption DEF Works
  <2>4. \A j \in Keys : Unprimed(j) => Unprimed(j)'
    BY <2>1, <2>3 DEF Unprimed, Works
  <2>5. UNCHANGED <<entries, pc, read, file, ready>>
    BY <2>1 DEF vars, registryVars, loopVars, renderVars
  <2> QED
    BY <2>1, <2>4, <2>5, PrimedKept
<1>11. CASE PrimeEnds
  <2>1. /\ pc = "prime" /\ pc' = "drain"
        /\ job[Loop] = Idle /\ listed = {} /\ unlisted = <<>>
        /\ UNCHANGED <<entries, object, resource, disturbed, read, file, ready>>
    BY <1>11 DEF PrimeEnds, PrimeReturns, Free, registryVars, renderVars,
       sidecarVars, clusterVars, historyVars
  <2>2. \A k \in Keys : ~Unprimed(k)
    BY <2>1 DEF Unprimed, Works
  <2>3. ASSUME ~disturbed PROVE entries = Cluster
    <3>1. \A k \in Keys : entries[k] = Current(k)
      BY <2>1, <2>2, <2>3 DEF PrimedInv, HeldStill, Present, Current
    <3> QED
      BY <3>1 DEF Cluster, SafeInv, TypeInv, TypeOK, RegistryTypeOK
  <2>4. Cluster' = Cluster
    BY <2>1 DEF Cluster, Current, Found
  <2> QED
    BY <2>1, <2>3, <2>4 DEF PrimedInv
<1>12. CASE Restart
  <2>1. pc' = "sync" /\ ~ready' /\ unlisted' = Sweep
    BY <1>12 DEF Restart, Crash
  <2>2. \A k \in Keys : Unprimed(k)'
    BY <2>1 DEF Unprimed, Swept
  <2> QED
    BY <2>1, <2>2 DEF PrimedInv, Present
<1>13. CASE LoopAlone
  BY <1>13, LoopPrimes
<1>14. CASE UNCHANGED allVars
  BY <1>3, <1>14 DEF allVars, sidecarVars, clusterVars, workVars, historyVars, Works
<1> QED
  BY <1>1, <1>2, <1>4, <1>5, <1>6, <1>7, <1>8, <1>9, <1>10, <1>11, <1>12, <1>13,
     <1>14 DEF SidecarNext, ReconcileSteps, PrimerSteps

(* When Prime lists every kind that has a controller, as main.go wires it, the
   first file, and every later one while the cluster holds still, is complete. *)
THEOREM FirstFileIsComplete ==
    ASSUME \A k \in Keys : Swept(Owner[k])
    PROVE  SidecarSpec => []FirstFileComplete
<1>1. SidecarInit => PrimedInv
  BY DEF SidecarInit, Init, PrimedInv, Unprimed, Swept, Present
<1>2. SidecarSpec => []SafeInv
  BY SidecarImplementsLoop, SafeAlways, PTL
<1>4. PrimedInv => FirstFileComplete
  BY DEF PrimedInv, FirstFileComplete, Cluster
<1> QED
  BY <1>1, <1>2, <1>4, SidecarTypeAlways, HeldStillAlways, PrimedStep, PTL
     DEF SidecarSpec

=============================================================================
