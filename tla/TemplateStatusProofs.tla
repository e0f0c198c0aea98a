------------------------ MODULE TemplateStatusProofs ------------------------
(* Proofs about TemplateStatus, for any bounds. *)
EXTENDS TemplateStatus, SequenceTheorems, TLAPS

(* The watch ends in what the server has. *)
WatchLeadsToServer ==
    /\ watch = <<>> => cache = server
    /\ watch # <<>> => watch[Len(watch)] = server

(* A render about to write its status, with no other on its way, read the
   template as it is. *)
RenderIsFresh ==
    pc = "status" /\ ~wake /\ watch = <<>> =>
        read = server /\ want = Wanted(server)

StatusInv == TypeOK /\ WatchLeadsToServer /\ RenderIsFresh /\ QuietMeansTrue

LEMMA WantedType ==
    ASSUME TypeOK, NEW tpl \in Templates
    PROVE  Wanted(tpl) \in Statuses
<1>1. tpl.generation \in 0..MaxGeneration /\ tpl.valid \in BOOLEAN
  BY BoundsAssumption DEF Templates
<1>2. (tpl.valid /\ parents) \in BOOLEAN
  OBVIOUS
<1>3. ReadyCondition(tpl) \in Conditions
  BY <1>1, <1>2 DEF ReadyCondition, Conditions
<1> QED
  BY <1>1, <1>3 DEF TypeOK, Wanted, Statuses

(* A patch leaves a status, whatever was read and wanted. *)
LEMMA PatchedType ==
    ASSUME TypeOK, NEW have \in Statuses, NEW wanted \in Statuses
    PROVE  Patched(have, wanted) \in Statuses
<1> DEFINE time == TransitionTime(have.condition, wanted.condition)
           condition == [wanted.condition EXCEPT !.since = time]
<1>1. server.status \in Statuses
  BY DEF TypeOK, Templates
<1>2. time \in 0..1
  BY <1>1 DEF TransitionTime, Statuses, Conditions
<1> HIDE DEF time
<1>3. condition \in Conditions
  BY <1>2 DEF Statuses, Conditions
<1> HIDE DEF condition
<1>4. Patched(have, wanted) =
        [observed |-> Applied(have.observed, wanted.observed, server.status.observed),
         usedBy |-> Applied(have.usedBy, wanted.usedBy, server.status.usedBy),
         condition |-> Applied(have.condition, condition, server.status.condition)]
  BY DEF Patched, condition, time
<1> QED
  BY <1>1, <1>3, <1>4 DEF Statuses, Applied

(* What a patch that changes nothing was asked to write was there already. *)
LEMMA NoOpPatch ==
    ASSUME TypeOK, NEW wanted \in Statuses,
           Patched(server.status, wanted) = server.status
    PROVE  StatusUnchanged(server.status, wanted)
<1> DEFINE have == server.status
           time == TransitionTime(have.condition, wanted.condition)
           condition == [wanted.condition EXCEPT !.since = time]
<1>1. have \in Statuses
  BY DEF TypeOK, Templates
<1>2. /\ condition.ready = wanted.condition.ready
      /\ condition.generation = wanted.condition.generation
  BY DEF Statuses, Conditions
<1> HIDE DEF condition
<1>3. Patched(have, wanted) =
        [observed |-> Applied(have.observed, wanted.observed, have.observed),
         usedBy |-> Applied(have.usedBy, wanted.usedBy, have.usedBy),
         condition |-> Applied(have.condition, condition, have.condition)]
  BY DEF Patched, condition
<1>4. /\ wanted.observed = have.observed
      /\ wanted.usedBy = have.usedBy
      /\ condition = have.condition
  BY <1>1, <1>3 DEF Applied
<1> QED
  BY <1>2, <1>4 DEF StatusUnchanged, SameCondition

(* A status that needs no update is true. *)
LEMMA UnchangedIsTrue ==
    ASSUME StatusUnchanged(server.status, Wanted(server))
    PROVE  StatusIsTrue
BY DEF StatusUnchanged, SameCondition, Wanted, ReadyCondition, StatusIsTrue

-----------------------------------------------------------------------------
LEMMA StatusInit == Init => StatusInv
<1> SUFFICES ASSUME Init PROVE StatusInv
  OBVIOUS
<1>1. server \in Templates
  <2>1. PICK v \in BOOLEAN : server = Created(v)
    BY DEF Init
  <2>2. Created(v) \in Templates
    BY BoundsAssumption DEF Created, Templates, Statuses, Conditions
  <2> QED
    BY <2>1, <2>2
<1>2. server.status \in Statuses
  BY <1>1 DEF Templates
<1>3. watch \in Seq(Templates)
  BY DEF Init
<1>4. wake \in BOOLEAN /\ unwritten \in BOOLEAN
  BY DEF Init
<1>5. TypeOK
  BY <1>1, <1>2, <1>3, <1>4 DEF Init, TypeOK
<1>6. WatchLeadsToServer /\ RenderIsFresh /\ QuietMeansTrue
  BY DEF Init, WatchLeadsToServer, RenderIsFresh, QuietMeansTrue
<1> QED
  BY <1>5, <1>6 DEF StatusInv

(* Taking the first element off a sequence leaves its last one, if another one
   is left. *)
LEMMA TailKeepsLast ==
    ASSUME NEW S, NEW seq \in Seq(S), seq # <<>>
    PROVE  /\ Head(seq) \in S /\ Tail(seq) \in Seq(S)
           /\ Tail(seq) = <<>> => Head(seq) = seq[Len(seq)]
           /\ Tail(seq) # <<>> => Tail(seq)[Len(Tail(seq))] = seq[Len(seq)]
<1>1. /\ Head(seq) \in S /\ Tail(seq) \in Seq(S)
      /\ Len(Tail(seq)) = Len(seq) - 1
      /\ \A i \in 1..Len(Tail(seq)) : Tail(seq)[i] = seq[i + 1]
  BY HeadTailProperties
<1>2. CASE Tail(seq) = <<>>
  <2>1. Len(Tail(seq)) = 0
    BY <1>1, <1>2, EmptySeq
  <2>2. Len(seq) = 1
    BY <1>1, <2>1, LenProperties
  <2> QED
    BY <1>1, <1>2, <2>2
<1>3. CASE Tail(seq) # <<>>
  <2> DEFINE n == Len(Tail(seq))
  <2>1. n \in Nat /\ n # 0
    BY <1>1, <1>3, EmptySeq
  <2>2. n \in 1..n /\ n + 1 = Len(seq)
    BY <1>1, <2>1
  <2>3. Tail(seq)[n] = seq[n + 1]
    BY <1>1, <2>2
  <2> QED
    BY <1>1, <1>3, <2>2, <2>3
<1> QED
  BY <1>2, <1>3

LEMMA StatusStep == StatusInv /\ [Next]_vars => StatusInv'
<1> SUFFICES ASSUME StatusInv, [Next]_vars PROVE StatusInv'
  OBVIOUS
<1> USE DEF StatusInv
<1>1. server \in Templates /\ cache \in Templates /\ watch \in Seq(Templates)
  BY DEF TypeOK
<1>2. ASSUME NEW v \in BOOLEAN, EditSpec(v) PROVE StatusInv'
  <2>1. server' \in Templates
    <3>1. server' = [generation |-> server.generation + 1, valid |-> v,
                     status |-> server.status]
      BY <1>1, <1>2 DEF EditSpec, Templates
    <3>2. server.generation + 1 \in 1..MaxGeneration
      BY <1>1, <1>2, BoundsAssumption DEF EditSpec, Templates
    <3>3. server.status \in Statuses
      BY <1>1 DEF Templates
    <3> QED
      BY <3>1, <3>2, <3>3 DEF Templates
  <2>2. /\ watch' \in Seq(Templates)
        /\ watch' # <<>>
        /\ watch'[Len(watch')] = server'
    BY <1>1, <1>2, <2>1 DEF EditSpec
  <2> QED
    BY <1>2, <2>1, <2>2 DEF EditSpec, TypeOK, WatchLeadsToServer, RenderIsFresh,
                            QuietMeansTrue
<1>3. ASSUME NEW u \in 0..1, NEW p \in BOOLEAN, ChangeElsewhere(u, p)
      PROVE  StatusInv'
  BY <1>3 DEF ChangeElsewhere, TypeOK, WatchLeadsToServer, RenderIsFresh,
              QuietMeansTrue
<1>4. CASE Deliver
  <2>1. /\ Head(watch) \in Templates /\ Tail(watch) \in Seq(Templates)
        /\ Tail(watch) = <<>> => Head(watch) = watch[Len(watch)]
        /\ Tail(watch) # <<>> => Tail(watch)[Len(Tail(watch))] = watch[Len(watch)]
    BY <1>1, <1>4, TailKeepsLast DEF Deliver
  <2>2. watch[Len(watch)] = server
    BY <1>4 DEF Deliver, WatchLeadsToServer
  <2>3. WatchLeadsToServer'
    BY <1>4, <2>1, <2>2 DEF Deliver, WatchLeadsToServer
  <2>4. TypeOK'
    BY <1>4, <2>1 DEF Deliver, TypeOK
  <2> QED
    BY <1>4, <2>3, <2>4 DEF Deliver, RenderIsFresh, QuietMeansTrue
<1>5. CASE Render
  <2>1. Wanted(cache) \in Statuses
    BY <1>1, WantedType
  <2>2. TypeOK'
    BY <1>5, <2>1 DEF Render, TypeOK
  <2>3. Wanted(server)' = Wanted(server)
    BY <1>5 DEF Render, Wanted, ReadyCondition
  <2> QED
    BY <1>5, <2>2, <2>3 DEF Render, WatchLeadsToServer, RenderIsFresh,
                            QuietMeansTrue
<1>6. ASSUME EndUpdate, UNCHANGED <<server, watch>>, unwritten' \in BOOLEAN
      PROVE  /\ TypeOK' /\ WatchLeadsToServer' /\ RenderIsFresh'
             /\ Wanted(server)' = Wanted(server)
  <2>1. Wanted(server)' = Wanted(server)
    BY <1>6 DEF EndUpdate, Wanted, ReadyCondition
  <2> QED
    BY <1>6, <2>1 DEF EndUpdate, TypeOK, WatchLeadsToServer, RenderIsFresh
<1>7. CASE SkipUpdate
  <2>1. EndUpdate /\ UNCHANGED <<server, watch>> /\ unwritten' \in BOOLEAN
    BY <1>7 DEF SkipUpdate
  <2>2. QuietMeansTrue'
    <3> SUFFICES ASSUME ~wake, watch = <<>>
                 PROVE  StatusIsTrue'
      BY <2>1 DEF QuietMeansTrue, EndUpdate
    <3>1. StatusUnchanged(server.status, Wanted(server))
      BY <1>7 DEF SkipUpdate, RenderIsFresh
    <3>2. StatusIsTrue
      BY <3>1, UnchangedIsTrue
    <3> QED
      BY <2>1, <3>2 DEF EndUpdate, StatusIsTrue
  <2> QED
    BY <1>6, <2>1, <2>2
<1>8. CASE PatchStatus
  <2> DEFINE patched == Patched(read.status, want)
  <2>1. patched \in Statuses
    <3>1. read.status \in Statuses /\ want \in Statuses
      BY DEF TypeOK, Templates
    <3> QED
      BY <3>1, PatchedType
  <2> HIDE DEF patched
  <2>2. server' = [server EXCEPT !.status = patched]
    BY <1>8 DEF PatchStatus, patched
  <2>3. server' \in Templates /\ server'.status = patched
    BY <1>1, <2>1, <2>2 DEF Templates
  <2>4. CASE server' = server
    <3>1. EndUpdate /\ UNCHANGED <<server, watch>> /\ unwritten' \in BOOLEAN
      BY <1>8, <2>4 DEF PatchStatus
    <3>2. QuietMeansTrue'
      <4> SUFFICES ASSUME ~wake, watch = <<>>
                   PROVE  StatusIsTrue'
        BY <3>1 DEF QuietMeansTrue, EndUpdate
      <4>1. read = server /\ want = Wanted(server)
        BY <1>8 DEF PatchStatus, RenderIsFresh
      <4>2. Patched(server.status, Wanted(server)) = server.status
        BY <2>3, <2>4, <4>1 DEF patched
      <4>3. StatusUnchanged(server.status, Wanted(server))
        BY <1>1, <4>2, WantedType, NoOpPatch
      <4>4. StatusIsTrue
        BY <4>3, UnchangedIsTrue
      <4> QED
        BY <3>1, <4>4 DEF EndUpdate, StatusIsTrue
    <3> QED
      BY <1>6, <3>1, <3>2
  <2>5. CASE server' # server
    <3>1. watch' = Append(watch, server')
      BY <1>8, <2>5 DEF PatchStatus
    <3>2. /\ watch' \in Seq(Templates)
          /\ watch' # <<>>
          /\ watch'[Len(watch')] = server'
      BY <1>1, <2>3, <3>1
    <3>3. EndUpdate /\ unwritten' = FALSE
      BY <1>8 DEF PatchStatus
    <3> QED
      BY <2>3, <3>2, <3>3 DEF EndUpdate, TypeOK, WatchLeadsToServer, RenderIsFresh,
                              QuietMeansTrue
  <2> QED
    BY <2>4, <2>5
<1>9. CASE PatchFails
  <2>1. /\ EndUpdate /\ UNCHANGED <<server, watch>>
        /\ unwritten' = TRUE
    BY <1>9 DEF PatchFails
  <2> QED
    BY <1>6, <2>1 DEF QuietMeansTrue
<1>10. CASE UNCHANGED vars
  <2>1. Wanted(server)' = Wanted(server)
    BY <1>10 DEF vars, Wanted, ReadyCondition
  <2> QED
    BY <1>10, <2>1 DEF vars, TypeOK, WatchLeadsToServer, RenderIsFresh,
                       QuietMeansTrue, StatusIsTrue
<1>11. CASE RenderFails
  BY <1>11 DEF RenderFails, TypeOK, WatchLeadsToServer, RenderIsFresh, QuietMeansTrue
<1> QED
  BY <1>2, <1>3, <1>4, <1>5, <1>7, <1>8, <1>9, <1>10, <1>11
     DEF Next, Surroundings, RenderStep

LEMMA StatusAlways == Spec => []StatusInv
BY StatusInit, StatusStep, PTL DEF Spec

(* The template's records keep their types. *)
THEOREM TypeCorrect == Spec => []TypeOK
<1>1. StatusInv => TypeOK
  BY DEF StatusInv
<1> QED
  BY StatusAlways, <1>1, PTL

(* Once the loop is quiet, and its latest render and patch did not fail, the
   status on the server is true, although it may have been computed from, and
   patched against, a version long replaced. *)
THEOREM QuietStatusIsTrue == Spec => []QuietMeansTrue
<1>1. StatusInv => QuietMeansTrue
  BY DEF StatusInv
<1> QED
  BY StatusAlways, <1>1, PTL
=============================================================================
