-------------------------- MODULE RenderLoopProofs --------------------------
(* Proofs about RenderLoop, for any keys, lists, workers and templates. *)
EXTENDS RenderLoop, TLAPS

(* The parts of a render's input that have been read by the time the loop is
   at a given point are inputs the system really had. *)
ReadSoFar ==
    /\ pc \in {"list", "snapshot", "write", "status"} => read.base \in Bases
    /\ pc \in {"snapshot", "write", "status"} => read.templates \in TemplateSets
    /\ pc \in {"write", "status"} => read.entries \in EntryMaps

TypeInv == TypeOK /\ ReadSoFar

(* By the time a render writes, its input is a whole content. *)
LEMMA ReadIsContent ==
    ASSUME TypeInv, pc \in {"write", "status"}
    PROVE  read \in Contents /\ read # None
<1>1. read = [base |-> read.base, templates |-> read.templates,
              entries |-> read.entries]
  BY DEF TypeInv, TypeOK
<1>2. /\ read.base \in Bases
      /\ read.templates \in TemplateSets
      /\ read.entries \in EntryMaps
  BY DEF TypeInv, ReadSoFar
<1>3. read \in Contents
  BY <1>1, <1>2 DEF Contents
<1> QED
  BY <1>3, NoneAssumption

(* A Set by a known thread keeps the registry's type. *)
LEMMA SetType ==
    ASSUME RegistryTypeOK, NEW t \in Threads, NEW k \in Keys,
           NEW list \in Lists \cup {NoList}, Set(t, k, list)
    PROVE  RegistryTypeOK'
BY DEF RegistryTypeOK, Set, registryVars

LEMMA TypeInit == Init => TypeInv
<1> SUFFICES ASSUME Init PROVE TypeInv
  OBVIOUS
<1>1. RegistryTypeOK
  BY DEF Init, RegistryInit, RegistryTypeOK
<1>2. read \in [base: Bases \cup {None}, templates: TemplateSets \cup {None},
               entries: EntryMaps \cup {None}]
  BY DEF Init, NothingRead
<1> QED
  BY <1>1, <1>2 DEF Init, TypeInv, TypeOK, ReadSoFar

LEMMA TypeStep == TypeInv /\ [Next]_vars => TypeInv'
<1> SUFFICES ASSUME TypeInv, [Next]_vars PROVE TypeInv'
  OBVIOUS
<1> USE DEF TypeInv, TypeOK, ReadSoFar
<1>1. ASSUME NEW w \in Workers, NEW k \in Keys,
             NEW list \in Lists \cup {NoList}, WorkerSet(w, k, list)
      PROVE  TypeInv'
  <2>1. RegistryTypeOK'
    BY <1>1, ThreadsAssumption, SetType DEF WorkerSet
  <2> QED
    BY <1>1, <2>1 DEF WorkerSet, inputVars, loopVars, timerVars, renderVars
<1>2. ASSUME NEW ts \in TemplateSets, TemplateEvent(ts) PROVE TypeInv'
  BY <1>2 DEF TemplateEvent, registryVars, RegistryTypeOK, loopVars, timerVars,
              renderVars
<1>3. ASSUME NEW b \in Bases, EditBase(b) PROVE TypeInv'
  BY <1>3 DEF EditBase, registryVars, RegistryTypeOK, loopVars, timerVars,
              renderVars
<1>4. CASE Cancel
  BY <1>4 DEF Cancel, registryVars, RegistryTypeOK, loopVars, timerVars,
              renderVars
<1>5. CASE Crash
  BY <1>5 DEF Crash, RegistryTypeOK, NothingRead
<1>6. CASE TemplateReconcile
  <2>1. RegistryTypeOK'
    BY <1>6 DEF TemplateReconcile, Touch, RegistryTypeOK
  <2>2. touchDue' \in BOOLEAN
    BY <1>6 DEF TemplateReconcile
  <2>3. UNCHANGED <<templates, base, cancelled, loopVars>>
    BY <1>6 DEF TemplateReconcile
  <2> QED
    BY <2>1, <2>2, <2>3 DEF loopVars, timerVars, renderVars
<1>7. ASSUME NEW t \in Threads, Notify(t), UNCHANGED <<inputVars, loopVars>>
      PROVE  TypeInv'
  BY <1>7 DEF Notify, RegistryTypeOK, inputVars, loopVars, timerVars, renderVars
<1>8. CASE CachesSync \/ CachesDoNotSync
  BY <1>8 DEF CachesSync, CachesDoNotSync, registryVars, RegistryTypeOK,
              inputVars, timerVars, renderVars
<1>9. ASSUME NEW k \in Keys, NEW list \in Lists \cup {NoList}, PrimeSet(k, list)
      PROVE  TypeInv'
  <2>1. RegistryTypeOK'
    BY <1>9, ThreadsAssumption, SetType DEF PrimeSet
  <2> QED
    BY <1>9, <2>1 DEF PrimeSet, inputVars, loopVars, timerVars, renderVars
<1>10. ASSUME NEW outcome \in {"ok", "failed"}, PrimeReturns(outcome)
       PROVE  TypeInv'
  BY <1>10 DEF PrimeReturns, registryVars, RegistryTypeOK, inputVars, timerVars,
               renderVars
<1>11. CASE DrainSignal
  <2>1. RegistryTypeOK'
    BY <1>11 DEF DrainSignal, RegistryTypeOK
  <2>2. pc' = "load" /\ failed' \in BOOLEAN
    BY <1>11 DEF DrainSignal
  <2>3. UNCHANGED <<inputVars, primed, timerVars, read, file, last, ready>>
    BY <1>11 DEF DrainSignal
  <2> QED
    BY <2>1, <2>2, <2>3 DEF inputVars, timerVars
<1>12. CASE LoadBase
  BY <1>12 DEF LoadBase, registryVars, RegistryTypeOK, inputVars, timerVars
<1>13. CASE ListTemplates
  BY <1>13 DEF ListTemplates, registryVars, RegistryTypeOK, inputVars, timerVars
<1>14. CASE SnapshotRegistry
  <2>1. entries \in EntryMaps
    BY DEF RegistryTypeOK, EntryMaps
  <2> QED
    BY <1>14, <2>1 DEF SnapshotRegistry, Snapshot, registryVars, RegistryTypeOK,
                       inputVars, timerVars
<1>15. CASE Write
  <2>1. read \in Contents
    BY <1>15, ReadIsContent DEF Write
  <2> QED
    BY <1>15, <2>1 DEF Write, registryVars, RegistryTypeOK, inputVars, timerVars
<1>16. CASE RenderFails
  BY <1>16 DEF RenderFails, registryVars, RegistryTypeOK, inputVars, timerVars
<1>17. CASE UpdateStatus
  <2>1. RegistryTypeOK'
    BY <1>17 DEF UpdateStatus, registryVars, RegistryTypeOK
  <2>2. touchDue' \in BOOLEAN
    BY <1>17 DEF UpdateStatus
  <2> QED
    BY <1>17, <2>1, <2>2 DEF UpdateStatus, timerVars, renderVars
<1>18. CASE ReceiveChange
  <2>1. RegistryTypeOK'
    BY <1>18 DEF ReceiveChange, TakeSignal, RegistryTypeOK
  <2> QED
    BY <1>18, <2>1 DEF ReceiveChange, AfterStop, inputVars, renderVars
<1>19. CASE Rearm
  BY <1>19 DEF Rearm, registryVars, RegistryTypeOK, inputVars, renderVars
<1>20. CASE TimerFires
  <2>1. RegistryTypeOK' /\ timer' = "fired"
    BY <1>20 DEF TimerFires, registryVars, RegistryTypeOK
  <2>2. UNCHANGED <<inputVars, pc, primed, pending, renderVars>>
    BY <1>20 DEF TimerFires
  <2>3. TypeOK'
    BY <2>1, <2>2 DEF inputVars, renderVars
  <2>4. ReadSoFar'
    BY <2>2 DEF renderVars
  <2> QED
    BY <2>3, <2>4
<1>21. CASE ReceiveTimer
  <2>1. RegistryTypeOK'
    BY <1>21 DEF ReceiveTimer, registryVars, RegistryTypeOK
  <2>2. /\ pc' = "load" /\ timer' = "stopped"
        /\ pending' \in BOOLEAN /\ failed' \in BOOLEAN
    BY <1>21 DEF ReceiveTimer
  <2>3. UNCHANGED <<inputVars, primed, read, file, last, ready>>
    BY <1>21 DEF ReceiveTimer
  <2> QED
    BY <2>1, <2>2, <2>3 DEF inputVars
<1>22. CASE Return
  BY <1>22 DEF Return, AfterStop, registryVars, RegistryTypeOK, inputVars,
               renderVars
<1>23. CASE UNCHANGED vars
  BY <1>23 DEF vars, registryVars, RegistryTypeOK, inputVars, loopVars,
               timerVars, renderVars
<1> QED
  BY <1>1, <1>2, <1>3, <1>4, <1>5, <1>6, <1>7, <1>8, <1>9, <1>10, <1>11, <1>12,
     <1>13, <1>14, <1>15, <1>16, <1>17, <1>18, <1>19, <1>20, <1>21, <1>22, <1>23,
     ThreadsAssumption
  DEF Next, Surroundings, Wakers, LoopStep, WorkerNotify, PrimeNotify

(* Every variable always has its type (TypeOK), and what is being rendered was
   really read. *)
THEOREM TypeCorrect == Spec => [](TypeOK /\ ReadSoFar)
<1>1. Init => TypeInv
  BY TypeInit
<1>2. TypeInv /\ [Next]_vars => TypeInv'
  BY TypeStep
<1> QED
  BY <1>1, <1>2, PTL DEF Spec, TypeInv

-----------------------------------------------------------------------------
(* The timer is armed exactly while Start believes it is, except between the
   two halves of its re-arming and after the loop has returned. *)
TimerInv ==
    /\ TimerNeverBlocks
    /\ pc \notin {"rearm", "done"} => (pending <=> timer # "stopped")

LEMMA TimerStep == TypeInv /\ TimerInv /\ [Next]_vars => TimerInv'
<1> SUFFICES ASSUME TypeInv, TimerInv, [Next]_vars PROVE TimerInv'
  OBVIOUS
<1> USE DEF TimerInv, TimerNeverBlocks
<1>1. CASE UNCHANGED <<pc, pending, timer>>
  BY <1>1
<1>2. CASE Surroundings
  BY <1>2 DEF Surroundings, WorkerSet, TemplateEvent, EditBase, Cancel, Crash,
              loopVars, timerVars
<1>3. CASE Wakers
  BY <1>3 DEF Wakers, TemplateReconcile, WorkerNotify, loopVars, timerVars
<1>4. CASE /\ UNCHANGED timerVars
           /\ pc \notin {"rearm", "done"}
           /\ pc' # "stuck"
  BY <1>4 DEF timerVars
<1>5. CASE ReceiveChange
  BY <1>5 DEF ReceiveChange, AfterStop, StopReturns
<1>6. CASE Rearm
  BY <1>6 DEF Rearm
<1>7. CASE TimerFires
  BY <1>7 DEF TimerFires
<1>8. CASE ReceiveTimer
  BY <1>8 DEF ReceiveTimer
<1>9. CASE Return
  BY <1>9 DEF Return, AfterStop, StopReturns
<1>10. CASE LoopStep
  BY <1>1, <1>4, <1>5, <1>6, <1>8, <1>9, <1>10
  DEF LoopStep, CachesSync, CachesDoNotSync, PrimeSet, PrimeNotify,
      PrimeReturns, DrainSignal, LoadBase, ListTemplates, SnapshotRegistry,
      Write, RenderFails, UpdateStatus, loopVars, timerVars
<1> QED
  BY <1>1, <1>2, <1>3, <1>7, <1>10 DEF Next, vars, loopVars, timerVars

-----------------------------------------------------------------------------
(* A step that leaves no wake-up coming has changed neither the registry nor
   the templates and found none coming, unless the loop is about to read both
   anew. *)
LEMMA WakeStep ==
    ASSUME TypeInv, TimerInv, [Next]_vars
    PROVE  \/ WakeComing'
           \/ ~WakeComing /\ UNCHANGED <<entries, templates>>
           \/ pc' \in {"sync", "load"}
<1> DEFINE Goal == \/ WakeComing'
                   \/ ~WakeComing /\ UNCHANGED <<entries, templates>>
                   \/ pc' \in {"sync", "load"}
<1>1. CASE /\ UNCHANGED <<registryVars, templates, touchDue, pending>>
           /\ pc # "rearm"
  BY <1>1 DEF registryVars, WakeComing
<1>2. CASE UNCHANGED <<registryVars, templates, touchDue, pending, pc>>
  BY <1>2 DEF registryVars, WakeComing
<1>3. ASSUME NEW t \in Threads, NEW k \in Keys, NEW list \in Lists \cup {NoList},
             Set(t, k, list), UNCHANGED <<inputVars, loopVars>>
      PROVE  Goal
  <2>1. UNCHANGED registryVars \/ owing' # {}
    BY <1>3 DEF Set
  <2> QED
    BY <2>1, <1>2, <1>3 DEF inputVars, loopVars, timerVars, WakeComing, Goal
<1>4. ASSUME NEW t \in Threads, Notify(t) PROVE Goal
  BY <1>4 DEF Notify, WakeComing, Goal
<1>5. ASSUME NEW ts \in TemplateSets, TemplateEvent(ts) PROVE Goal
  BY <1>5 DEF TemplateEvent, WakeComing, Goal
<1>6. CASE TemplateReconcile
  BY <1>6 DEF TemplateReconcile, Touch, WakeComing
<1>7. CASE Crash \/ DrainSignal \/ ReceiveTimer
  BY <1>7 DEF Crash, DrainSignal, ReceiveTimer
<1>8. CASE UpdateStatus
  <2>1. CASE touchDue' = TRUE
    BY <2>1 DEF WakeComing
  <2>2. CASE touchDue' = touchDue
    BY <1>1, <1>8, <2>2 DEF UpdateStatus, timerVars
  <2> QED
    BY <1>8, <2>1, <2>2 DEF UpdateStatus
<1>9. CASE ReceiveChange
  <2>1. pc' = "rearm"
    BY <1>9 DEF ReceiveChange, AfterStop, StopReturns, TimerInv
  <2> QED
    BY <2>1 DEF WakeComing
<1>10. CASE Rearm
  BY <1>10 DEF Rearm, WakeComing
<1>11. CASE Surroundings
  <2>1. CASE Cancel \/ \E b \in Bases : EditBase(b)
    BY <1>2, <2>1 DEF Cancel, EditBase, loopVars, timerVars
  <2> QED
    BY <1>3, <1>5, <1>7, <1>11, <2>1, ThreadsAssumption
    DEF Surroundings, WorkerSet
<1>12. CASE Wakers
  BY <1>4, <1>6, <1>12, ThreadsAssumption DEF Wakers, WorkerNotify
<1>13. CASE LoopStep
  <2>1. CASE \E k \in Keys, list \in Lists \cup {NoList} : PrimeSet(k, list)
    BY <1>3, <2>1, ThreadsAssumption DEF PrimeSet
  <2>2. CASE PrimeNotify
    BY <1>4, <2>2, ThreadsAssumption DEF PrimeNotify
  <2>3. CASE \/ CachesSync \/ CachesDoNotSync
             \/ \E outcome \in {"ok", "failed"} : PrimeReturns(outcome)
             \/ LoadBase \/ ListTemplates \/ SnapshotRegistry \/ Write
             \/ RenderFails \/ Return
    BY <1>1, <2>3
    DEF CachesSync, CachesDoNotSync, PrimeReturns, LoadBase, ListTemplates,
        SnapshotRegistry, Write, RenderFails, Return, inputVars, timerVars
  <2> QED
    BY <1>7, <1>8, <1>9, <1>10, <1>13, <2>1, <2>2, <2>3 DEF LoopStep
<1>14. CASE TimerFires
  BY <1>2, <1>14 DEF TimerFires, inputVars
<1>15. CASE UNCHANGED vars
  BY <1>2, <1>15 DEF vars, inputVars, loopVars, timerVars
<1> QED
  BY <1>11, <1>12, <1>13, <1>14, <1>15 DEF Next

-----------------------------------------------------------------------------
(* What the loop has read is what there is, or something will wake it again;
   what it has written is what it has read. *)
FreshReads ==
    /\ pc \in {"snapshot", "write", "status"} =>
          read.templates = templates \/ WakeComing
    /\ pc \in {"write", "status"} => read.entries = entries \/ WakeComing
    /\ pc = "status" => file = read

SafeInv == TypeInv /\ TimerInv /\ MemoryMatchesDisk /\ FreshReads
           /\ FileFollowsInputs

(* Writer.last stays what the file holds. *)
LEMMA MemoryStep ==
    TypeInv /\ MemoryMatchesDisk /\ [Next]_vars => MemoryMatchesDisk'
<1> SUFFICES ASSUME TypeInv, MemoryMatchesDisk, [Next]_vars
             PROVE  MemoryMatchesDisk'
  OBVIOUS
<1>1. CASE UNCHANGED <<file, last, ready>>
  BY <1>1 DEF MemoryMatchesDisk
<1>2. CASE Write
  <2>1. read # None
    BY <1>2, ReadIsContent DEF Write
  <2>2. file' = read /\ last' = read
    BY <1>2 DEF Write, AlreadyWritten, MemoryMatchesDisk
  <2> QED
    BY <2>1, <2>2 DEF MemoryMatchesDisk
<1>3. CASE Crash
  <2>1. last' = None /\ ~ready'
    BY <1>3 DEF Crash
  <2> QED
    BY <2>1 DEF MemoryMatchesDisk
<1>4. CASE Surroundings \/ Wakers \/ TimerFires
  BY <1>1, <1>3, <1>4
  DEF Surroundings, Wakers, WorkerSet, TemplateEvent, EditBase, Cancel,
      TemplateReconcile, WorkerNotify, TimerFires, loopVars, renderVars
<1>5. CASE LoopStep
  BY <1>1, <1>2, <1>5
  DEF LoopStep, CachesSync, CachesDoNotSync, PrimeSet, PrimeNotify,
      PrimeReturns, DrainSignal, LoadBase, ListTemplates, SnapshotRegistry,
      RenderFails, UpdateStatus, ReceiveChange, Rearm, ReceiveTimer, Return,
      loopVars, renderVars
<1> QED
  BY <1>1, <1>4, <1>5 DEF Next, vars, loopVars, renderVars

(* What is fresh stays fresh, and what is published follows the inputs. *)
LEMMA FreshStep == SafeInv /\ [Next]_vars => FreshReads' /\ FileFollowsInputs'
<1> SUFFICES ASSUME SafeInv, [Next]_vars
             PROVE  FreshReads' /\ FileFollowsInputs'
  OBVIOUS
<1> USE DEF SafeInv
<1>1. CASE pc' \in {"sync", "load"}
  BY <1>1 DEF FreshReads, FileFollowsInputs
<1>2. \/ WakeComing'
      \/ ~WakeComing /\ UNCHANGED <<entries, templates>>
      \/ pc' \in {"sync", "load"}
  BY WakeStep
<1>3. CASE UNCHANGED <<pc, read, failed, file>>
  BY <1>1, <1>2, <1>3 DEF FreshReads, FileFollowsInputs, FileCurrent
<1>4. CASE pc' \in {"prime", "drain", "list", "done"}
  BY <1>4 DEF FreshReads, FileFollowsInputs
<1>5. CASE ListTemplates
  <2>1. pc' = "snapshot" /\ read'.templates = templates /\ templates' = templates
    BY <1>5 DEF ListTemplates, inputVars, TypeInv, TypeOK
  <2> QED
    BY <2>1 DEF FreshReads, FileFollowsInputs
<1>6. CASE SnapshotRegistry
  <2>1. /\ pc = "snapshot" /\ pc' = "write"
        /\ read'.entries = entries /\ entries' = entries
        /\ read'.templates = read.templates
    BY <1>6 DEF SnapshotRegistry, Snapshot, registryVars, TypeInv, TypeOK
  <2> QED
    BY <1>2, <2>1 DEF FreshReads, FileFollowsInputs
<1>7. CASE Write
  <2>1. pc = "write" /\ pc' = "status" /\ read' = read
    BY <1>7 DEF Write
  <2>2. file' = read
    BY <1>7 DEF Write, AlreadyWritten, MemoryMatchesDisk
  <2> QED
    BY <1>2, <2>1, <2>2 DEF FreshReads, FileFollowsInputs
<1>8. CASE UpdateStatus
  <2>1. pc = "status" /\ pc' = "select" /\ read' = read /\ file' = file
    BY <1>8 DEF UpdateStatus, renderVars
  <2>2. file = read /\ read # None
    BY <2>1, ReadIsContent DEF FreshReads
  <2> QED
    BY <1>2, <2>1, <2>2 DEF FreshReads, FileFollowsInputs, FileCurrent
<1>9. CASE RenderFails
  BY <1>9 DEF RenderFails, FreshReads, FileFollowsInputs
<1>10. CASE ReceiveChange
  BY <1>10 DEF ReceiveChange, AfterStop, FreshReads, FileFollowsInputs
<1>11. CASE Rearm
  <2>1. pc' = "select" /\ pending'
    BY <1>11 DEF Rearm
  <2> QED
    BY <2>1 DEF FreshReads, FileFollowsInputs, WakeComing
<1>12. CASE Return
  BY <1>12 DEF Return, AfterStop, FreshReads, FileFollowsInputs
<1>13. CASE LoopStep
  BY <1>1, <1>3, <1>4, <1>5, <1>6, <1>7, <1>8, <1>9, <1>10, <1>11, <1>12, <1>13
  DEF LoopStep, CachesSync, CachesDoNotSync, PrimeSet, PrimeNotify,
      PrimeReturns, DrainSignal, LoadBase, ReceiveTimer, loopVars, renderVars
<1>14. CASE Surroundings \/ Wakers \/ TimerFires
  BY <1>1, <1>3, <1>14
  DEF Surroundings, Wakers, WorkerSet, TemplateEvent, EditBase, Cancel, Crash,
      TemplateReconcile, WorkerNotify, TimerFires, loopVars, renderVars
<1> QED
  BY <1>3, <1>13, <1>14 DEF Next, vars, loopVars, renderVars

LEMMA SafeInit == Init => SafeInv
<1> SUFFICES ASSUME Init PROVE SafeInv
  OBVIOUS
<1>1. TypeInv
  BY TypeInit
<1>2. TimerInv
  BY DEF Init, TimerInv, TimerNeverBlocks
<1>3. MemoryMatchesDisk
  BY DEF Init, MemoryMatchesDisk
<1>4. FreshReads /\ FileFollowsInputs
  BY DEF Init, FreshReads, FileFollowsInputs
<1> QED
  BY <1>1, <1>2, <1>3, <1>4 DEF SafeInv

LEMMA SafeAlways == Spec => []SafeInv
<1>1. SafeInv /\ [Next]_vars => SafeInv'
  BY TypeStep, TimerStep, MemoryStep, FreshStep DEF SafeInv
<1> QED
  BY SafeInit, <1>1, PTL DEF Spec

(* No change is lost: a loop at rest after a successful render has published
   the registry and the templates as they are. *)
THEOREM NoChangeIsLost == Spec => []FileFollowsInputs
<1>1. SafeInv => FileFollowsInputs
  BY DEF SafeInv
<1> QED
  BY SafeAlways, <1>1, PTL

(* The loop never blocks draining its timer. *)
THEOREM LoopNeverBlocks == Spec => []TimerNeverBlocks
<1>1. SafeInv => TimerNeverBlocks
  BY DEF SafeInv, TimerInv
<1> QED
  BY SafeAlways, <1>1, PTL

(* Skipping a write because of Writer.last is always sound. *)
THEOREM SkippingIsSound == Spec => []MemoryMatchesDisk
<1>1. SafeInv => MemoryMatchesDisk
  BY DEF SafeInv
<1> QED
  BY SafeAlways, <1>1, PTL
=============================================================================
