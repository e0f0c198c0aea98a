----------------------------- MODULE RenderLoop -----------------------------
(***************************************************************************)
(* internal/controller/render_loop.go: the goroutine that turns registry   *)
(* changes into configuration files, beside the goroutines that change the *)
(* registry, the EndpointTemplates and the base file under it.             *)
(*                                                                         *)
(* Any thread may Set any key here; module Sidecar says which values the   *)
(* reconcilers set and implements this specification.  Rendering is        *)
(* abstracted to the inputs it reads: the file holds the record of the     *)
(* base, the templates and the entries it was rendered from.               *)
(***************************************************************************)
EXTENDS Registry

CONSTANTS Workers,      \* reconciler goroutines
          Loop,         \* the render loop goroutine, which also runs Prime
          TemplateSets, \* states of the cluster's EndpointTemplates
          Bases,        \* contents of the base configuration file
          None          \* nothing read, written or remembered yet

ASSUME ThreadsAssumption == Threads = Workers \cup {Loop} /\ Loop \notin Workers
EntryMaps == [Keys -> Lists \cup {NoList}]
Contents == [base: Bases, templates: TemplateSets, entries: EntryMaps]

ASSUME NoneAssumption == None \notin Contents

VARIABLES templates,  \* the templates in the informer cache
          base,       \* the base configuration file
          touchDue,   \* the EndpointTemplate reconciler has a request queued
          cancelled,  \* the manager's context is done
          pc,         \* where Start and render are
          pending,    \* Start's variable of that name
          timer,      \* the debounce timer: stopped, running, or fired and unread
          primed,     \* how Prime ended
          read,       \* what the current or latest render read
          failed,     \* the latest render returned an error
          file,       \* the published configuration
          last,       \* Writer.last
          ready       \* RenderLoop.ready

inputVars == <<templates, base, touchDue, cancelled>>
timerVars == <<pending, timer>>
renderVars == <<read, failed, file, last, ready>>
loopVars == <<pc, primed, timerVars, renderVars>>
vars == <<registryVars, inputVars, loopVars>>

NothingRead == [base |-> None, templates |-> None, entries |-> None]

Init ==
    /\ RegistryInit
    /\ templates \in TemplateSets
    /\ base \in Bases
    /\ touchDue = FALSE
    /\ cancelled = FALSE
    /\ pc = "sync"
    /\ pending = FALSE
    /\ timer = "stopped"
    /\ primed = "no"
    /\ read = NothingRead
    /\ failed = FALSE
    /\ file = None
    /\ last = None
    /\ ready = FALSE

-----------------------------------------------------------------------------
(* The loop's surroundings. *)

WorkerSet(w, k, list) == Set(w, k, list) /\ UNCHANGED <<inputVars, loopVars>>

WorkerNotify(w) == Notify(w) /\ UNCHANGED <<inputVars, loopVars>>

(* A change of the templates reaches the cache the loop lists from and queues
   a request for the reconciler.  With the templates unchanged this is a
   status-only update or a resync, which queue a request all the same. *)
TemplateEvent(ts) ==
    /\ templates' = ts
    /\ touchDue' = TRUE
    /\ UNCHANGED <<registryVars, base, cancelled, loopVars>>

(* EndpointTemplateReconciler.Reconcile. *)
TemplateReconcile ==
    /\ touchDue
    /\ touchDue' = FALSE
    /\ Touch
    /\ UNCHANGED <<templates, base, cancelled, loopVars>>

EditBase(b) ==
    /\ b # base
    /\ base' = b
    /\ UNCHANGED <<registryVars, templates, touchDue, cancelled, loopVars>>

Cancel ==
    /\ ~cancelled
    /\ cancelled' = TRUE
    /\ UNCHANGED <<registryVars, templates, base, touchDue, loopVars>>

(* The container dies and is restarted: only the published file survives. *)
Crash ==
    /\ pc # "sync"
    /\ entries' = [k \in Keys |-> NoList]
    /\ changed' = FALSE
    /\ owing' = {}
    /\ touchDue' = FALSE
    /\ cancelled' = FALSE
    /\ pc' = "sync"
    /\ pending' = FALSE
    /\ timer' = "stopped"
    /\ primed' = "no"
    /\ read' = NothingRead
    /\ failed' = FALSE
    /\ last' = None
    /\ ready' = FALSE
    /\ UNCHANGED <<templates, base, file>>

-----------------------------------------------------------------------------
(* Start, up to the first render. *)

CachesSync ==
    /\ pc = "sync"
    /\ pc' = "prime"
    /\ UNCHANGED <<registryVars, inputVars, primed, timerVars, renderVars>>

(* WaitForCacheSync gives up only when the context is done. *)
CachesDoNotSync ==
    /\ pc = "sync"
    /\ cancelled
    /\ pc' = "done"
    /\ UNCHANGED <<registryVars, inputVars, primed, timerVars, renderVars>>

PrimeSet(k, list) ==
    /\ pc = "prime"
    /\ Set(Loop, k, list)
    /\ UNCHANGED <<inputVars, loopVars>>

PrimeNotify == Notify(Loop) /\ UNCHANGED <<inputVars, loopVars>>

(* Prime's error is only logged. *)
PrimeReturns(outcome) ==
    /\ pc = "prime"
    /\ Loop \notin owing
    /\ primed' = outcome
    /\ pc' = "drain"
    /\ UNCHANGED <<registryVars, inputVars, timerVars, renderVars>>

DrainSignal ==
    /\ pc = "drain"
    /\ changed' = FALSE
    /\ pc' = "load"
    /\ failed' = FALSE
    /\ UNCHANGED <<entries, owing, inputVars, primed, timerVars,
                   read, file, last, ready>>

-----------------------------------------------------------------------------
(* render. *)

LoadBase ==
    /\ pc = "load"
    /\ read' = [read EXCEPT !.base = base]
    /\ pc' = "list"
    /\ UNCHANGED <<registryVars, inputVars, primed, timerVars,
                   failed, file, last, ready>>

ListTemplates ==
    /\ pc = "list"
    /\ read' = [read EXCEPT !.templates = templates]
    /\ pc' = "snapshot"
    /\ UNCHANGED <<registryVars, inputVars, primed, timerVars,
                   failed, file, last, ready>>

(* Mutant of SnapshotRegistry: the signal is drained after the reads. *)
SnapshotThenDrain ==
    /\ pc = "snapshot"
    /\ read' = [read EXCEPT !.entries = Snapshot]
    /\ changed' = FALSE
    /\ pc' = "write"
    /\ UNCHANGED <<entries, owing, inputVars, primed, timerVars,
                   failed, file, last, ready>>

SnapshotRegistry ==
    /\ pc = "snapshot"
    /\ read' = [read EXCEPT !.entries = Snapshot]
    /\ pc' = "write"
    /\ UNCHANGED <<registryVars, inputVars, primed, timerVars,
                   failed, file, last, ready>>

(* Writer.Write found the content already in place, in memory or on disk. *)
AlreadyWritten == read = IF last = None THEN file ELSE last

Write ==
    /\ pc = "write"
    /\ file' = IF AlreadyWritten THEN file ELSE read
    /\ last' = read
    /\ ready' = TRUE
    /\ pc' = "status"
    /\ UNCHANGED <<registryVars, inputVars, primed, timerVars, read, failed>>

(* Mutants of RenderFails: what was read so far is published all the same; the
   content is remembered though it was not written. *)
RenderFailsHalfWritten ==
    /\ pc \in {"load", "list", "write"}
    /\ failed' = TRUE
    /\ file' = read
    /\ pc' = "select"
    /\ UNCHANGED <<registryVars, inputVars, primed, timerVars, read, last, ready>>

RenderFailsRemembered ==
    /\ pc \in {"load", "list", "write"}
    /\ failed' = TRUE
    /\ last' = IF pc = "write" THEN read ELSE last
    /\ pc' = "select"
    /\ UNCHANGED <<registryVars, inputVars, primed, timerVars, read, file, ready>>

(* The base cannot be read, the templates cannot be listed, or the file cannot
   be written: the error is logged and nothing schedules another attempt. *)
RenderFails ==
    /\ pc \in {"load", "list", "write"}
    /\ failed' = TRUE
    /\ pc' = "select"
    /\ UNCHANGED <<registryVars, inputVars, primed, timerVars,
                   read, file, last, ready>>

(* updateTemplateStatus: a patched status comes back as a template event. *)
UpdateStatus ==
    /\ pc = "status"
    /\ touchDue' \in {touchDue, TRUE}
    /\ pc' = "select"
    /\ UNCHANGED <<registryVars, templates, base, cancelled, primed, timerVars,
                   renderVars>>

-----------------------------------------------------------------------------
(* The select loop. *)

(* timer.Stop reports whether the timer was armed and unread, as it does since
   Go 1.23 (go.mod asks for 1.26), and leaves it stopped. *)
StopReturns == timer # "stopped"

(* A receive from the timer after a failed Stop would never return. *)
AfterStop(next) == IF pending /\ ~StopReturns THEN "stuck" ELSE next

ReceiveChange ==
    /\ pc = "select"
    /\ TakeSignal
    /\ timer' = IF pending THEN "stopped" ELSE timer
    /\ pc' = AfterStop("rearm")
    /\ UNCHANGED <<inputVars, primed, pending, renderVars>>

(* Mutant of Rearm: the timer is not reset. *)
RearmWithoutReset ==
    /\ pc = "rearm"
    /\ pending' = TRUE
    /\ pc' = "select"
    /\ UNCHANGED <<registryVars, inputVars, primed, timer, renderVars>>

Rearm ==
    /\ pc = "rearm"
    /\ timer' = "running"
    /\ pending' = TRUE
    /\ pc' = "select"
    /\ UNCHANGED <<registryVars, inputVars, primed, renderVars>>

TimerFires ==
    /\ timer = "running"
    /\ timer' = "fired"
    /\ UNCHANGED <<registryVars, inputVars, pc, primed, pending, renderVars>>

(* Mutant of ReceiveTimer: pending stays set. *)
ReceiveTimerStillPending ==
    /\ pc = "select"
    /\ timer = "fired"
    /\ timer' = "stopped"
    /\ failed' = FALSE
    /\ pc' = "load"
    /\ UNCHANGED <<registryVars, inputVars, primed, pending, read, file, last, ready>>

ReceiveTimer ==
    /\ pc = "select"
    /\ timer = "fired"
    /\ timer' = "stopped"
    /\ pending' = FALSE
    /\ failed' = FALSE
    /\ pc' = "load"
    /\ UNCHANGED <<registryVars, inputVars, primed, read, file, last, ready>>

Return ==
    /\ pc = "select"
    /\ cancelled
    /\ timer' = IF pending THEN "stopped" ELSE timer
    /\ pc' = AfterStop("done")
    /\ UNCHANGED <<registryVars, inputVars, primed, pending, renderVars>>

-----------------------------------------------------------------------------
Surroundings ==
    \/ \E w \in Workers, k \in Keys, list \in Lists \cup {NoList} :
          WorkerSet(w, k, list)
    \/ \E ts \in TemplateSets : TemplateEvent(ts)
    \/ \E b \in Bases : EditBase(b)
    \/ Cancel
    \/ Crash

Wakers == TemplateReconcile \/ \E w \in Workers : WorkerNotify(w)

LoopStep ==
    \/ CachesSync
    \/ CachesDoNotSync
    \/ \E k \in Keys, list \in Lists \cup {NoList} : PrimeSet(k, list)
    \/ PrimeNotify
    \/ \E outcome \in {"ok", "failed"} : PrimeReturns(outcome)
    \/ DrainSignal
    \/ LoadBase
    \/ ListTemplates
    \/ SnapshotRegistry
    \/ Write
    \/ RenderFails
    \/ UpdateStatus
    \/ ReceiveChange
    \/ Rearm
    \/ ReceiveTimer
    \/ Return

Next == Surroundings \/ Wakers \/ LoopStep \/ TimerFires

Spec == Init /\ [][Next]_vars

(* Every goroutine that can run does; Prime runs over a finite listing; an
   armed timer fires unless it is stopped first; select picks at random among
   its ready cases, so none is passed over for ever. *)
Fairness ==
    /\ \A w \in Workers : WF_vars(WorkerNotify(w))
    /\ WF_vars(TemplateReconcile)
    /\ WF_vars(CachesSync)
    /\ WF_vars(PrimeNotify)
    /\ SF_vars(\E outcome \in {"ok", "failed"} : PrimeReturns(outcome))
    /\ WF_vars(DrainSignal)
    /\ WF_vars(LoadBase \/ ListTemplates \/ SnapshotRegistry \/ Write
               \/ RenderFails \/ UpdateStatus)
    /\ WF_vars(Rearm)
    /\ WF_vars(TimerFires)
    /\ SF_vars(ReceiveChange)
    /\ SF_vars(ReceiveTimer)
    /\ SF_vars(Return)

FairSpec == Spec /\ Fairness

-----------------------------------------------------------------------------
(* Properties. *)

(* Every variable keeps its type, and what is published or remembered is
   always the content of one whole render. *)
TypeOK ==
    /\ RegistryTypeOK
    /\ templates \in TemplateSets
    /\ base \in Bases
    /\ touchDue \in BOOLEAN
    /\ cancelled \in BOOLEAN
    /\ pc \in {"sync", "prime", "drain", "load", "list", "snapshot", "write",
              "status", "select", "rearm", "stuck", "done"}
    /\ pending \in BOOLEAN
    /\ timer \in {"stopped", "running", "fired"}
    /\ primed \in {"no", "ok", "failed"}
    /\ read \in [base: Bases \cup {None}, templates: TemplateSets \cup {None},
                 entries: EntryMaps \cup {None}]
    /\ failed \in BOOLEAN
    /\ file \in Contents \cup {None}
    /\ last \in Contents \cup {None}
    /\ ready \in BOOLEAN

(* Something will make the loop render again. *)
WakeComing == changed \/ owing # {} \/ touchDue \/ pending \/ pc = "rearm"

FileCurrent == file # None /\ file.templates = templates /\ file.entries = entries

(* No change is lost: whenever the loop waits in select with no wake-up on its
   way and its latest render succeeded, the published file shows the registry
   and the templates as they are now.  This is what the coalescing signal, the
   drain before the first render and the reads after it must add up to. *)
FileFollowsInputs == pc = "select" /\ ~WakeComing /\ ~failed => FileCurrent

(* The drains "<-timer.C" after a failed Stop (render_loop.go:114, 122) are
   never reached with nothing to receive: the loop cannot block there. *)
TimerNeverBlocks == pc # "stuck"

(* Writer.last, when set, is what the file holds, so skipping a write because
   the content equals it is sound; and a ready sidecar has published a file. *)
MemoryMatchesDisk == /\ last # None => file = last
                     /\ ready => last # None

(* Once the surroundings stop changing anything, the file ends up current and
   stays so, unless the last render failed or the loop was told to stop. *)
Converges ==
    <>[][~Surroundings]_vars => <>[](FileCurrent \/ failed \/ cancelled)

(* A cancelled loop returns (or the process dies), whatever else keeps
   arriving on its channels. *)
ShutdownEnds == cancelled ~> (pc = "done" \/ ~cancelled)

(* What the comment in Start (render_loop.go:92-94) says: after a failed Prime
   the loop waits for a change, so the select loop starts every render. *)
FailedPrimeWaits ==
    [][primed = "failed" /\ pc' = "load" => pc \in {"select", "load"}]_vars
=============================================================================
