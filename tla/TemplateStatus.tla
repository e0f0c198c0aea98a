--------------------------- MODULE TemplateStatus ---------------------------
(***************************************************************************)
(* internal/controller/template_status.go: the status of one               *)
(* EndpointTemplate, written after each render, and the loop this closes:  *)
(* a status write is a change of the template, which comes back through    *)
(* the informer cache, possibly late, and asks for another render.         *)
(*                                                                         *)
(* The API server and its watch are external.  Patch is a merge patch: it  *)
(* writes the fields in which the wanted status differs from the cached    *)
(* one, and leaves the others as the server has them.                      *)
(***************************************************************************)
EXTENDS Naturals, Sequences

CONSTANTS MaxGeneration, \* bound on the edits of the spec
          MaxLag         \* bound on the versions the cache may be behind when
                         \* something else changes

ASSUME BoundsAssumption == MaxGeneration \in Nat \ {0} /\ MaxLag \in Nat

VARIABLES server,   \* the template as the API server has it
          cache,    \* as the informer cache has it
          watch,    \* versions not yet delivered to the cache
          usage,    \* endpoints of the registry that resolve the template
          parents,  \* the templates it extends resolve
          wake,     \* a render is due: queued, signalled or debounced
          pc,       \* idle, or render has published and updates the status
          read,     \* the template as render listed it
          want,     \* the status render computed
          unwritten \* the latest render or update failed

vars == <<server, cache, watch, usage, parents, wake, pc, read, want, unwritten>>

(* A condition's lastTransitionTime matters only in that a patch may reset it:
   since counts, modulo 2, how often it was set. *)
Conditions == [ready : BOOLEAN, generation : 0..MaxGeneration, since : 0..1]
Statuses == [observed : 0..MaxGeneration, usedBy : 0..1, condition : Conditions]
Templates == [generation : 1..MaxGeneration, valid : BOOLEAN, status : Statuses]

(* A template just created, its own body an object or not.  It has no status:
   generation 0 was not observed. *)
Created(valid) ==
    [generation |-> 1, valid |-> valid,
     status |-> [observed |-> 0, usedBy |-> 0,
                 condition |-> [ready |-> FALSE, generation |-> 0, since |-> 0]]]

Init ==
    /\ server \in {Created(v) : v \in BOOLEAN}
    /\ cache = server
    /\ watch = <<>>
    /\ usage \in 0..1
    /\ parents \in BOOLEAN
    /\ wake = TRUE
    /\ pc = "idle"
    /\ read = server
    /\ want = server.status
    /\ unwritten = FALSE

-----------------------------------------------------------------------------
(* The cluster. *)

EditSpec(v) ==
    /\ server.generation < MaxGeneration
    /\ Len(watch) < MaxLag
    /\ server' = [server EXCEPT !.generation = @ + 1, !.valid = v]
    /\ watch' = Append(watch, server')
    /\ UNCHANGED <<cache, usage, parents, wake, pc, read, want, unwritten>>

(* An object starts or stops using the template, or a template it extends is
   edited: either wakes the loop by itself. *)
ChangeElsewhere(u, p) ==
    /\ <<u, p>> # <<usage, parents>>
    /\ Len(watch) < MaxLag
    /\ usage' = u
    /\ parents' = p
    /\ wake' = TRUE
    /\ UNCHANGED <<server, cache, watch, pc, read, want, unwritten>>

(* The informer delivers a version; every event of a template, its status
   included, reaches EndpointTemplateReconciler, which touches the registry. *)
Deliver ==
    /\ watch # <<>>
    /\ cache' = Head(watch)
    /\ watch' = Tail(watch)
    /\ wake' = TRUE
    /\ UNCHANGED <<server, usage, parents, pc, read, want, unwritten>>

-----------------------------------------------------------------------------
(* A render, up to the status. *)

(* readyCondition, without the time. *)
ReadyCondition(tpl) ==
    [ready |-> tpl.valid /\ parents, generation |-> tpl.generation, since |-> 0]

(* Mutant of Wanted: the count is added to that of the last render. *)
WantedOnTop(tpl) == [observed |-> tpl.generation,
                     usedBy |-> usage + tpl.status.usedBy,
                     condition |-> ReadyCondition(tpl)]

Wanted(tpl) == [observed |-> tpl.generation, usedBy |-> usage,
                condition |-> ReadyCondition(tpl)]

Render ==
    /\ wake
    /\ pc = "idle"
    /\ wake' = FALSE
    /\ read' = cache
    /\ want' = Wanted(cache)
    /\ pc' = "status"
    /\ UNCHANGED <<server, cache, watch, usage, parents, unwritten>>

(* A render that fails to read the base configuration, to list the templates, to
   marshal or to write returns before it comes to the status, with the wake-up
   taken. *)
RenderFails ==
    /\ wake
    /\ pc = "idle"
    /\ wake' = FALSE
    /\ unwritten' = TRUE
    /\ UNCHANGED <<server, cache, watch, usage, parents, pc, read, want>>

SameCondition(a, b) == a.ready = b.ready /\ a.generation = b.generation

(* Mutant of StatusUnchanged: only the condition is compared. *)
ConditionUnchanged(have, wanted) == SameCondition(have.condition, wanted.condition)

StatusUnchanged(have, wanted) ==
    /\ have.observed = wanted.observed
    /\ have.usedBy = wanted.usedBy
    /\ SameCondition(have.condition, wanted.condition)

(* transitionTime keeps the time of a status that did not flip, judging by what
   render read. *)
TransitionTime(have, condition) ==
    IF have.ready = condition.ready /\ have.generation # 0
      THEN have.since ELSE 1 - server.status.condition.since

(* The server applies the fields that differ between what was read and what is
   wanted. *)
Applied(have, wanted, current) == IF wanted = have THEN current ELSE wanted

Patched(have, wanted) ==
    LET current == server.status
        condition == [wanted.condition EXCEPT
                        !.since = TransitionTime(have.condition, wanted.condition)]
    IN  [observed |-> Applied(have.observed, wanted.observed, current.observed),
         usedBy |-> Applied(have.usedBy, wanted.usedBy, current.usedBy),
         condition |-> Applied(have.condition, condition, current.condition)]

EndUpdate ==
    /\ pc' = "idle"
    /\ UNCHANGED <<cache, usage, parents, wake, read, want>>

SkipUpdate ==
    /\ pc = "status"
    /\ StatusUnchanged(read.status, want)
    /\ unwritten' = FALSE
    /\ EndUpdate
    /\ UNCHANGED <<server, watch>>

(* Mutant of PatchStatus: every render writes, and stamps what it writes. *)
PatchAlways ==
    /\ pc = "status"
    /\ server' = [server EXCEPT !.status =
                     [want EXCEPT !.condition.since = 1 - server.status.condition.since]]
    /\ watch' = Append(watch, server')
    /\ unwritten' = FALSE
    /\ EndUpdate

(* A patch that changes nothing on the server makes no new version. *)
PatchStatus ==
    /\ pc = "status"
    /\ ~StatusUnchanged(read.status, want)
    /\ server' = [server EXCEPT !.status = Patched(read.status, want)]
    /\ watch' = IF server' = server THEN watch ELSE Append(watch, server')
    /\ unwritten' = FALSE
    /\ EndUpdate

(* The error is logged; nothing tries again before the next render. *)
PatchFails ==
    /\ pc = "status"
    /\ ~StatusUnchanged(read.status, want)
    /\ unwritten' = TRUE
    /\ EndUpdate
    /\ UNCHANGED <<server, watch>>

-----------------------------------------------------------------------------
Surroundings ==
    \/ \E v \in BOOLEAN : EditSpec(v)
    \/ \E u \in 0..1, p \in BOOLEAN : ChangeElsewhere(u, p)

RenderStep == Render \/ SkipUpdate \/ PatchStatus

Next == Surroundings \/ Deliver \/ RenderStep \/ RenderFails \/ PatchFails

Spec == Init /\ [][Next]_vars

(* The watch delivers, and the loop renders whenever it is woken. *)
FairSpec == Spec /\ WF_vars(Deliver) /\ WF_vars(RenderStep)

-----------------------------------------------------------------------------
(* Properties. *)

(* Every variable keeps its type. *)
TypeOK ==
    /\ server \in Templates
    /\ cache \in Templates
    /\ watch \in Seq(Templates)
    /\ usage \in 0..1
    /\ parents \in BOOLEAN
    /\ wake \in BOOLEAN
    /\ pc \in {"idle", "status"}
    /\ read \in Templates
    /\ want \in Statuses
    /\ unwritten \in BOOLEAN

(* What endpointtemplate_types.go says of the fields, of the present cluster. *)
StatusIsTrue ==
    /\ server.status.observed = server.generation
    /\ server.status.usedBy = usage
    /\ server.status.condition.ready = (server.valid /\ parents)
    /\ server.status.condition.generation = server.generation

(* When nothing is under way the status on the server is true of the cluster as
   it is, however far behind the cache was when it was computed and patched,
   unless the latest render failed, which ends it before the status, or the
   update after it did: neither is tried again before the next change. *)
QuietMeansTrue ==
    pc = "idle" /\ ~wake /\ watch = <<>> /\ ~unwritten => StatusIsTrue

(* The writes die out: once nothing else changes, the sidecar stops patching
   the template, or waking itself, for good, whichever renders and patches fail
   meanwhile. *)
FeedbackEnds ==
    <>[][~Surroundings]_vars => <>[](pc = "idle" /\ ~wake /\ watch = <<>>)
=============================================================================
